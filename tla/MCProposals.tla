---------------------------- MODULE MCProposals ----------------------------
(***************************************************************************)
(* Hierarchies of a 3 x 3 image: all ways to merge the regions of some     *)
(* partitions of four or five leaves, two or three neighbours at a time.   *)
(***************************************************************************)
EXTENDS Proposals

Image(rows) == [p \in Pixels |-> rows[p[1]][p[2]]]

\* All sequences of mergings of neighbours; adj has the pairs of neighbours.
Linked(S, adj) == \A T \in SUBSET S : T # {} /\ T # S => \E r \in T, s \in S \ T : {r, s} \in adj
RECURSIVE MergingsOf(_, _, _, _)
MergingsOf(regs, adj, next, sizes) ==
  IF Cardinality(regs) = 1 THEN {<<>>}
  ELSE UNION {
    LET merged(r) == IF r \in S THEN next ELSE r
        adj2 == {{merged(r) : r \in e} : e \in adj} \ {{next}}
        first == [sons |-> S, parent |-> next]
    IN {<<first>> \o rest : rest \in MergingsOf((regs \ S) \cup {next}, adj2, next + 1, sizes)}
    : S \in {S \in SUBSET regs : Cardinality(S) \in sizes /\ Linked(S, adj)}}
Hierarchies(lp, sizes) ==
  LET n == Max(Range(lp)) IN MergingsOf(1 .. n, neigh_pairs(lp), n + 1, sizes)

Ring == Image(<<<<1, 1, 2>>, <<1, 3, 2>>, <<4, 4, 5>>>>)
Hooks == Image(<<<<1, 1, 1>>, <<2, 3, 1>>, <<2, 2, 4>>>>)
Bars == Image(<<<<1, 2, 2>>, <<1, 3, 4>>, <<1, 3, 4>>>>)

Single(lp, sizes, nums) ==
  {[lps |-> <<lp>>, ms |-> <<ms>>, n_cands |-> <<num>>] : ms \in Hierarchies(lp, sizes), num \in nums}
Double(lp1, lp2, nums1, nums2) ==
  {[lps |-> <<lp1, lp2>>, ms |-> <<ms1, ms2>>, n_cands |-> <<num1, num2>>] :
     ms1 \in Hierarchies(lp1, {2}), ms2 \in Hierarchies(lp2, {2, 3}), num1 \in nums1, num2 \in nums2}

MCInputs ==
  Single(Ring, {2, 3}, {<<9, 99, 99>>, <<2, 2, 1>>})
    \cup Single(Hooks, {2, 3, 4}, {<<9, 99, 99>>, <<2, 2, 3>>, <<1, 0, 0>>, <<1, 1, 0>>, <<0, 0, 0>>})
    \cup Double(Hooks, Bars, {<<3, 2, 1>>}, {<<9, 9, 9>>, <<1, 0, 0>>, <<0, 0, 0>>})
MCJ == <<4, 5>>
MCtheta == <<7, 10>>
MCPredict(forest, f) ==
  CASE forest = "large" -> f.areas [] forest = "simple" -> 3 - f.n_regs [] OTHER -> 1
=============================================================================
