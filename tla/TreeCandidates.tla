--------------------------- MODULE TreeCandidates ---------------------------
(***************************************************************************)
(* mex_get_tree_cands.cpp: the pairs, triplets, ... of neighbouring        *)
(* regions of one hierarchy, found from the top of the tree down until     *)
(* there are enough of every size.  A candidate is a set of regions.       *)
(***************************************************************************)
EXTENDS RegionTrees

VARIABLES
  mer_seq,          \* the mergings of the hierarchy
  num_cands,        \* size of a candidate |-> how many are wanted
  tree,             \* neighbours, descendants, siblings and ascendants
  coexistent,       \* the regions of the partition the sweep is at
  cands_list,       \* size |-> the candidates of that size, in order
  curr_n_reg_max,   \* the greatest size still looked for
  left              \* the mergings not undone yet

tree_vars == <<mer_seq, num_cands, tree, coexistent, cands_list, curr_n_reg_max, left>>

n_reg_cand == Len(num_cands)

\* The state before the first merging is undone.
StartTree(ms, pairs, num) ==
  /\ mer_seq' = ms /\ num_cands' = num
  /\ tree' = [neighbors |-> neighbors(ms, pairs), descendants |-> descendants(ms),
              siblings |-> siblings(ms), ascendants |-> ascendants(ms)]
  /\ coexistent' = {}
  /\ cands_list' = [k \in 1 .. Len(num) |-> <<>>]
  /\ curr_n_reg_max' = Len(num)
  /\ left' = Len(ms)

\* The regions that may join a candidate: neighbours that are in the partition
\* or above it, but not the other half of a binary merging, which would give
\* the parent again.
BelowOthers(regs, coex) == UNION {tree.descendants[r] \ {r} : r \in coex \ regs}
AllSiblings(regs) == UNION {tree.siblings[r] : r \in regs}   \* mutant: not only in pairs
Twins(regs) ==
  UNION {tree.siblings[r] : r \in {x \in regs : Cardinality(tree.siblings[x]) = 1}}
UpNeighbors(regs, coex) ==
  (UNION {tree.neighbors[r] : r \in regs})
    \ ((UNION {tree.descendants[r] \cup tree.ascendants[r] : r \in regs})
         \cup BelowOthers(regs, coex) \cup Twins(regs))

\* The candidates with one region more, the one with the greatest label first.
AppendNew(list, more) ==
  FoldLeft(LAMBDA l, c : IF Contains(l, c) THEN l ELSE Append(l, c), list, more)
Extensions(regs, coex) ==
  LET up == Reverse(Ascending(UpNeighbors(regs, coex)))
  IN [i \in DOMAIN up |-> regs \cup {up[i]}]
Extended(list, coex) ==
  FoldLeft(LAMBDA l, regs : AppendNew(l, Extensions(regs, coex)), <<>>, list)

\* The new candidates of each size: from the sons up.
NewCands(sons, coex) ==
  LET singles == Ascending(sons)
      new[k \in 1 .. curr_n_reg_max] ==
        IF k = 1 THEN [i \in DOMAIN singles |-> {singles[i]}] ELSE Extended(new[k - 1], coex)
  IN [k \in 1 .. n_reg_cand |-> IF k <= curr_n_reg_max THEN new[k] ELSE <<>>]

\* A size is no longer looked for once it and all greater ones are full.
EnoughOf(lists, k) == Len(lists[k]) >= num_cands[k]   \* mutant: whatever the greater sizes have
EnoughFrom(lists, k) == \A j \in k .. n_reg_cand : Len(lists[j]) >= num_cands[j]
SizesLeft(lists) ==
  LET K == {k \in 2 .. n_reg_cand : EnoughFrom(lists, k)}
  IN IF K = {} THEN curr_n_reg_max ELSE Min(K) - 1

UndoMerging ==
  /\ left > 0
  /\ LET m == mer_seq[left]
         coex == (coexistent \ {m.parent}) \cup m.sons
         new == NewCands(m.sons, coex)
         lists == [k \in 1 .. n_reg_cand |-> AppendNew(cands_list[k], new[k])]
     IN /\ coexistent' = coex
        /\ cands_list' = lists
        /\ curr_n_reg_max' = SizesLeft(lists)
        /\ left' = IF EnoughFrom(lists, 2) THEN 0 ELSE left - 1
  /\ UNCHANGED <<mer_seq, num_cands, tree>>

tree_cands == [k \in 2 .. n_reg_cand |->
                 SubSeq(cands_list[k], 1, Min({Len(cands_list[k]), num_cands[k]}))]
-----------------------------------------------------------------------------
(* Properties.                                                             *)

Connected(regs) ==
  \A S \in SUBSET regs : S # {} /\ S # regs =>
    \E r \in S, s \in regs \ S : s \in tree.neighbors[r]
Disjoint(regs) ==
  \A r, s \in regs : r # s => tree.descendants[r] \cap tree.descendants[s] = {}
IsCandidate(regs) ==
  Connected(regs) /\ Disjoint(regs) /\ \A r \in regs : tree.siblings[r] \cap regs = {} \/ Cardinality(tree.siblings[r]) > 1

\* How far down the tree a set of regions is found: where the last of them
\* appears.
Depth(regs) ==
  Max({CHOOSE i \in 1 .. Len(mer_seq) : r \in mer_seq[Len(mer_seq) + 1 - i].sons : r \in regs})

\* The lists that are returned have no candidate twice and only connected sets
\* of regions that do not overlap, and what they leave out for being enough is
\* never coarser than what they have: the search adds neighbours to new sets
\* only, and stops early by size.
CoarsestFirst ==
  left = 0 /\ cands_list # <<>> =>
    \A k \in 2 .. n_reg_cand :
      LET out == tree_cands[k] IN
      /\ IsInjective(out)
      /\ \A c \in Range(out) : Cardinality(c) = k /\ IsCandidate(c)
      /\ \A c \in {x \in SUBSET (1 .. n_regs(mer_seq) - 1) : Cardinality(x) = k} :
           IsCandidate(c) /\ ~ Contains(out, c) =>
             /\ Len(out) = num_cands[k]
             /\ \A x \in Range(out) : Depth(x) <= Depth(c)
=============================================================================
