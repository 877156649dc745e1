----------------------------- MODULE UcmPruning -----------------------------
(***************************************************************************)
(* mex_prune_ucm_nregs.cpp: the contour strength up to which an ultrametric *)
(* contour map has to be cleared for its hierarchy to have no more than    *)
(* nreg_max regions, those made by merging others included.  The map has a *)
(* contour of some strength between any two leaves.                        *)
(***************************************************************************)
EXTENDS Quotients, FiniteSets, SequencesExt

CONSTANTS Tx, Ty

\* The contours in scanning order: between rows first, then between columns.
Horizontal(xx, yy) == [at |-> <<xx, yy>>, n1 |-> <<(xx \div 2) - 1, (yy - 1) \div 2>>,
                       n2 |-> <<xx \div 2, (yy - 1) \div 2>>]
Vertical(xx, yy) == [at |-> <<xx, yy>>, n1 |-> <<(xx - 1) \div 2, (yy \div 2) - 1>>,
                     n2 |-> <<(xx - 1) \div 2, yy \div 2>>]
cont_elems ==
  FlattenSeq([x \in 1 .. Tx - 1 |-> [y \in 1 .. Ty |-> Horizontal(2 * x, 2 * y - 1)]])
    \o FlattenSeq([x \in 1 .. Tx |-> [y \in 1 .. Ty - 1 |-> Vertical(2 * x - 1, 2 * y)]])

Strengths(ucm2) == {s \in {ucm2[c.at] : c \in Range(cont_elems)} : Below(Zero, s)}
AscendingStrengths(ucm2) ==
  [i \in 1 .. Cardinality(Strengths(ucm2)) |->
     CHOOSE s \in Strengths(ucm2) : Cardinality({t \in Strengths(ucm2) : Below(t, s)}) = i - 1]

\* The sets of labels that one strength merges: each contour joins the sets of
\* the labels on its two sides.
SetOf(to_merge, l) == {j \in DOMAIN to_merge : l \in to_merge[j]}
NewSetOnly(to_merge, a, b) ==   \* mutant: two sets found are not joined
  LET found == SetOf(to_merge, a) \cup SetOf(to_merge, b)
  IN IF found = {} THEN Append(to_merge, {a, b})
     ELSE [to_merge EXCEPT ![Min(found)] = @ \cup {a, b}]
JoinLabels(to_merge, a, b) ==
  LET found == SetOf(to_merge, a) \cup SetOf(to_merge, b)
      into == CHOOSE j \in found : SetOf(to_merge, a) # {} => j \in SetOf(to_merge, a)
      joined == [to_merge EXCEPT ![into] = {a, b} \cup UNION {to_merge[j] : j \in found}]
  IN IF found = {} THEN Append(to_merge, {a, b})
     ELSE FoldLeft(LAMBDA g, j : IF j \in found \ {into} THEN g ELSE Append(g, joined[j]),
                   <<>>, [j \in DOMAIN to_merge |-> j])
to_merge_at(curr_lp, ucm2, th) ==
  FoldLeft(LAMBDA g, c : IF ucm2[c.at] = th THEN JoinLabels(g, curr_lp[c.n1], curr_lp[c.n2]) ELSE g,
           <<>>, cont_elems)

\* After every merging, the strength and the number of leaves left.
MergeSet(a, th, S) ==
  LET new == a.curr_max + 1
      nl == a.curr_nl - Cardinality(S) + 1
  IN [curr_lp |-> [p \in DOMAIN a.curr_lp |-> IF a.curr_lp[p] \in S THEN new ELSE a.curr_lp[p]],
      curr_max |-> new, curr_nl |-> nl,
      num_regs_at_th |-> Append(a.num_regs_at_th, <<th, nl>>)]
num_regs_at_th(lp, ucm2) ==
  LET n == Max({lp[p] : p \in DOMAIN lp})
  IN FoldLeft(LAMBDA a, th : FoldLeft(LAMBDA b, S : MergeSet(b, th, S), a, to_merge_at(a.curr_lp, ucm2, th)),
              [curr_lp |-> lp, curr_max |-> n, curr_nl |-> n, num_regs_at_th |-> <<<<Zero, n>>>>],
              AscendingStrengths(ucm2)).num_regs_at_th

\* From the last merging back, undoing one adds its sons; the strength is that
\* of the first one that would add too many, zero if none does.
RegionsFrom(list, k) == 1 + (list[k][2] - list[Len(list)][2]) + (Len(list) - k)
ucm_th(lp, ucm2, nreg_max) ==
  LET list == num_regs_at_th(lp, ucm2)
      over == {k \in 1 .. Len(list) - 1 : RegionsFrom(list, k) > nreg_max}
  IN IF nreg_max = 1 THEN list[Len(list)][1]
     ELSE IF over = {} THEN Zero ELSE list[Max(over) + 1][1]
=============================================================================
