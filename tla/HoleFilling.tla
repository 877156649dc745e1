---------------------------- MODULE HoleFilling ----------------------------
(***************************************************************************)
(* mex_hole_filling.cpp: a candidate is completed with the regions it      *)
(* encloses, and the regions outside are its complement.  Both are found   *)
(* on the tree: the coarsest partition in which the candidate's regions    *)
(* exist is split in groups of neighbours, and the group that reaches the  *)
(* border (label 0) is the outside.                                        *)
(***************************************************************************)
EXTENDS RegionTrees

\* Where a region is merged, the last time it is; a region that never is
\* counts as the first (map::operator[]).
MergedAt(ms, r) ==
  LET at == {i \in DOMAIN ms : r \in ms[i].sons} IN IF at = {} THEN 1 ELSE Max(at)

\* The regions of the candidate and the others of that partition.
FirstMerging(ms, row) == Min({MergedAt(ms, row[y]) : y \in DOMAIN row})
Coexisting(ms, row) ==
  FoldLeft(LAMBDA a, m :
             IF m.sons \cap a.coex_anc = {} THEN a
             ELSE LET anc == a.coex_anc \cup {m.parent}
                  IN [coex |-> a.coex \cup (m.sons \ anc), coex_anc |-> anc],
           [coex |-> Range(row), coex_anc |-> Range(row)],
           SubSeq(ms, FirstMerging(ms, row), Len(ms))).coex

\* Grouping: a region joins every group it is a neighbour of into the last.
JoinFirst(groups, nb, r) ==   \* mutant: groups linked by a region are not merged
  LET linked == {j \in DOMAIN groups : groups[j] \cap nb[r] # {}}
  IN IF linked = {} THEN Append(groups, {r})
     ELSE [groups EXCEPT ![Min(linked)] = @ \cup {r}]
Join(groups, nb, r) ==
  LET linked == {j \in DOMAIN groups : groups[j] \cap nb[r] # {}}
      into == Max(linked)
      joined == [groups EXCEPT ![into] = {r} \cup UNION {groups[j] : j \in linked}]
      stay == Ascending((DOMAIN groups \ linked) \cup {into})
  IN IF linked = {} THEN Append(groups, {r}) ELSE [i \in DOMAIN stay |-> joined[stay[i]]]
Groups(nb, regs) == FoldLeft(LAMBDA g, r : Join(g, nb, r), <<>>, Ascending(regs))

\* What a row of labels becomes: its regions and then its holes, and the rest.
Whole(ms) == <<n_regs(ms)>>
FilledRow(ms, nb, row) ==
  IF row = Whole(ms) THEN [hf |-> row, comp |-> row]
  ELSE LET groups == Groups(nb, (Coexisting(ms, row) \cup {0}) \ Range(row))
           holes == SelectSeq(groups, LAMBDA g : 0 \notin g)
           outside == (CHOOSE g \in Range(groups) : 0 \in g) \ {0}
       IN [hf |-> row \o FlattenSeq([j \in DOMAIN holes |-> Ascending(holes[j])]),
           comp |-> IF outside = {} THEN Whole(ms) ELSE Ascending(outside)]
mex_hole_filling(ms, lp, rows) ==
  LET nb == neighbors(ms, neigh_pairs(lp) \cup border_pairs(lp))
  IN [x \in DOMAIN rows |-> FilledRow(ms, nb, rows[x])]
=============================================================================
