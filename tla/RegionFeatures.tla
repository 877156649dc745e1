--------------------------- MODULE RegionFeatures ---------------------------
(***************************************************************************)
(* compute_base_features.m, which computes areas, intersections, bounding  *)
(* boxes and perimeters of all regions of the fused hierarchy from its     *)
(* leaves up, and the mex functions that combine those of the regions of a *)
(* candidate: mex_fast_features.cpp and mex_fast_reduction.cpp.            *)
(***************************************************************************)
EXTENDS RegionTrees, Quotients

\* A parent has the sum of its sons' areas.
areas(lp, ms) ==
  FoldLeft(LAMBDA a, m : [a EXCEPT ![m.parent] = MapThenSumSet(LAMBDA s : a[s], m.sons)],
           [r \in 1 .. n_regs(ms) |-> Cardinality({p \in Pixels : lp[p] = r})], ms)

\* mex_fast_intersections.cpp: two regions share their common leaves.  The
\* diagonal is filled in afterwards, with the areas.
CommonLeaves(area, L, r, s) == Cardinality(L[r] \cap L[s])   \* mutant: not their areas
Inters(area, L, r, s) == MapThenSumSet(LAMBDA l : area[l], L[r] \cap L[s])
intersections(lp, ms) ==
  LET area == areas(lp, ms)
      L == leaves(ms)
      n == n_leaves(ms)
  IN [rs \in (1 .. n_regs(ms)) \X (1 .. n_regs(ms)) |->
        IF rs[1] = rs[2] THEN area[rs[1]]
        ELSE IF Max({rs[1], rs[2]}) <= n THEN 0 ELSE Inters(area, L, rs[1], rs[2])]

\* Left, top, right and bottom.
Hull(B) == <<Min({b[1] : b \in B}), Min({b[2] : b \in B}), Max({b[3] : b \in B}), Max({b[4] : b \in B})>>
BoxOf(P) == Hull({<<p[2], p[1], p[2], p[1]>> : p \in P})
base_bboxes(lp, ms) ==
  FoldLeft(LAMBDA b, m : [b EXCEPT ![m.parent] = Hull({b[s] : s \in m.sons})],
           [r \in 1 .. n_regs(ms) |-> IF r <= n_leaves(ms) THEN BoxOf({p \in Pixels : lp[p] = r}) ELSE <<>>],
           ms)
-----------------------------------------------------------------------------
(* Perimeters.                                                             *)

\* mex_base_perimeters.cpp: the contour between two leaves, or one and the
\* border of the image (a pixel in a corner has two sides on it).
CommonContour(lp, r, s) == Cardinality({pq \in AdjacentPixels : lp[pq[1]] = r /\ lp[pq[2]] = s})
SidesOnBorder(p) ==
  Cardinality({d \in {"left", "right"} : p[1] = (IF d = "left" THEN 1 ELSE Sx)})
    + Cardinality({d \in {"up", "down"} : p[2] = (IF d = "up" THEN 1 ELSE Sy)})
BorderContour(lp, r) == MapThenSumSet(SidesOnBorder, {p \in BorderPixels : lp[p] = r})
border_perimeters(lp, ms) ==
  FoldLeft(LAMBDA b, m : [b EXCEPT ![m.parent] = MapThenSumSet(LAMBDA s : b[s], m.sons)],
           [r \in 1 .. n_regs(ms) |-> BorderContour(lp, r)], ms)

\* The columns of the parents are filled in twice: the second time the first
\* sums are still there, and all are added to them again.
Upper(M) == [rs \in DOMAIN M |-> IF rs[1] <= rs[2] THEN M[rs] ELSE 0]
Mirrored(M) == [rs \in DOMAIN M |-> M[rs] + M[<<rs[2], rs[1]>>]]
ThroughMergings(M0, ms) ==
  LET D == descendants(ms)
      AddSons(M, m) ==
        [rs \in DOMAIN M |->
           IF rs[2] # m.parent THEN M[rs]
           ELSE IF rs[1] \in D[m.parent] THEN 0
           ELSE M[rs] + MapThenSumSet(LAMBDA s : M[<<rs[1], s>>], m.sons)]
  IN FoldLeft(AddSons, M0, ms)
common_perimeters(lp, ms) ==
  LET leaf == 1 .. n_leaves(ms)
      base == [rs \in (1 .. n_regs(ms)) \X (1 .. n_regs(ms)) |->
                 IF rs[1] \in leaf /\ rs[2] \in leaf /\ rs[1] # rs[2]
                 THEN CommonContour(lp, rs[1], rs[2]) ELSE 0]
  IN Upper(ThroughMergings(Mirrored(Upper(ThroughMergings(base, ms))), ms))
perimeters(lp, ms) ==
  LET both == Mirrored(common_perimeters(lp, ms))
  IN [r \in 1 .. n_regs(ms) |->
        border_perimeters(lp, ms)[r] + MapThenSumSet(LAMBDA l : both[<<l, r>>], 1 .. n_leaves(ms))]
-----------------------------------------------------------------------------
(* Features of a candidate, a row of labels.                               *)

RowArea(area, row) == MapThenSumSet(LAMBDA y : area[row[y]], DOMAIN row)
RowBox(boxes, row) == Hull({boxes[row[y]] : y \in DOMAIN row})
AreaBalance(area, row) ==
  <<Min({area[row[y]] : y \in DOMAIN row}), Max({area[row[y]] : y \in DOMAIN row})>>
RowPerimeter(perims, common, row) ==
  MapThenSumSet(LAMBDA y : perims[row[y]], DOMAIN row)
    - 2 * MapThenSumSet(LAMBDA yz : common[<<row[yz[1]], row[yz[2]]>>], {yz \in (DOMAIN row) \X DOMAIN row : yz[1] < yz[2]})

\* Intersection over union of two candidates, from the tables of the regions.
RowInters(inters, row1, row2) ==
  MapThenSumSet(LAMBDA yz : inters[<<row1[yz[1]], row2[yz[2]]>>], (DOMAIN row1) \X DOMAIN row2)
Jaccard(area, inters, row1, row2) ==
  LET both == RowInters(inters, row1, row2)
  IN <<both, RowArea(area, row1) + RowArea(area, row2) - both>>

\* mex_fast_reduction.cpp: a candidate stays unless one that stayed before it
\* is almost the same.
Reduced(area, inters, rows, J_th) ==
  FoldLeft(LAMBDA kept, row :
             IF \E k \in DOMAIN kept : AtMost(J_th, Jaccard(area, inters, kept[k], row))
             THEN kept ELSE Append(kept, row),
           <<>>, rows)
=============================================================================
