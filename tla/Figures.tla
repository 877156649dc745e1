------------------------------- MODULE Figures -------------------------------
(***************************************************************************)
(* What the functions of evaluation/ and week4/PerformanceEvaluation*_v2.m *)
(* make of a mask or a list of windows.  A figure is a quotient            *)
(* <<numerator, denominator>>; it is NaN when both are zero.               *)
(***************************************************************************)
EXTENDS Windows, Matching

\* PerformanceAccumulationPixel.m on a mask of unit cells and the cells of the
\* annotated windows.
PixelCounts(mask, gt) ==
  [TP |-> Cardinality(mask \cap gt), FP |-> Cardinality(mask \ gt),
   FN |-> Cardinality(gt \ mask)]

GtCells(g) == UNION {Cells(g[k]) : k \in DOMAIN g}

\* PerformanceAccumulationWindow.m on the first na annotations and the first nd
\* detections; what is first is decided by size(list,1).
Hits(anns, na, dets, nd) ==
  {p \in (1 .. na) \X (1 .. nd) : OverlapsByHalf(anns[p[1]], dets[p[2]])}
CompareFirst(anns, na, dets, nd) == WindowCounts(Hits(anns, na, dets, nd), na, nd)

Defined(figure) == figure[2] # 0

Precision(c) == <<c.TP, c.TP + c.FP>>
Recall(c) == <<c.TP, c.TP + c.FN>>
F1(c) == <<2 * c.TP, 2 * c.TP + c.FP + c.FN>>
\* In week 4 the precision of pixels without false positives is set to zero.
PixelPrecision(c) == IF c.FP = 0 THEN <<0, 1>> ELSE Precision(c)
=============================================================================
