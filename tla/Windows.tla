------------------------------ MODULE Windows ------------------------------
(***************************************************************************)
(* Windows and their overlap: evaluation/RoiOverlapping.m.  A window is a  *)
(* record of integers, top-left corner x, y and size w, h; it covers the   *)
(* points between x and x+w and between y and y+h.                         *)
(***************************************************************************)
EXTENDS Integers, FiniteSets

\* A window that was found may be empty: the one that stands for none is.
Window == [x : Int, y : Int, w : Nat, h : Nat]

Smaller(p, q) == IF p <= q THEN p ELSE q
Larger(p, q) == IF p >= q THEN p ELSE q
Abs(p) == IF p >= 0 THEN p ELSE -p

Area(a) == a.w * a.h

\* The guard of the computation: the windows have interior points in common.
Meet(a, b) ==
  /\ a.x < b.x + b.w /\ a.x + a.w > b.x
  /\ a.y < b.y + b.h /\ a.y + a.h > b.y

\* intersectionX and intersectionY of two spans that start at p and q and are
\* m and n long.
SpanWidest(p, m, q, n) ==   \* mutant: the larger difference
  Larger(Abs(Larger(p, p + m) - Smaller(q, q + n)),
         Abs(Smaller(p, p + m) - Larger(q, q + n)))
SpanOverlap(p, m, q, n) ==
  Smaller(Abs(Larger(p, p + m) - Smaller(q, q + n)),
          Abs(Smaller(p, p + m) - Larger(q, q + n)))

Intersection(a, b) == SpanOverlap(a.x, a.w, b.x, b.w) * SpanOverlap(a.y, a.h, b.y, b.h)
UnionWithRepeats(a, b) == Area(a) + Area(b)   \* mutant
Union(a, b) == Area(a) + Area(b) - Intersection(a, b)

\* RoiOverlapping(a, b) > 0.5, the test of PerformanceAccumulationWindow.m.
\* The quotient of a positive intersection and a zero union is Inf.
OverlapsByHalf(a, b) ==
  /\ Meet(a, b)
  /\ \/ Union(a, b) > 0 /\ 2 * Intersection(a, b) > Union(a, b)
     \/ Union(a, b) = 0 /\ Intersection(a, b) > 0
-----------------------------------------------------------------------------
\* Reference: the unit cells of a window, and intersection over union by count.
Cells(a) == (a.x .. a.x + a.w - 1) \X (a.y .. a.y + a.h - 1)
Shared(a, b) == Cardinality(Cells(a) \cap Cells(b))
Joined(a, b) == Cardinality(Cells(a) \cup Cells(b))
IoUAboveHalf(a, b) == 2 * Shared(a, b) > Joined(a, b)

\* One span lies strictly inside the other.
Nested(p, m, q, n) == (p < q /\ q + n < p + m) \/ (q < p /\ p + m < q + n)
=============================================================================
