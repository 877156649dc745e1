-------------------------------- MODULE Boxes --------------------------------
(***************************************************************************)
(* Masks and the boxes found in them, shared by the candidate generation   *)
(* of weeks 3 and 4.  A pixel is <<x, y>>, column and row; a mask is a set *)
(* of pixels; an image is its size and the pixels of its mask.  Ratios are *)
(* pairs <<numerator, denominator>> and are compared by multiplication.    *)
(***************************************************************************)
EXTENDS Windows, FiniteSetsExt

NotBelow(p, q, r) == p * r[2] >= r[1] * q   \* p/q >= r
NotAbove(p, q, r) == p * r[2] <= r[1] * q    \* p/q <= r
Between(p, q, bounds) == NotBelow(p, q, bounds[1]) /\ NotAbove(p, q, bounds[2])

Canvas(img) == (1 .. img.w) \X (1 .. img.h)

\* The connected components of a graph: each node in turn joins the sets it has
\* an edge to.  This is bwconncomp, and conncomp of merge_bboxes.m.
Components(V, E) ==
  FoldSet(LAMBDA v, M :
            LET touched == {S \in M : \E u \in S : <<u, v>> \in E \/ <<v, u>> \in E}
            IN (M \ touched) \cup {(UNION touched) \cup {v}},
          {}, V)

\* Pixels are connected to the eight around them.
Adjacent(p, q) == Abs(p[1] - q[1]) <= 1 /\ Abs(p[2] - q[2]) <= 1
PixelComponents(on) == Components(on, {e \in on \X on : Adjacent(e[1], e[2])})

\* The box of a set of pixels, from its smallest coordinates to its greatest,
\* both included.
BoundsShort(P) ==   \* mutant: the "+1" of the extents is forgotten
  LET X == {p[1] : p \in P}
      Y == {p[2] : p \in P}
  IN [x |-> Min(X), y |-> Min(Y), w |-> Max(X) - Min(X), h |-> Max(Y) - Min(Y)]
Bounds(P) ==
  LET X == {p[1] : p \in P}
      Y == {p[2] : p \in P}
  IN [x |-> Min(X), y |-> Min(Y), w |-> Max(X) - Min(X) + 1, h |-> Max(Y) - Min(Y) + 1]

\* The window that is saved when no box qualifies.
Sentinel == [x |-> 1, y |-> 1, w |-> 0, h |-> 0]
OrSentinel(list) == IF list = <<>> THEN <<Sentinel>> ELSE list
AreaOn(mask, b) == Cardinality(mask \cap Cells(b))
\* mask_windows: what the windows of a list cover.
Covered(list) == UNION {Cells(list[k]) : k \in DOMAIN list}
==============================================================================
