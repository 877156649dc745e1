--------------------------- MODULE MCWindowMatching ---------------------------
(***************************************************************************)
(* One detection is any window of a small grid, or the empty window that   *)
(* stands for none; the others and the annotations are a square, a         *)
(* cross-beam and a tall window.                                           *)
(***************************************************************************)
EXTENDS WindowEvaluation

CONSTANTS Corner, Side   \* the largest corner coordinate and side length

Grid == [x : 0 .. Corner, y : 0 .. Corner, w : 1 .. Side, h : 1 .. Side]
None == [x |-> 0, y |-> 0, w |-> 0, h |-> 0]
Signs == {[x |-> 0, y |-> 0, w |-> 2, h |-> 2],
          [x |-> 0, y |-> 1, w |-> 4, h |-> 1],
          [x |-> 1, y |-> 0, w |-> 2, h |-> 3]}

MCCases ==
  [annotations : [Annotations -> Signs],
   detections : {d \in [Detections -> Grid \cup Signs \cup {None}] :
                   \A n \in Detections \ {1} : d[n] \in Signs}]
=============================================================================
