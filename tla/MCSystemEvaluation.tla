------------------------- MODULE MCSystemEvaluation -------------------------
(***************************************************************************)
(* Instances of SystemEvaluation for TLC: two signs that do not overlap, a *)
(* detection of each, and the 0 x 0 window that stands for "none".         *)
(***************************************************************************)
EXTENDS SystemEvaluation

Left == [x |-> 1, y |-> 1, w |-> 2, h |-> 2]
Right == [x |-> 4, y |-> 1, w |-> 2, h |-> 2]
None == [x |-> 1, y |-> 1, w |-> 0, h |-> 0]

MCAnnotated == {<<Left>>, <<Right>>, <<Left, Right>>}
MCSaved ==
  {[mask |-> {}, windows |-> <<None>>],
   [mask |-> Cells(Right), windows |-> <<Right>>],
   [mask |-> Cells(Left) \cup Cells(Right), windows |-> <<Left, Right>>]}
=============================================================================
