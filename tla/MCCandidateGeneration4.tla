----------------------- MODULE MCCandidateGeneration4 -----------------------
(***************************************************************************)
(* Instances of CandidateGeneration4 for TLC: lists of up to three images  *)
(* of six kinds.                                                           *)
(***************************************************************************)
EXTENDS CandidateGeneration4

MCLimits == [w |-> 2, h |-> 2, ff |-> <<<<1, 2>>, <<2, 1>>>>, fr |-> <<<<1, 2>>, <<1, 1>>>>]

Left == [x |-> 1, y |-> 1, w |-> 2, h |-> 2]
Right == [x |-> 4, y |-> 1, w |-> 2, h |-> 2]
Below == [x |-> 3, y |-> 4, w |-> 2, h |-> 2]
Image(on, gt, signs) == [w |-> 5, h |-> 5, on |-> on, gt |-> gt, signs |-> signs]

\* Segmented as it should be, one sign or two.
Exact == Image(Cells(Left), Cells(Left), <<Left>>)
Both == Image(Cells(Left) \cup Cells(Right), Cells(Left) \cup Cells(Right), <<Left, Right>>)
\* Three windows, of which the last is a sign; nothing; a line, that is no sign.
Third == Image(Cells(Left) \cup Cells(Right) \cup {<<2, 4>>, <<2, 5>>, <<1, 5>>},
               Cells(Right), <<Right>>)
Nothing == Image({}, Cells(Below), <<Below>>)
Line == Image({<<3, 1>>, <<3, 2>>, <<3, 3>>, <<3, 4>>, <<3, 5>>}, Cells(Below), <<Below>>)
\* A frame around a pixel: two components, one inside the box of the other.
Frame == Image({p \in (1 .. 5) \X (1 .. 5) : p[1] \in {1, 5} \/ p[2] \in {1, 5}} \cup {<<3, 3>>},
               Cells(Left), <<Left>>)

Kinds == {Exact, Both, Third, Nothing, Line, Frame}
MCFiles == UNION {[1 .. n -> Kinds] : n \in 1 .. 3}
=============================================================================
