------------------------- MODULE MCCandidateWindows -------------------------
(***************************************************************************)
(* Instances of CandidateWindows for TLC: every mask of a 4 x 3 image, and *)
(* larger masks with several groups of windows.                            *)
(***************************************************************************)
EXTENDS CandidateWindows

\* Windows two and three pixels wide and high.
MCTrain == [w |-> <<2, 5>>, h |-> <<2, 5>>,
            ff |-> <<<<1, 2>>, <<2, 1>>>>, fr |-> <<<<1, 2>>, <<1, 1>>>>,
            slide |-> <<<<3, 4>>, <<9, 4>>>>]

Masks4x3 == {[w |-> 4, h |-> 3, on |-> S] : S \in SUBSET ((1 .. 4) \X (1 .. 3))}

\* Two signs apart: one group of windows each, or a group and a lone window.
Large == [w |-> 9, h |-> 5, on |-> ((1 .. 4) \X (1 .. 4)) \cup ((6 .. 9) \X (2 .. 5))]
Lone == [w |-> 9, h |-> 5, on |-> ((1 .. 4) \X (1 .. 4)) \cup ((8 .. 9) \X (2 .. 3))]
\* Three signs apart: more groups than the histogram tells apart.
Three == [w |-> 12, h |-> 3, on |-> {1, 2, 6, 10} \X (1 .. 3)]
\* A band along the left and the lower border, and a square in the corner it
\* leaves: the box of the band holds the square's.
Corner == [w |-> 10, h |-> 10, on |-> ((1 .. 3) \X (1 .. 10)) \cup ((1 .. 10) \X (8 .. 10))
                                      \cup ((7 .. 10) \X (1 .. 4))]

MCImages == Masks4x3 \cup {Large, Lone, Three, Corner}
=============================================================================
