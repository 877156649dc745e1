-------------------------- MODULE WindowEvaluation --------------------------
(***************************************************************************)
(* Matching and overlap together: evaluation/PerformanceAccumulationWindow *)
(* is called with the windows of an image's signs and with those found in  *)
(* it, and asks evaluation/RoiOverlapping.m which pairs match.             *)
(***************************************************************************)
EXTENDS WindowMatching, Windows

CONSTANT Cases   \* the windows [annotations, detections] there may be

ASSUME CasesAssumption ==
  Cases \subseteq [annotations : [Annotations -> Window], detections : [Detections -> Window]]

VARIABLE windows   \* the arguments annotations and detections

\* The pairs the test of lines 27-29 finds to overlap.
Overlapping(c) ==
  {ad \in Annotations \X Detections : OverlapsByHalf(c.annotations[ad[1]], c.detections[ad[2]])}

EvaluationInit ==
  /\ windows \in Cases
  /\ hit = Overlapping(windows)
  /\ Init
EvaluationNext == Next /\ UNCHANGED windows
EvaluationSpec == EvaluationInit /\ [][EvaluationNext]_<<vars, windows>>
-----------------------------------------------------------------------------
\* The pairs that overlap by more than half, counted by unit cells.
TrulyOverlapping(c) ==
  {ad \in Annotations \X Detections : IoUAboveHalf(c.annotations[ad[1]], c.detections[ad[2]])}

NestedWindows(a, b) == Nested(a.x, a.w, b.x, b.w) \/ Nested(a.y, a.h, b.y, b.h)

\* No correct detection is counted as a false positive and, where no window
\* lies strictly inside another along an axis, the three counts are the right
\* ones: then the four differences of lines 28-29 of RoiOverlapping.m come to
\* the intersection, in the order the loops meet the pairs.
CountsAreTrueUnlessNested ==
  done =>
    LET counts == WindowCounts(TrulyOverlapping(windows), NA, ND)
    IN /\ TP >= counts.TP /\ FP <= counts.FP
       /\ (\A n \in Annotations, m \in Detections :
             ~ NestedWindows(windows.annotations[n], windows.detections[m]))
            => [TP |-> TP, FN |-> FN, FP |-> FP] = counts
=============================================================================
