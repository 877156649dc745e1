------------------------------ MODULE Matching ------------------------------
(***************************************************************************)
(* What PerformanceAccumulationWindow.m computes, in closed form.  The     *)
(* annotations are 1 .. na, the detections 1 .. nd, and hit is the set of  *)
(* pairs <<annotation, detection>> whose windows overlap by more than half.*)
(* WindowMatching shows that the loops of the code compute these sets.     *)
(***************************************************************************)
EXTENDS Integers, FiniteSets

\* A detection is used by the first annotation it overlaps.
UsedDetections(hit, na, nd) ==
  {d \in 1 .. nd : \E a \in 1 .. na : <<a, d>> \in hit}
UsedAnnotations(hit, na, nd) ==
  {a \in 1 .. na : \E d \in 1 .. nd :
     <<a, d>> \in hit /\ \A c \in 1 .. na : c < a => <<c, d>> \notin hit}

WindowCounts(hit, na, nd) ==
  [TP |-> Cardinality(UsedDetections(hit, na, nd)),
   FN |-> Cardinality((1 .. na) \ UsedAnnotations(hit, na, nd)),
   FP |-> Cardinality((1 .. nd) \ UsedDetections(hit, na, nd))]
=============================================================================
