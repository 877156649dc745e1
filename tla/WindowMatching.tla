--------------------------- MODULE WindowMatching ---------------------------
(***************************************************************************)
(* evaluation/PerformanceAccumulationWindow.m: the detections of an image  *)
(* are matched greedily against its annotations by two nested loops.       *)
(***************************************************************************)
EXTENDS Matching

CONSTANTS NA,   \* size(annotations,1)
          ND    \* size(detections,1)

ASSUME SizesAssumption == NA \in Nat /\ ND \in Nat

Annotations == 1 .. NA
Detections == 1 .. ND

VARIABLES
  hit,               \* the pairs for which RoiOverlapping exceeds 0.5
  i, j,              \* the loop variables
  detectionsUsed,    \* the j with detectionsUsed(j) = 1
  annotationsUsed,   \* the i with annotationsUsed(i) = 1
  TP, FN, FP,        \* the result
  done

vars == <<hit, i, j, detectionsUsed, annotationsUsed, TP, FN, FP, done>>

Init ==
  /\ hit \in SUBSET (Annotations \X Detections)
  /\ i = 1 /\ j = 1
  /\ detectionsUsed = {} /\ annotationsUsed = {}
  /\ TP = 0 /\ FN = 0 /\ FP = 0
  /\ done = FALSE

\* The test of lines 27-29.
CanMatchAgain(a, d) == <<a, d>> \in hit   \* mutant: used detections match again
\* Mutant: annotationsUsed is tested as well, so it matters who comes first.
CanMatchOnce(a, d) == d \notin detectionsUsed /\ a \notin annotationsUsed /\ <<a, d>> \in hit
CanMatch(a, d) == d \notin detectionsUsed /\ <<a, d>> \in hit

\* The body of the inner loop; annotationsUsed(i) is set and never tested.
TestPair ==
  /\ i <= NA /\ j <= ND
  /\ IF CanMatch(i, j)
     THEN /\ TP' = TP + 1
          /\ detectionsUsed' = detectionsUsed \cup {j}
          /\ annotationsUsed' = annotationsUsed \cup {i}
     ELSE UNCHANGED <<TP, detectionsUsed, annotationsUsed>>
  /\ j' = j + 1
  /\ UNCHANGED <<hit, i, FN, FP, done>>

NextAnnotation ==
  /\ i <= NA /\ j > ND
  /\ i' = i + 1 /\ j' = 1
  /\ UNCHANGED <<hit, detectionsUsed, annotationsUsed, TP, FN, FP, done>>

CountUnused ==
  /\ i > NA /\ ~done
  /\ FN' = Cardinality(Annotations \ annotationsUsed)
  /\ FP' = Cardinality(Detections \ detectionsUsed)
  /\ done' = TRUE
  /\ UNCHANGED <<hit, i, j, detectionsUsed, annotationsUsed, TP>>

Next == TestPair \/ NextAnnotation \/ CountUnused

Spec == Init /\ [][Next]_vars
-----------------------------------------------------------------------------
\* The loop variables stay in range and the flags mark existing windows.
TypeOK ==
  /\ hit \subseteq Annotations \X Detections
  /\ i \in 1 .. NA + 1 /\ j \in 1 .. ND + 1
  /\ detectionsUsed \subseteq Detections /\ annotationsUsed \subseteq Annotations
  /\ TP \in Nat /\ FN \in Nat /\ FP \in Nat
  /\ done \in BOOLEAN

\* The pairs the loops have tested.
Tested(a, d) == a < i \/ (a = i /\ d < j)

\* The flags after any number of iterations: a detection is used if a tested
\* annotation overlaps it, an annotation if it is the first to overlap some
\* detection; TP counts the used detections.
LoopInv ==
  /\ detectionsUsed = {d \in Detections : \E a \in Annotations : Tested(a, d) /\ <<a, d>> \in hit}
  /\ annotationsUsed = {a \in Annotations : \E d \in Detections :
                          /\ Tested(a, d) /\ <<a, d>> \in hit
                          /\ \A c \in Annotations : c < a => <<c, d>> \notin hit}
  /\ TP = Cardinality(detectionsUsed)
  /\ done => /\ i = NA + 1
             /\ FN = Cardinality(Annotations \ annotationsUsed)
             /\ FP = Cardinality(Detections \ detectionsUsed)

\* The counts the function returns are those of the closed form, which picks the
\* first annotation of every detection: a detection is matched if any annotation
\* overlaps it, an annotation if it is the first to overlap some detection.
CountsAreClosedForm ==
  done => [TP |-> TP, FN |-> FN, FP |-> FP] = WindowCounts(hit, NA, ND)

\* What the order of the two lists has to do with the counts.  TP and FP are the
\* same in any order, although which annotation claims a detection is not.  FN
\* is the same in any order of the detections; in another order of the
\* annotations it may differ, but at most by the number of detections that
\* overlap several of them (lines 24-34: one flag is tested, the other is not).
Orders(n) == {p \in [1 .. n -> 1 .. n] : \A x, y \in 1 .. n : p[x] = p[y] => x = y}
Reordered(p, q) == {<<p[ad[1]], q[ad[2]]>> : ad \in hit}
Contested(pairs) ==
  {d \in Detections : \E a, c \in Annotations : a # c /\ <<a, d>> \in pairs /\ <<c, d>> \in pairs}
OrderOfLists ==
  done =>
    \A p \in Orders(NA), q \in Orders(ND) :
      LET other == WindowCounts(Reordered(p, q), NA, ND)
          contested == Cardinality(Contested(hit))
      IN /\ TP = other.TP /\ FP = other.FP
         /\ FN - other.FN <= contested /\ other.FN - FN <= contested
         /\ (\A a \in Annotations : p[a] = a) => FN = other.FN

\* Every detection is counted once, as a true positive or a false positive, and
\* no annotated object is lost: each is missed or accounts for a true positive.
\* (It may account for several: "the number of True Positive (TP), ... objects"
\* of lines 20-21 counts detections, not objects.)
ListsCovered == done => TP + FP = ND /\ TP + FN >= NA
=============================================================================
