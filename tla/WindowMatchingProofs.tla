------------------------ MODULE WindowMatchingProofs ------------------------
(***************************************************************************)
(* Proofs about WindowMatching, for any number of annotations and          *)
(* detections and any overlap relation, and about WindowEvaluation, for    *)
(* any windows: there the overlap is the one the code computes.            *)
(***************************************************************************)
EXTENDS WindowEvaluation, DataProofs

\* The sets of window numbers are finite and have the expected sizes.
LEMMA WindowNumbers ==
  /\ IsFiniteSet(Annotations) /\ Cardinality(Annotations) = NA
  /\ IsFiniteSet(Detections) /\ Cardinality(Detections) = ND
<1> USE SizesAssumption DEF Annotations, Detections
<1>1. IsFiniteSet(1 .. NA) /\ Cardinality(1 .. NA) = NA
  BY FS_Interval
<1>2. IsFiniteSet(1 .. ND) /\ Cardinality(1 .. ND) = ND
  BY FS_Interval
<1> QED BY <1>1, <1>2

\* Marking a detection that is not marked yet adds one to the count.
LEMMA MarkOneMore ==
  ASSUME NEW T, T \subseteq Detections, NEW d \in Detections, d \notin T
  PROVE  Cardinality(T \cup {d}) = Cardinality(T) + 1
<1>1. IsFiniteSet(T)
  BY WindowNumbers, FS_Subset
<1> QED BY <1>1, FS_AddElement

\* The loop variables and the flags keep to their types, for any numbers of
\* windows.
THEOREM TypeCorrect == Spec => []TypeOK
<1> USE SizesAssumption DEF Annotations, Detections, TypeOK
<1>1. ASSUME Init PROVE TypeOK
  <2>1. hit \subseteq Annotations \X Detections
    BY <1>1 DEF Init
  <2>2. i \in 1 .. NA + 1 /\ j \in 1 .. ND + 1 /\ TP \in Nat /\ FN \in Nat /\ FP \in Nat
    BY <1>1 DEF Init
  <2>3. done \in BOOLEAN
    BY <1>1 DEF Init
  <2>4. detectionsUsed \subseteq Detections /\ annotationsUsed \subseteq Annotations
    BY <1>1 DEF Init
  <2> QED BY <2>1, <2>2, <2>3, <2>4
<1>2. ASSUME TypeOK, [Next]_vars PROVE TypeOK'
  <2>1. CASE TestPair
    <3>1. j \in Detections /\ i \in Annotations
      BY <1>2, <2>1 DEF TestPair, CanMatch
    <3>2. /\ TP' \in Nat
          /\ detectionsUsed' \subseteq Detections /\ annotationsUsed' \subseteq Annotations
      <4>1. CASE j \notin detectionsUsed /\ <<i, j>> \in hit
        <5>1. /\ TP' = TP + 1
              /\ detectionsUsed' = detectionsUsed \cup {j}
              /\ annotationsUsed' = annotationsUsed \cup {i}
          BY <2>1, <4>1 DEF TestPair, CanMatch
        <5> QED BY <1>2, <3>1, <5>1
      <4>2. CASE ~(j \notin detectionsUsed /\ <<i, j>> \in hit)
        BY <1>2, <2>1, <4>2 DEF TestPair, CanMatch
      <4> QED BY <4>1, <4>2
    <3>3. j' \in 1 .. ND + 1
      BY <2>1, <3>1 DEF TestPair, CanMatch
    <3>4. UNCHANGED <<hit, i, FN, FP, done>>
      BY <2>1 DEF TestPair, CanMatch
    <3> QED BY <1>2, <3>2, <3>3, <3>4
  <2>2. CASE NextAnnotation
    BY <1>2, <2>2 DEF NextAnnotation
  <2>3. CASE CountUnused
    <3>1. /\ Cardinality(Annotations \ annotationsUsed) \in Nat
          /\ Cardinality(Detections \ detectionsUsed) \in Nat
      BY <1>2, WindowNumbers, ComplementSize
    <3>2. done' \in BOOLEAN
      BY <2>3 DEF CountUnused
    <3>3. FN' \in Nat /\ FP' \in Nat
      BY <2>3, <3>1 DEF CountUnused
    <3>4. UNCHANGED <<hit, i, j, detectionsUsed, annotationsUsed, TP>>
      BY <2>3 DEF CountUnused
    <3> QED BY <1>2, <3>2, <3>3, <3>4
  <2>4. CASE UNCHANGED vars
    BY <1>2, <2>4 DEF vars
  <2> QED BY <1>2, <2>1, <2>2, <2>3, <2>4 DEF Next
<1> QED BY <1>1, <1>2, PTL DEF Spec

\* The flags and the count of the loops are those of the pairs tested so far.
THEOREM LoopCorrect == Spec => []LoopInv
<1>1. Init => LoopInv
  <2> SUFFICES ASSUME Init PROVE LoopInv
    OBVIOUS
  <2>1. \A a \in Annotations, d \in Detections : ~ Tested(a, d)
    BY SizesAssumption DEF Init, Tested, Annotations, Detections
  <2>2. Cardinality({}) = 0
    BY FS_EmptySet
  <2> QED BY <2>1, <2>2 DEF Init, LoopInv
<1>2. ASSUME TypeOK, LoopInv, [Next]_vars PROVE LoopInv'
  <2>1. CASE TestPair
    <3>1. j \in Detections /\ i \in Annotations /\ i \in Nat /\ j \in Nat
      BY <1>2, <2>1, SizesAssumption DEF TestPair, TypeOK, Annotations, Detections
    <3>2. \A a \in Annotations, d \in Detections :
            Tested(a, d)' <=> (Tested(a, d) \/ (a = i /\ d = j))
      BY <2>1, <3>1, SizesAssumption DEF TestPair, Tested, Annotations, Detections
    <3>3. j \in detectionsUsed <=> \E a \in Annotations : a < i /\ <<a, j>> \in hit
      BY <1>2, <3>1, SizesAssumption DEF LoopInv, Tested, Annotations
    <3>4. ~done
      BY <1>2, <2>1, SizesAssumption DEF LoopInv, TestPair
    <3>5. hit' = hit /\ ~done'
      BY <2>1, <3>4 DEF TestPair
    <3>6. CASE j \notin detectionsUsed /\ <<i, j>> \in hit
      <4>1. /\ detectionsUsed' = detectionsUsed \cup {j}
            /\ annotationsUsed' = annotationsUsed \cup {i}
            /\ TP' = TP + 1
        BY <2>1, <3>6 DEF TestPair, CanMatch
      <4>2. TP' = Cardinality(detectionsUsed')
        BY <1>2, <3>1, <3>6, <4>1, MarkOneMore DEF TypeOK, LoopInv
      <4>3. detectionsUsed' = {d \in Detections : \E a \in Annotations : Tested(a, d)' /\ <<a, d>> \in hit}
        BY <1>2, <3>1, <3>2, <3>6, <4>1 DEF LoopInv
      <4>4. \A c \in Annotations : c < i => <<c, j>> \notin hit
        BY <3>3, <3>6
      <4>5. annotationsUsed' = {a \in Annotations : \E d \in Detections :
                                  /\ Tested(a, d)' /\ <<a, d>> \in hit
                                  /\ \A c \in Annotations : c < a => <<c, d>> \notin hit}
        BY <1>2, <3>1, <3>2, <3>6, <4>1, <4>4 DEF LoopInv
      <4> QED BY <3>5, <4>2, <4>3, <4>5 DEF LoopInv
    <3>7. CASE ~(j \notin detectionsUsed /\ <<i, j>> \in hit)
      <4>1. detectionsUsed' = detectionsUsed /\ annotationsUsed' = annotationsUsed /\ TP' = TP
        BY <2>1, <3>7 DEF TestPair, CanMatch
      <4>2. detectionsUsed' = {d \in Detections : \E a \in Annotations : Tested(a, d)' /\ <<a, d>> \in hit}
        BY <1>2, <3>1, <3>2, <3>3, <3>7, <4>1 DEF LoopInv
      <4>3. annotationsUsed' = {a \in Annotations : \E d \in Detections :
                                  /\ Tested(a, d)' /\ <<a, d>> \in hit
                                  /\ \A c \in Annotations : c < a => <<c, d>> \notin hit}
        BY <1>2, <3>1, <3>2, <3>3, <3>7, <4>1 DEF LoopInv
      <4> QED BY <1>2, <3>5, <4>1, <4>2, <4>3 DEF LoopInv
    <3> QED BY <3>6, <3>7
  <2>2. CASE NextAnnotation
    <3>1. \A a \in Annotations, d \in Detections : Tested(a, d)' <=> Tested(a, d)
      BY <1>2, <2>2, SizesAssumption DEF NextAnnotation, TypeOK, Tested, Annotations, Detections
    <3>2. ~done
      BY <1>2, <2>2, SizesAssumption DEF LoopInv, NextAnnotation
    <3> QED BY <1>2, <2>2, <3>1, <3>2 DEF NextAnnotation, LoopInv
  <2>3. CASE CountUnused
    <3>1. \A a \in Annotations, d \in Detections : Tested(a, d)' <=> Tested(a, d)
      BY <2>3 DEF CountUnused, Tested
    <3>2. i = NA + 1
      BY <1>2, <2>3, SizesAssumption DEF CountUnused, TypeOK
    <3> QED BY <1>2, <2>3, <3>1, <3>2 DEF CountUnused, LoopInv
  <2>4. CASE UNCHANGED vars
    BY <1>2, <2>4 DEF vars, LoopInv, Tested
  <2> QED BY <1>2, <2>1, <2>2, <2>3, <2>4 DEF Next
<1> QED BY <1>1, <1>2, TypeCorrect, PTL DEF Spec

\* When the loops are over every pair has been tested.
LEMMA AllTestedAtEnd ==
  ASSUME TypeOK, LoopInv, done
  PROVE  /\ detectionsUsed = UsedDetections(hit, NA, ND)
         /\ annotationsUsed = UsedAnnotations(hit, NA, ND)
<1>1. \A a \in Annotations, d \in Detections : Tested(a, d)
  BY SizesAssumption DEF LoopInv, Tested, Annotations
<1> QED BY <1>1 DEF LoopInv, UsedDetections, UsedAnnotations, Annotations, Detections

\* For any overlap relation the loops of PerformanceAccumulationWindow.m return
\* the counts of the closed form, with its preference for the first annotation.
THEOREM ClosedForm == Spec => []CountsAreClosedForm
<1>1. TypeOK /\ LoopInv => CountsAreClosedForm
  <2> SUFFICES ASSUME TypeOK, LoopInv, done
               PROVE  [TP |-> TP, FN |-> FN, FP |-> FP] = WindowCounts(hit, NA, ND)
    BY DEF CountsAreClosedForm
  <2>1. /\ TP = Cardinality(UsedDetections(hit, NA, ND))
        /\ FN = Cardinality((1 .. NA) \ UsedAnnotations(hit, NA, ND))
        /\ FP = Cardinality((1 .. ND) \ UsedDetections(hit, NA, ND))
    BY AllTestedAtEnd DEF LoopInv, Annotations, Detections
  <2> QED BY <2>1 DEF WindowCounts
<1> QED BY <1>1, TypeCorrect, LoopCorrect, PTL

\* There are at least as many used detections as used annotations: each used
\* annotation was the first over some detection, and no two over the same.
LEMMA OneDetectionEach ==
  ASSUME NEW A, NEW D, A \subseteq Annotations, D \subseteq Detections,
         A = {a \in Annotations : \E d \in Detections :
                <<a, d>> \in hit /\ \A c \in Annotations : c < a => <<c, d>> \notin hit},
         D = {d \in Detections : \E a \in Annotations : <<a, d>> \in hit}
  PROVE  Cardinality(A) <= Cardinality(D)
<1> DEFINE First(a, d) == <<a, d>> \in hit /\ \A c \in Annotations : c < a => <<c, d>> \notin hit
           f == [a \in A |-> CHOOSE d \in D : First(a, d)]
<1>1. \A a \in A : \E d \in D : First(a, d)
  OBVIOUS
<1>2. \A a \in A : f[a] \in D /\ First(a, f[a])
  BY <1>1
<1>3. \A a, b \in Annotations : a = b \/ a < b \/ b < a
  BY SizesAssumption DEF Annotations
<1> HIDE DEF f
<1>4. \A a, b \in A : f[a] = f[b] => a = b
  BY <1>2, <1>3
<1>5. f \in [A -> D]
  BY <1>2 DEF f
<1>6. f \in Injection(A, D)
  BY <1>4, <1>5 DEF Injection, IsInjective
<1>7. IsFiniteSet(D)
  BY WindowNumbers, FS_Subset
<1> QED BY <1>6, <1>7, FS_Injection

\* The counts cover both lists, whatever their lengths and overlaps: no
\* detection is left out or counted twice, and no object is lost.
THEOREM ListsCoveredCorrect == Spec => []ListsCovered
<1>1. TypeOK /\ LoopInv => ListsCovered
  <2> SUFFICES ASSUME TypeOK, LoopInv, done PROVE TP + FP = ND /\ TP + FN >= NA
    BY DEF ListsCovered
  <2>1. TP = Cardinality(detectionsUsed) /\ FP = Cardinality(Detections \ detectionsUsed)
    BY DEF LoopInv
  <2>2. detectionsUsed \subseteq Detections /\ annotationsUsed \subseteq Annotations
    BY DEF TypeOK
  <2>3. TP + FP = ND
    BY <2>1, <2>2, WindowNumbers, ComplementSize
  <2>4. /\ annotationsUsed = {a \in Annotations : \E d \in Detections :
                <<a, d>> \in hit /\ \A c \in Annotations : c < a => <<c, d>> \notin hit}
        /\ detectionsUsed = {d \in Detections : \E a \in Annotations : <<a, d>> \in hit}
    BY AllTestedAtEnd DEF UsedAnnotations, UsedDetections, Annotations, Detections
  <2>5. Cardinality(annotationsUsed) <= TP
    BY <2>1, <2>2, <2>4, OneDetectionEach
  <2>6. /\ Cardinality(annotationsUsed) \in Nat /\ FN \in Nat /\ TP \in Nat /\ NA \in Nat
        /\ Cardinality(annotationsUsed) + FN = NA
    BY <2>2, WindowNumbers, ComplementSize, SizesAssumption DEF LoopInv, TypeOK
  <2>7. TP + FN >= NA
    BY <2>5, <2>6
  <2> QED BY <2>3, <2>7
<1> QED BY <1>1, TypeCorrect, LoopCorrect, PTL

-----------------------------------------------------------------------------
(* Other orders of the two lists.                                          *)

\* A list put in another order has its members in other places.
LEMMA OrderMoves ==
  ASSUME NEW n \in Nat, NEW p \in Orders(n)
  PROVE  /\ \A x \in 1 .. n : p[x] \in 1 .. n
         /\ \A x, y \in 1 .. n : p[x] = p[y] => x = y
         /\ \A y \in 1 .. n : \E x \in 1 .. n : p[x] = y
<1>1. p \in [1 .. n -> 1 .. n] /\ \A x, y \in 1 .. n : p[x] = p[y] => x = y
  BY DEF Orders
<1>2. IsFiniteSet(1 .. n)
  BY FS_Interval
<1> DEFINE S == 1 .. n
<1>3. p \in Injection(S, S)
  BY <1>1 DEF Injection, IsInjective
<1> HIDE DEF S
<1>4. p \in Surjection(S, S)
  BY <1>2, <1>3, FS_Injection DEF S
<1> QED BY <1>1, <1>4 DEF Surjection, S

Moved(p, S) == {p[x] : x \in S}

LEMMA MovedSize ==
  ASSUME NEW n \in Nat, NEW p \in Orders(n), NEW S, S \in SUBSET (1 .. n)
  PROVE  Cardinality(Moved(p, S)) = Cardinality(S)
<1> DEFINE T == Moved(p, S)
<1>1. \A x, y \in S : p[x] = p[y] => x = y
  BY OrderMoves
<1> DEFINE f == [x \in S |-> p[x]]
<1>2. f \in [S -> T] /\ (\A x, y \in S : f[x] = f[y] => x = y) /\ \A t \in T : \E x \in S : f[x] = t
  BY <1>1 DEF Moved
<1> HIDE DEF f, T
<1>3. f \in Bijection(S, T)
  BY <1>2 DEF Bijection, Injection, Surjection, IsInjective
<1>4. IsFiniteSet(1 .. n)
  BY FS_Interval
<1>5. IsFiniteSet(S)
  BY <1>4, FS_Subset
<1>6. ExistsBijection(S, T)
  BY <1>3 DEF ExistsBijection
<1>7. Cardinality(T) = Cardinality(S)
  BY <1>5, <1>6, FS_Bijection
<1> QED BY <1>7 DEF T

\* The pairs of one order are those of the other, in other places.
LEMMA PairsMoved ==
  ASSUME TypeOK, NEW p \in Orders(NA), NEW q \in Orders(ND),
         NEW a \in Annotations, NEW d \in Detections
  PROVE  <<p[a], q[d]>> \in Reordered(p, q) <=> <<a, d>> \in hit
<1>1. <<a, d>> \in hit => <<p[a], q[d]>> \in Reordered(p, q)
  BY DEF Reordered
<1>2. ASSUME <<p[a], q[d]>> \in Reordered(p, q)
      PROVE  <<a, d>> \in hit
  <2>1. PICK ad \in hit : <<p[a], q[d]>> = <<p[ad[1]], q[ad[2]]>>
    BY <1>2 DEF Reordered
  <2>2. ad[1] \in 1 .. NA /\ ad[2] \in 1 .. ND /\ ad = <<ad[1], ad[2]>>
    BY DEF TypeOK, Annotations, Detections
  <2>3. p[a] = p[ad[1]] /\ q[d] = q[ad[2]]
    BY <2>1
  <2>4. a = ad[1] /\ d = ad[2]
    BY <2>2, <2>3, SizesAssumption, OrderMoves DEF Annotations, Detections
  <2> QED BY <2>2, <2>4
<1> QED BY <1>1, <1>2

\* The detections used are the same ones.
LEMMA UsedMoved ==
  ASSUME TypeOK, NEW p \in Orders(NA), NEW q \in Orders(ND)
  PROVE  UsedDetections(Reordered(p, q), NA, ND) = {q[d] : d \in UsedDetections(hit, NA, ND)}
<1> DEFINE H == Reordered(p, q)
<1>1. ASSUME NEW d \in UsedDetections(hit, NA, ND)
      PROVE  q[d] \in UsedDetections(H, NA, ND)
  <2>1. d \in Detections
    BY DEF UsedDetections, Detections
  <2>2. PICK a \in Annotations : <<a, d>> \in hit
    BY DEF UsedDetections, Annotations
  <2>3. <<p[a], q[d]>> \in H
    BY <2>1, <2>2, PairsMoved
  <2>4. p[a] \in 1 .. NA /\ q[d] \in 1 .. ND
    BY <2>1, <2>2, SizesAssumption, OrderMoves DEF Annotations, Detections
  <2> QED BY <2>3, <2>4 DEF UsedDetections
<1>2. ASSUME NEW e \in UsedDetections(H, NA, ND)
      PROVE  \E d \in UsedDetections(hit, NA, ND) : q[d] = e
  <2>1. e \in 1 .. ND
    BY DEF UsedDetections
  <2>2. PICK b \in 1 .. NA : <<b, e>> \in H
    BY DEF UsedDetections
  <2>3. PICK a \in Annotations : p[a] = b
    BY SizesAssumption, OrderMoves DEF Annotations
  <2>4. PICK d \in Detections : q[d] = e
    BY <2>1, SizesAssumption, OrderMoves DEF Detections
  <2>5. <<a, d>> \in hit
    BY <2>2, <2>3, <2>4, PairsMoved
  <2> QED BY <2>4, <2>5 DEF UsedDetections, Annotations, Detections
<1> HIDE DEF H
<1>3. UsedDetections(H, NA, ND) = {q[d] : d \in UsedDetections(hit, NA, ND)}
  BY <1>1, <1>2
<1> QED BY <1>3 DEF H

\* The annotations that some detection overlaps alone are used in any order; of
\* the others at most one for each detection that overlaps several.
Certain(pairs) ==
  {a \in Annotations : \E d \in Detections \ Contested(pairs) : <<a, d>> \in pairs}

LEMMA UsedBetween ==
  ASSUME NEW pairs
  PROVE  LET U == UsedAnnotations(pairs, NA, ND)
             s == Cardinality(Certain(pairs))
             k == Cardinality(Contested(pairs))
         IN /\ U \subseteq Annotations /\ s \in Nat /\ k \in Nat /\ Cardinality(U) \in Nat
            /\ s <= Cardinality(U) /\ Cardinality(U) <= s + k
<1> DEFINE U == UsedAnnotations(pairs, NA, ND)
           S == Certain(pairs)
           K == Contested(pairs)
           First(a, d) == <<a, d>> \in pairs /\ \A c \in Annotations : c < a => <<c, d>> \notin pairs
           W == U \ S
           f == [a \in W |-> CHOOSE d \in K : First(a, d)]
<1>1. U = {a \in Annotations : \E d \in Detections : First(a, d)}
  BY DEF UsedAnnotations, Annotations, Detections
<1>2. \A a, c \in Annotations : a = c \/ a < c \/ c < a
  BY SizesAssumption DEF Annotations
<1>3. U \subseteq Annotations /\ S \subseteq Annotations /\ K \subseteq Detections
  BY <1>1 DEF Certain, Contested
<1>4. S \subseteq U
  <2> SUFFICES ASSUME NEW a \in S PROVE a \in U
    OBVIOUS
  <2>1. PICK d \in Detections \ K : <<a, d>> \in pairs
    BY DEF Certain
  <2>2. \A c \in Annotations : c < a => c # a
    BY SizesAssumption DEF Annotations, Certain
  <2>3. \A c \in Annotations : c < a => <<c, d>> \notin pairs
    BY <1>3, <2>1, <2>2 DEF Contested
  <2> QED BY <1>1, <1>3, <2>1, <2>3
<1>5. ASSUME NEW a \in W PROVE \E d \in K : First(a, d)
  <2>1. PICK d \in Detections : First(a, d)
    BY <1>1
  <2>2. d \in K
    BY <1>1, <2>1 DEF Certain
  <2> QED BY <2>1, <2>2
<1>6. \A a \in W : f[a] \in K /\ First(a, f[a])
  BY <1>5
<1> HIDE DEF f
<1>7. \A a, b \in W : f[a] = f[b] => a = b
  BY <1>2, <1>3, <1>6
<1>8. f \in [W -> K]
  BY <1>6 DEF f
<1> HIDE DEF U, S, K, W
<1>9. f \in Injection(W, K)
  BY <1>7, <1>8 DEF Injection, IsInjective
<1>10. IsFiniteSet(U) /\ IsFiniteSet(S) /\ IsFiniteSet(K)
  BY <1>3, WindowNumbers, FS_Subset
<1>11. IsFiniteSet(W) /\ Cardinality(W) <= Cardinality(K)
  BY <1>9, <1>10, FS_Injection
<1>12. Cardinality(U) = Cardinality(S) + Cardinality(W)
  <2>1. W = U \ S /\ S \subseteq U
    BY <1>4 DEF W
  <2>2. S \cup W = U /\ S \cap W = {}
    BY <2>1
  <2>3. Cardinality(S \cup W) = Cardinality(S) + Cardinality(W) - Cardinality(S \cap W)
    BY <1>10, <1>11, FS_Union
  <2>4. Cardinality(S) \in Nat /\ Cardinality(W) \in Nat
    BY <1>10, <1>11, FS_CardinalityType
  <2>5. Cardinality(S \cap W) = 0
    BY <2>2, FS_EmptySet
  <2> QED BY <2>2, <2>3, <2>4, <2>5
<1>13. Cardinality(U) \in Nat /\ Cardinality(S) \in Nat /\ Cardinality(K) \in Nat /\ Cardinality(W) \in Nat
  BY <1>10, <1>11, FS_CardinalityType
<1>14. Cardinality(S) <= Cardinality(U) /\ Cardinality(U) <= Cardinality(S) + Cardinality(K)
  BY <1>11, <1>12, <1>13
<1> QED BY <1>3, <1>13, <1>14 DEF U, S, K

LEMMA ContestedMoved ==
  ASSUME TypeOK, NEW p \in Orders(NA), NEW q \in Orders(ND)
  PROVE  /\ Contested(Reordered(p, q)) = {q[d] : d \in Contested(hit)}
         /\ Certain(Reordered(p, q)) = {p[a] : a \in Certain(hit)}
<1> DEFINE H == Reordered(p, q)
<1>1. /\ \A a \in Annotations : p[a] \in Annotations
      /\ \A a, c \in Annotations : p[a] = p[c] => a = c
      /\ \A b \in Annotations : \E a \in Annotations : p[a] = b
  BY SizesAssumption, OrderMoves DEF Annotations
<1>2. /\ \A d \in Detections : q[d] \in Detections
      /\ \A d, e \in Detections : q[d] = q[e] => d = e
      /\ \A e \in Detections : \E d \in Detections : q[d] = e
  BY SizesAssumption, OrderMoves DEF Detections
<1>3. \A a \in Annotations, d \in Detections : <<p[a], q[d]>> \in H <=> <<a, d>> \in hit
  BY PairsMoved
<1> HIDE DEF H
<1>4. ASSUME NEW d \in Detections
      PROVE  q[d] \in Contested(H) <=> d \in Contested(hit)
  <2>1. ASSUME d \in Contested(hit) PROVE q[d] \in Contested(H)
    <3>1. PICK a \in Annotations, c \in Annotations : a # c /\ <<a, d>> \in hit /\ <<c, d>> \in hit
      BY <2>1 DEF Contested
    <3>2. /\ p[a] \in Annotations /\ p[c] \in Annotations /\ p[a] # p[c] /\ q[d] \in Detections
          /\ <<p[a], q[d]>> \in H /\ <<p[c], q[d]>> \in H
      BY <1>1, <1>2, <1>3, <3>1
    <3> QED BY <3>2 DEF Contested
  <2>2. ASSUME q[d] \in Contested(H) PROVE d \in Contested(hit)
    <3>1. PICK b \in Annotations, e \in Annotations : b # e /\ <<b, q[d]>> \in H /\ <<e, q[d]>> \in H
      BY <2>2 DEF Contested
    <3>2. PICK a \in Annotations : p[a] = b
      BY <1>1
    <3>3. PICK c \in Annotations : p[c] = e
      BY <1>1
    <3>4. a # c /\ <<a, d>> \in hit /\ <<c, d>> \in hit
      BY <1>3, <3>1, <3>2, <3>3
    <3> QED BY <3>4 DEF Contested
  <2> QED BY <2>1, <2>2
<1>5. Contested(H) = {q[d] : d \in Contested(hit)}
  <2>1. Contested(H) \subseteq Detections /\ Contested(hit) \subseteq Detections
    BY DEF Contested
  <2> QED BY <1>2, <1>4, <2>1
<1>6. ASSUME NEW a \in Annotations
      PROVE  p[a] \in Certain(H) <=> a \in Certain(hit)
  <2>1. ASSUME a \in Certain(hit) PROVE p[a] \in Certain(H)
    <3>1. PICK d \in Detections \ Contested(hit) : <<a, d>> \in hit
      BY <2>1 DEF Certain
    <3>2. q[d] \in Detections \ Contested(H) /\ <<p[a], q[d]>> \in H /\ p[a] \in Annotations
      BY <1>1, <1>2, <1>3, <1>4, <3>1
    <3> QED BY <3>2 DEF Certain
  <2>2. ASSUME p[a] \in Certain(H) PROVE a \in Certain(hit)
    <3>1. PICK e \in Detections \ Contested(H) : <<p[a], e>> \in H
      BY <2>2 DEF Certain
    <3>2. PICK d \in Detections : q[d] = e
      BY <1>2
    <3>3. d \notin Contested(hit) /\ <<a, d>> \in hit
      BY <1>3, <1>4, <3>1, <3>2
    <3> QED BY <3>3 DEF Certain
  <2> QED BY <2>1, <2>2
<1>7. Certain(H) = {p[a] : a \in Certain(hit)}
  <2>1. Certain(H) \subseteq Annotations /\ Certain(hit) \subseteq Annotations
    BY DEF Certain
  <2> QED BY <1>1, <1>6, <2>1
<1> QED BY <1>5, <1>7 DEF H

\* With the annotations in the same order the same ones are used.
LEMMA SameAnnotationsUsed ==
  ASSUME TypeOK, NEW p \in Orders(NA), NEW q \in Orders(ND), \A a \in Annotations : p[a] = a
  PROVE  UsedAnnotations(Reordered(p, q), NA, ND) = UsedAnnotations(hit, NA, ND)
<1> DEFINE H == Reordered(p, q)
           First(pairs, a, d) == <<a, d>> \in pairs /\ \A c \in Annotations : c < a => <<c, d>> \notin pairs
<1>1. /\ \A d \in Detections : q[d] \in Detections
      /\ \A e \in Detections : \E d \in Detections : q[d] = e
  BY SizesAssumption, OrderMoves DEF Detections
<1>2. \A a \in Annotations, d \in Detections : <<a, q[d]>> \in H <=> <<a, d>> \in hit
  BY PairsMoved
<1> HIDE DEF H
<1>3. \A a \in Annotations, d \in Detections : First(H, a, q[d]) <=> First(hit, a, d)
  BY <1>2
<1>4. /\ UsedAnnotations(H, NA, ND) = {a \in Annotations : \E d \in Detections : First(H, a, d)}
      /\ UsedAnnotations(hit, NA, ND) = {a \in Annotations : \E d \in Detections : First(hit, a, d)}
  BY DEF UsedAnnotations, Annotations, Detections
<1> HIDE DEF First
<1>5. UsedAnnotations(H, NA, ND) = UsedAnnotations(hit, NA, ND)
  BY <1>1, <1>3, <1>4
<1> QED BY <1>5 DEF H

\* For any overlap relation and any other order of the two lists, TP and FP are
\* the same, FN is the same unless the annotations are in another order, and then
\* differs at most by the number of detections that overlap several annotations.
THEOREM OrderExplained == Spec => []OrderOfLists
<1>1. ASSUME TypeOK, LoopInv, done, NEW p \in Orders(NA), NEW q \in Orders(ND)
      PROVE  LET other == WindowCounts(Reordered(p, q), NA, ND)
                 contested == Cardinality(Contested(hit))
             IN /\ TP = other.TP /\ FP = other.FP
                /\ FN - other.FN <= contested /\ other.FN - FN <= contested
                /\ (\A a \in Annotations : p[a] = a) => FN = other.FN
  <2> DEFINE H == Reordered(p, q)
             D == UsedDetections(hit, NA, ND)
             E == UsedDetections(H, NA, ND)
             A == UsedAnnotations(hit, NA, ND)
             B == UsedAnnotations(H, NA, ND)
  <2>1. /\ TP = Cardinality(D) /\ FP = Cardinality(Detections \ D)
        /\ FN = Cardinality(Annotations \ A)
    BY <1>1, AllTestedAtEnd DEF LoopInv
  <2>2. /\ WindowCounts(H, NA, ND).TP = Cardinality(E)
        /\ WindowCounts(H, NA, ND).FP = Cardinality(Detections \ E)
        /\ WindowCounts(H, NA, ND).FN = Cardinality(Annotations \ B)
    BY DEF WindowCounts, Annotations, Detections
  <2>3. E = {q[d] : d \in D} /\ D \in SUBSET (1 .. ND) /\ E \in SUBSET (1 .. ND)
    BY <1>1, UsedMoved DEF UsedDetections
  <2>4. A \subseteq Annotations /\ B \subseteq Annotations
    BY DEF UsedAnnotations, Annotations
  <2>5. (\A a \in Annotations : p[a] = a) => A = B
    BY <1>1, SameAnnotationsUsed
  <2>6. PICK s \in Nat, k \in Nat : s = Cardinality(Certain(hit)) /\ k = Cardinality(Contested(hit))
    BY UsedBetween
  <2>7. Cardinality(A) \in Nat /\ s <= Cardinality(A) /\ Cardinality(A) <= s + k
    BY <2>6, UsedBetween
  <2>8. s = Cardinality(Certain(H)) /\ k = Cardinality(Contested(H))
    <3>1. Contested(H) = Moved(q, Contested(hit)) /\ Certain(H) = Moved(p, Certain(hit))
      BY <1>1, ContestedMoved DEF Moved
    <3>2. Contested(hit) \in SUBSET (1 .. ND) /\ Certain(hit) \in SUBSET (1 .. NA)
      BY DEF Contested, Certain, Annotations, Detections
    <3> HIDE DEF H
    <3> QED BY <2>6, <3>1, <3>2, SizesAssumption, MovedSize
  <2>9. Cardinality(B) \in Nat /\ s <= Cardinality(B) /\ Cardinality(B) <= s + k
    BY <2>8, UsedBetween
  <2> HIDE DEF A, B, D, E, H
  <2>10. Cardinality(E) = Cardinality(D)
    <3>1. E = Moved(q, D)
      BY <2>3 DEF Moved
    <3>2. q \in Orders(ND) /\ ND \in Nat /\ D \in SUBSET (1 .. ND)
      BY <1>1, <2>3, SizesAssumption
    <3>3. Cardinality(Moved(q, D)) = Cardinality(D)
      BY <3>2, MovedSize
    <3> QED BY <3>1, <3>3
  <2>11. /\ Cardinality(D) + Cardinality(Detections \ D) = ND /\ Cardinality(E) + Cardinality(Detections \ E) = ND
         /\ Cardinality(D) \in Nat /\ Cardinality(Detections \ D) \in Nat /\ Cardinality(Detections \ E) \in Nat
    BY <2>3, WindowNumbers, ComplementSize, FS_CardinalityType DEF Detections
  <2>12. /\ Cardinality(A) + Cardinality(Annotations \ A) = NA /\ Cardinality(B) + Cardinality(Annotations \ B) = NA
         /\ Cardinality(Annotations \ A) \in Nat /\ Cardinality(Annotations \ B) \in Nat
    BY <2>4, WindowNumbers, ComplementSize
  <2>13. Cardinality(Detections \ D) = Cardinality(Detections \ E)
    BY <2>10, <2>11, SizesAssumption
  <2>14. /\ Cardinality(Annotations \ A) - Cardinality(Annotations \ B) <= k
         /\ Cardinality(Annotations \ B) - Cardinality(Annotations \ A) <= k
    BY <2>7, <2>9, <2>12, SizesAssumption
  <2>15. WindowCounts(H, NA, ND).TP = TP /\ WindowCounts(H, NA, ND).FP = FP
    BY <2>1, <2>2, <2>10, <2>13
  <2>16. (\A a \in Annotations : p[a] = a) => FN = WindowCounts(H, NA, ND).FN
    BY <2>1, <2>2, <2>5
  <2>17. FN - WindowCounts(H, NA, ND).FN <= k /\ WindowCounts(H, NA, ND).FN - FN <= k
    BY <2>1, <2>2, <2>14
  <2> QED BY <2>6, <2>15, <2>16, <2>17 DEF H
<1>2. TypeOK /\ LoopInv => OrderOfLists
  BY <1>1 DEF OrderOfLists
<1> QED BY <1>2, TypeCorrect, LoopCorrect, PTL
-----------------------------------------------------------------------------
\* The span two windows share along an axis, counted by unit cells.
CommonSpan(p, m, q, n) == Smaller(p + m, q + n) - Larger(p, q)

\* What SpanOverlap makes of two spans with interior points in common: at least
\* their common span, exactly that unless one lies strictly inside the other,
\* and never more than half of both lengths.
LEMMA SpanExact ==
  ASSUME NEW p \in Int, NEW q \in Int, NEW m \in Nat, NEW n \in Nat, p < q + n, p + m > q
  PROVE  /\ CommonSpan(p, m, q, n) \in Nat /\ SpanOverlap(p, m, q, n) \in Nat
         /\ CommonSpan(p, m, q, n) <= m /\ CommonSpan(p, m, q, n) <= n
         /\ SpanOverlap(p, m, q, n) >= CommonSpan(p, m, q, n)
         /\ 2 * SpanOverlap(p, m, q, n) <= m + n
         /\ ~ Nested(p, m, q, n) => SpanOverlap(p, m, q, n) = CommonSpan(p, m, q, n)
         /\ CommonSpan(p, m, q, n) = m \/ CommonSpan(p, m, q, n) = n
              \/ SpanOverlap(p, m, q, n) = CommonSpan(p, m, q, n)
BY DEF CommonSpan, SpanOverlap, Nested, Smaller, Larger, Abs

\* The number of integers in an interval that may be empty.
LEMMA IntervalSize ==
  ASSUME NEW lo \in Int, NEW hi \in Int
  PROVE  /\ IsFiniteSet(lo .. hi - 1)
         /\ Cardinality(lo .. hi - 1) = Larger(0, hi - lo)
<1>1. PICK top \in Int : top = hi - 1
  OBVIOUS
<1>2. IsFiniteSet(lo .. top) /\ Cardinality(lo .. top) = IF lo <= top THEN top - lo + 1 ELSE 0
  BY FS_Interval
<1> QED BY <1>1, <1>2 DEF Larger

\* The cells of a rectangle, given by its corners, and how many they are.
Rectangle(x, v, y, w) == (x .. v - 1) \X (y .. w - 1)
RectangleArea(x, v, y, w) == Larger(0, v - x) * Larger(0, w - y)

LEMMA RectangleSize ==
  ASSUME NEW x \in Int, NEW v \in Int, NEW y \in Int, NEW w \in Int
  PROVE  /\ IsFiniteSet(Rectangle(x, v, y, w))
         /\ Cardinality(Rectangle(x, v, y, w)) = RectangleArea(x, v, y, w)
<1>1. PICK A : A = x .. v - 1
  OBVIOUS
<1>2. PICK B : B = y .. w - 1
  OBVIOUS
<1>3. IsFiniteSet(A) /\ Cardinality(A) = Larger(0, v - x)
  BY <1>1, IntervalSize
<1>4. IsFiniteSet(B) /\ Cardinality(B) = Larger(0, w - y)
  BY <1>2, IntervalSize
<1>5. IsFiniteSet(A \X B) /\ Cardinality(A \X B) = Cardinality(A) * Cardinality(B)
  BY <1>3, <1>4, FS_Product
<1> QED BY <1>1, <1>2, <1>3, <1>4, <1>5 DEF Rectangle, RectangleArea

\* The cells of a window are as many as its area.
LEMMA WindowSize ==
  ASSUME NEW a \in Window
  PROVE  IsFiniteSet(Cells(a)) /\ Cardinality(Cells(a)) = Area(a)
<1>1. a.x \in Int /\ a.y \in Int /\ a.w \in Nat /\ a.h \in Nat
  BY DEF Window
<1>2. PICK x \in Int, y \in Int, m \in Nat, n \in Nat : x = a.x /\ y = a.y /\ m = a.w /\ n = a.h
  BY <1>1
<1>3. PICK v \in Int : v = x + m
  OBVIOUS
<1>4. PICK w \in Int : w = y + n
  OBVIOUS
<1>5. /\ IsFiniteSet(Rectangle(x, v, y, w))
      /\ Cardinality(Rectangle(x, v, y, w)) = RectangleArea(x, v, y, w)
  BY RectangleSize
<1>6. Larger(0, v - x) = m /\ Larger(0, w - y) = n
  BY <1>3, <1>4 DEF Larger
<1>7. Cells(a) = Rectangle(x, v, y, w)
  BY <1>2, <1>3, <1>4 DEF Cells, Rectangle
<1> QED BY <1>2, <1>5, <1>6, <1>7 DEF Area, RectangleArea

\* The cells two windows share are the product of their common spans, if the
\* windows meet, and none otherwise; the cells of both are those of each less
\* the shared ones.
LEMMA CellsCounted ==
  ASSUME NEW a \in Window, NEW b \in Window
  PROVE  /\ Meet(a, b) => Shared(a, b) = CommonSpan(a.x, a.w, b.x, b.w) * CommonSpan(a.y, a.h, b.y, b.h)
         /\ ~ Meet(a, b) => Shared(a, b) = 0
         /\ Shared(a, b) \in Nat
         /\ Joined(a, b) = Area(a) + Area(b) - Shared(a, b)
<1>1. /\ a.x \in Int /\ a.y \in Int /\ a.w \in Nat /\ a.h \in Nat
      /\ b.x \in Int /\ b.y \in Int /\ b.w \in Nat /\ b.h \in Nat
  BY DEF Window
<1>2. IsFiniteSet(Cells(a)) /\ Cardinality(Cells(a)) = Area(a)
  BY WindowSize
<1>3. IsFiniteSet(Cells(b)) /\ Cardinality(Cells(b)) = Area(b)
  BY WindowSize
<1>4. PICK x \in Int : x = Larger(a.x, b.x)
  BY <1>1 DEF Larger
<1>5. PICK v \in Int : v = Smaller(a.x + a.w, b.x + b.w)
  BY <1>1 DEF Smaller
<1>6. PICK y \in Int : y = Larger(a.y, b.y)
  BY <1>1 DEF Larger
<1>7. PICK w \in Int : w = Smaller(a.y + a.h, b.y + b.h)
  BY <1>1 DEF Smaller
<1>8. Cells(a) \cap Cells(b) = Rectangle(x, v, y, w)
  <2>1. (a.x .. a.x + a.w - 1) \cap (b.x .. b.x + b.w - 1) = x .. v - 1
    BY <1>1, <1>4, <1>5, <1>6, <1>7 DEF Larger, Smaller
  <2>2. (a.y .. a.y + a.h - 1) \cap (b.y .. b.y + b.h - 1) = y .. w - 1
    BY <1>1, <1>4, <1>5, <1>6, <1>7 DEF Larger, Smaller
  <2> QED BY <2>1, <2>2 DEF Cells, Rectangle
<1>9. Shared(a, b) = RectangleArea(x, v, y, w)
  <2>1. Cardinality(Rectangle(x, v, y, w)) = RectangleArea(x, v, y, w)
    BY RectangleSize
  <2> QED BY <1>8, <2>1 DEF Shared
<1>10. ASSUME Meet(a, b)
      PROVE  Shared(a, b) = CommonSpan(a.x, a.w, b.x, b.w) * CommonSpan(a.y, a.h, b.y, b.h)
  <2>1. /\ CommonSpan(a.x, a.w, b.x, b.w) = v - x /\ v - x \in Nat
        /\ CommonSpan(a.y, a.h, b.y, b.h) = w - y /\ w - y \in Nat
    BY <1>1, <1>4, <1>5, <1>6, <1>7, <1>10, SpanExact DEF CommonSpan, Meet
  <2>2. Larger(0, v - x) = v - x /\ Larger(0, w - y) = w - y
    BY <2>1 DEF Larger
  <2> QED BY <1>9, <2>1, <2>2 DEF RectangleArea
<1>11. ASSUME ~ Meet(a, b) PROVE Shared(a, b) = 0
  <2>1. v <= x \/ w <= y
    BY <1>1, <1>4, <1>5, <1>6, <1>7, <1>11 DEF Meet, Larger, Smaller
  <2>2. Larger(0, v - x) = 0 \/ Larger(0, w - y) = 0
    BY <2>1 DEF Larger
  <2>3. Larger(0, v - x) \in Nat /\ Larger(0, w - y) \in Nat
    BY DEF Larger
  <2> QED BY <1>9, <2>2, <2>3 DEF RectangleArea
<1>12. /\ Shared(a, b) \in Nat
      /\ Joined(a, b) = Area(a) + Area(b) - Shared(a, b)
  <2>1. PICK A, B : A = Cells(a) /\ B = Cells(b)
    OBVIOUS
  <2>2. /\ Cardinality(A \cup B) = Cardinality(A) + Cardinality(B) - Cardinality(A \cap B)
        /\ IsFiniteSet(A \cap B)
    BY <1>2, <1>3, <2>1, FS_Union, FS_Intersection
  <2>3. Cardinality(A \cap B) \in Nat
    BY <2>2, FS_CardinalityType
  <2> QED BY <1>2, <1>3, <2>1, <2>2, <2>3 DEF Shared, Joined
<1> QED BY <1>10, <1>11, <1>12

\* Products of naturals grow with their factors.
LEMMA ProductsGrow ==
  ASSUME NEW p \in Nat, NEW q \in Nat, NEW m \in Nat, NEW n \in Nat, p <= m, q <= n
  PROVE  p * q <= m * n /\ p * q \in Nat /\ m * n \in Nat
<1>1. PICK k \in Nat : m = p + k
  <2>1. m - p \in Nat /\ m = p + (m - p)
    OBVIOUS
  <2> QED BY <2>1
<1>2. PICK l \in Nat : n = q + l
  <2>1. n - q \in Nat /\ n = q + (n - q)
    OBVIOUS
  <2> QED BY <2>1
<1>3. m * n = p * q + p * l + k * q + k * l
  BY <1>1, <1>2
<1>4. p * q \in Nat /\ p * l \in Nat /\ k * q \in Nat /\ k * l \in Nat
  OBVIOUS
<1> QED BY <1>3, <1>4

\* Two spans that cross, the first the longer along x and the second along y,
\* and the share of their windows that lies in both: if that is more than half
\* of what they cover together, the differences of RoiOverlapping.m, at most
\* half of both lengths each, multiply to less than both areas.
LEMMA CrossBeams ==
  ASSUME NEW u \in Nat, NEW v \in Nat, NEW U \in Nat, NEW V \in Nat,
         NEW p \in Nat, NEW q \in Nat,
         u <= U, v <= V, 2 * p <= u + U, 2 * q <= v + V,
         3 * (u * v) > U * v + u * V
  PROVE  p * q < U * v + u * V
<1>1. PICK k \in Nat : U = u + k
  <2>1. U - u \in Nat /\ U = u + (U - u)
    OBVIOUS
  <2> QED BY <2>1
<1>2. PICK l \in Nat : V = v + l
  <2>1. V - v \in Nat /\ V = v + (V - v)
    OBVIOUS
  <2> QED BY <2>1
<1>3. /\ U * v = u * v + k * v /\ u * V = u * v + u * l
      /\ U * V = u * v + u * l + k * v + k * l
  BY <1>1, <1>2
<1>4. /\ u * v \in Nat /\ k * v \in Nat /\ u * l \in Nat /\ k * l \in Nat
  OBVIOUS
<1>5. k * v + u * l < u * v
  BY <1>3, <1>4
<1>6. k < u /\ u > 0
  <2>1. CASE k >= u
    <3>1. u * v <= k * v
      BY <2>1, ProductsGrow
    <3> QED BY <1>4, <1>5, <3>1
  <2>2. CASE u = 0
    BY <1>4, <1>5, <2>2
  <2> QED BY <2>1, <2>2
<1>7. k * l <= u * l
  BY <1>6, ProductsGrow
<1>8. 4 * (p * q) = (2 * p) * (2 * q)
  OBVIOUS
<1>9. (2 * p) * (2 * q) <= (u + U) * (v + V)
  <2>1. PICK pp \in Nat, qq \in Nat, m \in Nat, n \in Nat :
          pp = 2 * p /\ qq = 2 * q /\ m = u + U /\ n = v + V
    OBVIOUS
  <2>2. pp * qq <= m * n
    BY <2>1, ProductsGrow
  <2> QED BY <2>1, <2>2
<1>10. (u + U) * (v + V) = u * v + u * V + U * v + U * V
  OBVIOUS
<1>11. p * q \in Nat
  OBVIOUS
<1>12. 4 * (p * q) <= 4 * (u * v) + 2 * (u * l) + 2 * (k * v) + k * l
  BY <1>3, <1>4, <1>8, <1>9, <1>10, <1>11
<1>13. 4 * (p * q) < 4 * (2 * (u * v) + u * l + k * v)
  BY <1>4, <1>5, <1>7, <1>11, <1>12
<1> QED BY <1>3, <1>4, <1>11, <1>13

\* Windows of size m x h and n x k, with common spans s and t and differences p
\* and q: if the common part is more than half of what they cover together, the
\* product of the differences is less than both areas.
LEMMA DifferencesBounded ==
  ASSUME NEW m \in Nat, NEW h \in Nat, NEW n \in Nat, NEW k \in Nat,
         NEW s \in Nat, NEW t \in Nat, NEW p \in Nat, NEW q \in Nat,
         s <= m, s <= n, t <= h, t <= k, 2 * p <= m + n, 2 * q <= h + k,
         s = m \/ s = n \/ p = s, t = h \/ t = k \/ q = t,
         3 * (s * t) > m * h + n * k
  PROVE  p * q < m * h + n * k
<1>1. /\ s * t \in Nat /\ m * h \in Nat /\ n * k \in Nat /\ p * q \in Nat
      /\ s * t <= m * h /\ s * t <= n * k /\ s * t > 0
  <2>1. s * t <= m * h /\ s * t \in Nat /\ m * h \in Nat
    BY ProductsGrow
  <2>2. s * t <= n * k /\ n * k \in Nat
    BY ProductsGrow
  <2>3. p * q \in Nat
    OBVIOUS
  <2> QED BY <2>1, <2>2, <2>3
<1>2. CASE p = s
  <2>1. s * h <= m * h /\ s * k <= n * k /\ s * h \in Nat /\ s * k \in Nat
    BY ProductsGrow
  <2>2. 2 * (s * q) <= s * h + s * k
    <3>1. PICK qq \in Nat, l \in Nat : qq = 2 * q /\ l = h + k
      OBVIOUS
    <3>2. s * qq <= s * l
      BY <3>1, ProductsGrow
    <3> QED BY <3>1, <3>2
  <2>3. s * q \in Nat
    OBVIOUS
  <2> QED BY <1>1, <1>2, <2>1, <2>2, <2>3
<1>3. CASE q = t
  <2>1. m * t <= m * h /\ n * t <= n * k /\ m * t \in Nat /\ n * t \in Nat
    BY ProductsGrow
  <2>2. 2 * (p * t) <= m * t + n * t
    <3>1. PICK pp \in Nat, l \in Nat : pp = 2 * p /\ l = m + n
      OBVIOUS
    <3>2. pp * t <= l * t
      BY <3>1, ProductsGrow
    <3> QED BY <3>1, <3>2
  <2>3. p * t \in Nat
    OBVIOUS
  <2> QED BY <1>1, <1>3, <2>1, <2>2, <2>3
<1>4. CASE s = m /\ t = h
  <2>1. p <= n /\ q <= k
    BY <1>4
  <2>2. p * q <= n * k
    BY <2>1, ProductsGrow
  <2> QED BY <1>1, <2>2
<1>5. CASE s = n /\ t = k
  <2>1. p <= m /\ q <= h
    BY <1>5
  <2>2. p * q <= m * h
    BY <2>1, ProductsGrow
  <2> QED BY <1>1, <2>2
<1>6. CASE s = m /\ t = k
  <2>1. m <= n /\ k <= h /\ 2 * p <= m + n /\ 2 * q <= k + h
    BY <1>6
  <2>2. 3 * (m * k) > n * k + m * h
    BY <1>1, <1>6
  <2>3. p * q < n * k + m * h
    BY <2>1, <2>2, CrossBeams
  <2> QED BY <1>1, <2>3
<1>7. CASE s = n /\ t = h
  <2>1. n <= m /\ h <= k /\ 2 * p <= n + m /\ 2 * q <= h + k
    BY <1>7
  <2>2. 3 * (n * h) > m * h + n * k
    BY <1>7
  <2>3. p * q < m * h + n * k
    BY <2>1, <2>2, CrossBeams
  <2> QED BY <2>3
<1> QED BY <1>2, <1>3, <1>4, <1>5, <1>6, <1>7

\* RoiOverlapping.m finds every pair that overlaps by more than half, and no
\* other unless one window lies strictly inside the other along an axis.
LEMMA TrueOverlapsFound ==
  ASSUME NEW a \in Window, NEW b \in Window
  PROVE  /\ IoUAboveHalf(a, b) => OverlapsByHalf(a, b)
         /\ ~ NestedWindows(a, b) => (IoUAboveHalf(a, b) <=> OverlapsByHalf(a, b))
<1>1. CASE ~ Meet(a, b)
  <2>1. Shared(a, b) = 0 /\ Joined(a, b) = Area(a) + Area(b) - Shared(a, b)
    BY <1>1, CellsCounted
  <2>2. Area(a) \in Nat /\ Area(b) \in Nat
    BY DEF Window, Area
  <2>3. ~ IoUAboveHalf(a, b) /\ ~ OverlapsByHalf(a, b)
    BY <1>1, <2>1, <2>2 DEF IoUAboveHalf, OverlapsByHalf
  <2> QED BY <2>3
<1>2. CASE Meet(a, b)
  <2>1. PICK m \in Nat, h \in Nat, n \in Nat, k \in Nat :
          a.w = m /\ a.h = h /\ b.w = n /\ b.h = k
    BY DEF Window
  <2>2. a.x \in Int /\ a.y \in Int /\ b.x \in Int /\ b.y \in Int
    BY DEF Window
  <2>3. PICK s \in Nat, p \in Nat :
          /\ s = CommonSpan(a.x, a.w, b.x, b.w) /\ p = SpanOverlap(a.x, a.w, b.x, b.w)
          /\ s <= m /\ s <= n /\ p >= s /\ 2 * p <= m + n
          /\ s = m \/ s = n \/ p = s
          /\ ~ NestedWindows(a, b) => p = s
    <3>1. a.x < b.x + n /\ a.x + m > b.x
      BY <1>2, <2>1 DEF Meet
    <3>2. /\ CommonSpan(a.x, m, b.x, n) \in Nat /\ SpanOverlap(a.x, m, b.x, n) \in Nat
          /\ CommonSpan(a.x, m, b.x, n) <= m /\ CommonSpan(a.x, m, b.x, n) <= n
          /\ SpanOverlap(a.x, m, b.x, n) >= CommonSpan(a.x, m, b.x, n)
          /\ 2 * SpanOverlap(a.x, m, b.x, n) <= m + n
          /\ ~ Nested(a.x, m, b.x, n) => SpanOverlap(a.x, m, b.x, n) = CommonSpan(a.x, m, b.x, n)
          /\ CommonSpan(a.x, m, b.x, n) = m \/ CommonSpan(a.x, m, b.x, n) = n
               \/ SpanOverlap(a.x, m, b.x, n) = CommonSpan(a.x, m, b.x, n)
      BY <2>2, <3>1, SpanExact
    <3> QED BY <2>1, <3>2 DEF NestedWindows
  <2>4. PICK t \in Nat, q \in Nat :
          /\ t = CommonSpan(a.y, a.h, b.y, b.h) /\ q = SpanOverlap(a.y, a.h, b.y, b.h)
          /\ t <= h /\ t <= k /\ q >= t /\ 2 * q <= h + k
          /\ t = h \/ t = k \/ q = t
          /\ ~ NestedWindows(a, b) => q = t
    <3>1. a.y < b.y + k /\ a.y + h > b.y
      BY <1>2, <2>1 DEF Meet
    <3>2. /\ CommonSpan(a.y, h, b.y, k) \in Nat /\ SpanOverlap(a.y, h, b.y, k) \in Nat
          /\ CommonSpan(a.y, h, b.y, k) <= h /\ CommonSpan(a.y, h, b.y, k) <= k
          /\ SpanOverlap(a.y, h, b.y, k) >= CommonSpan(a.y, h, b.y, k)
          /\ 2 * SpanOverlap(a.y, h, b.y, k) <= h + k
          /\ ~ Nested(a.y, h, b.y, k) => SpanOverlap(a.y, h, b.y, k) = CommonSpan(a.y, h, b.y, k)
          /\ CommonSpan(a.y, h, b.y, k) = h \/ CommonSpan(a.y, h, b.y, k) = k
               \/ SpanOverlap(a.y, h, b.y, k) = CommonSpan(a.y, h, b.y, k)
      BY <2>2, <3>1, SpanExact, ZenonT(60)
    <3> QED BY <2>1, <3>2 DEF NestedWindows
  <2>5. /\ Shared(a, b) = s * t /\ Intersection(a, b) = p * q
        /\ Joined(a, b) = m * h + n * k - s * t
        /\ Union(a, b) = m * h + n * k - p * q
    BY <1>2, <2>1, <2>3, <2>4, CellsCounted DEF Intersection, Union, Area
  <2>6. /\ s * t <= p * q /\ s * t \in Nat /\ p * q \in Nat
        /\ m * h \in Nat /\ n * k \in Nat
        /\ s * t <= m * h
    BY <2>3, <2>4, ProductsGrow
  <2>7. IoUAboveHalf(a, b) => OverlapsByHalf(a, b)
    <3> SUFFICES ASSUME IoUAboveHalf(a, b) PROVE OverlapsByHalf(a, b)
      OBVIOUS
    <3>1. 3 * (s * t) > m * h + n * k
      BY <2>5, <2>6 DEF IoUAboveHalf
    <3>2. p * q < m * h + n * k
      BY <2>3, <2>4, <3>1, DifferencesBounded
    <3>3. Union(a, b) > 0 /\ 2 * Intersection(a, b) > Union(a, b)
      BY <2>5, <2>6, <3>1, <3>2
    <3> QED BY <1>2, <3>3 DEF OverlapsByHalf
  <2>8. ASSUME ~ NestedWindows(a, b), OverlapsByHalf(a, b) PROVE IoUAboveHalf(a, b)
    <3>1. p * q = s * t
      BY <2>3, <2>4, <2>8
    <3>2. 2 * (s * t) > m * h + n * k - s * t
      BY <2>5, <2>6, <2>8, <3>1 DEF OverlapsByHalf
    <3> QED BY <2>5, <3>2 DEF IoUAboveHalf
  <2> QED BY <2>7, <2>8
<1> QED BY <1>1, <1>2

\* While the loops run the windows stay, and with them the pairs that match.
LEMMA OverlapsKept == EvaluationSpec => [](windows \in Cases /\ hit = Overlapping(windows))
<1>1. EvaluationInit => windows \in Cases /\ hit = Overlapping(windows)
  BY DEF EvaluationInit
<1>2. ASSUME windows \in Cases /\ hit = Overlapping(windows), [EvaluationNext]_<<vars, windows>>
      PROVE  (windows \in Cases /\ hit = Overlapping(windows))'
  <2>1. windows' = windows /\ hit' = hit
    BY <1>2 DEF EvaluationNext, Next, TestPair, NextAnnotation, CountUnused, vars
  <2> QED BY <1>2, <2>1 DEF Overlapping
<1> QED BY <1>1, <1>2, PTL DEF EvaluationSpec

\* The evaluation of an image runs the loops of WindowMatching.
LEMMA EvaluationMatches == EvaluationSpec => Spec
<1>1. EvaluationInit => Init
  BY DEF EvaluationInit
<1>2. [EvaluationNext]_<<vars, windows>> => [Next]_vars
  BY DEF EvaluationNext
<1> QED BY <1>1, <1>2, PTL DEF EvaluationSpec, Spec

\* More pairs match more detections and leave fewer of them over.
LEMMA MorePairsMatchMore ==
  ASSUME NEW few, NEW many, few \subseteq many
  PROVE  /\ WindowCounts(many, NA, ND).TP >= WindowCounts(few, NA, ND).TP
         /\ WindowCounts(many, NA, ND).FP <= WindowCounts(few, NA, ND).FP
<1>1. PICK F : F = UsedDetections(few, NA, ND)
  OBVIOUS
<1>2. PICK M : M = UsedDetections(many, NA, ND)
  OBVIOUS
<1>3. F \subseteq M /\ M \subseteq 1 .. ND
  BY <1>1, <1>2 DEF UsedDetections
<1>4. IsFiniteSet(1 .. ND)
  BY WindowNumbers DEF Detections
<1>5. IsFiniteSet(M) /\ Cardinality(F) <= Cardinality(M)
  BY <1>3, <1>4, FS_Subset
<1>6. IsFiniteSet((1 .. ND) \ F)
  BY <1>4, FS_Subset
<1>7. Cardinality((1 .. ND) \ M) <= Cardinality((1 .. ND) \ F)
  <2>1. (1 .. ND) \ M \subseteq (1 .. ND) \ F
    BY <1>3
  <2> QED BY <1>6, <2>1, FS_Subset
<1>8. /\ IsFiniteSet(F) /\ IsFiniteSet((1 .. ND) \ M)
  BY <1>3, <1>4, FS_Subset
<1>9. /\ Cardinality(F) \in Nat /\ Cardinality(M) \in Nat
      /\ Cardinality((1 .. ND) \ M) \in Nat /\ Cardinality((1 .. ND) \ F) \in Nat
  BY <1>5, <1>6, <1>8, FS_CardinalityType
<1> QED BY <1>1, <1>2, <1>5, <1>7, <1>9 DEF WindowCounts

\* For any windows no correct detection is counted as a false positive, and
\* unless a window lies strictly inside another along an axis the counts are
\* those of the pairs that overlap by more than half: what RoiOverlapping.m takes
\* for the common span is the common span then.
THEOREM CountsAreTrue == EvaluationSpec => []CountsAreTrueUnlessNested
<1>1. ASSUME windows \in Cases, hit = Overlapping(windows), CountsAreClosedForm
      PROVE  CountsAreTrueUnlessNested
  <2> SUFFICES ASSUME done
               PROVE  /\ TP >= WindowCounts(TrulyOverlapping(windows), NA, ND).TP
                      /\ FP <= WindowCounts(TrulyOverlapping(windows), NA, ND).FP
                      /\ (\A n \in Annotations, m \in Detections :
                            ~ NestedWindows(windows.annotations[n], windows.detections[m]))
                         => [TP |-> TP, FN |-> FN, FP |-> FP]
                              = WindowCounts(TrulyOverlapping(windows), NA, ND)
    BY DEF CountsAreTrueUnlessNested
  <2>1. [TP |-> TP, FN |-> FN, FP |-> FP] = WindowCounts(hit, NA, ND)
    BY <1>1 DEF CountsAreClosedForm
  <2>2. TP = WindowCounts(hit, NA, ND).TP /\ FP = WindowCounts(hit, NA, ND).FP
    BY <2>1
  <2>3. /\ windows.annotations \in [Annotations -> Window]
        /\ windows.detections \in [Detections -> Window]
    BY <1>1, CasesAssumption
  <2>4. TrulyOverlapping(windows) \subseteq hit
    BY <1>1, <2>3, TrueOverlapsFound DEF TrulyOverlapping, Overlapping
  <2>5. ASSUME \A n \in Annotations, m \in Detections :
                  ~ NestedWindows(windows.annotations[n], windows.detections[m])
        PROVE  TrulyOverlapping(windows) = hit
    BY <1>1, <2>3, <2>5, TrueOverlapsFound DEF TrulyOverlapping, Overlapping
  <2> QED BY <2>1, <2>2, <2>4, <2>5, MorePairsMatchMore
<1> QED BY <1>1, OverlapsKept, EvaluationMatches, ClosedForm, PTL
=============================================================================
