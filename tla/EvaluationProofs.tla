--------------------------- MODULE EvaluationProofs ---------------------------
(***************************************************************************)
(* Proofs about the two scripts that score results: SystemEvaluation, for  *)
(* any ground truth and anything saved, and ComputeResults, for any teams  *)
(* and submissions.  Both go through lists of lists.                       *)
(***************************************************************************)
EXTENDS SystemEvaluation, ComputeResults, DataProofs

-----------------------------------------------------------------------------
(* SystemEvaluation.                                                       *)

\* Only the first window of a row is looked at, whatever follows it.
LEMMA FirstWindowOnly ==
  ASSUME NEW g \in Seq(Window), Len(g) >= 1, NEW a \in Seq(Window), Len(a) >= 1, a[1] = g[1],
         NEW d \in Seq(Window), Len(d) >= 1
  PROVE  Compare(a, d) = Compare(g, d)
<1>1. Rows(a) = 1 /\ Rows(g) = 1 /\ Rows(d) = 1
  BY DEF Rows, Smaller
<1>2. Hits(a, 1, d, 1) = Hits(g, 1, d, 1)
  BY DEF Hits
<1> QED BY <1>1, <1>2 DEF Compare, CompareFirst

\* So exactly one detection and one annotation are counted, the first of each.
LEMMA OneOfEach ==
  ASSUME NEW g \in Seq(Window), Len(g) >= 1, NEW d \in Seq(Window), Len(d) >= 1
  PROVE  LET c == Compare(g, d)
         IN c = OnlyFirst(g, d) /\ c.TP + c.FP = 1 /\ c.TP + c.FN = 1
<1> DEFINE H == Hits(g, 1, d, 1)
           U == UsedDetections(H, 1, 1)
           V == UsedAnnotations(H, 1, 1)
<1>1. Rows(g) = 1 /\ Rows(d) = 1
  BY DEF Rows, Smaller
<1>2. Compare(g, d) = WindowCounts(H, 1, 1)
  BY <1>1 DEF Compare, CompareFirst
<1>3. 1 .. 1 = {1}
  OBVIOUS
<1>4. Cardinality({}) = 0 /\ Cardinality({1}) = 1
  BY FS_EmptySet, FS_Singleton
<1>0. <<1, 1>> \in H <=> OverlapsByHalf(g[1], d[1])
  BY <1>3 DEF Hits
<1>5. CASE <<1, 1>> \in H
  <2>1. U = {1}
    BY <1>3, <1>5 DEF UsedDetections
  <2>2. V = {1}
    BY <1>3, <1>5 DEF UsedAnnotations
  <2> HIDE DEF U, V, H
  <2>3. (1 .. 1) \ U = {} /\ (1 .. 1) \ V = {}
    BY <1>3, <2>1, <2>2
  <2>4. WindowCounts(H, 1, 1) = [TP |-> 1, FN |-> 0, FP |-> 0]
    BY <1>4, <2>1, <2>3 DEF WindowCounts, U, V
  <2>5. OnlyFirst(g, d) = [TP |-> 1, FN |-> 0, FP |-> 0]
    BY <1>0, <1>5 DEF OnlyFirst
  <2> QED BY <1>2, <2>4, <2>5
<1>6. CASE <<1, 1>> \notin H
  <2>1. U = {}
    BY <1>3, <1>6 DEF UsedDetections
  <2>2. V = {}
    BY <1>3, <1>6 DEF UsedAnnotations
  <2> HIDE DEF U, V, H
  <2>3. (1 .. 1) \ U = {1} /\ (1 .. 1) \ V = {1}
    BY <1>3, <2>1, <2>2
  <2>4. WindowCounts(H, 1, 1) = [TP |-> 0, FN |-> 1, FP |-> 1]
    BY <1>4, <2>1, <2>3 DEF WindowCounts, U, V
  <2>5. OnlyFirst(g, d) = [TP |-> 0, FN |-> 1, FP |-> 1]
    BY <1>0, <1>6 DEF OnlyFirst
  <2> QED BY <1>2, <2>4, <2>5
<1> QED BY <1>5, <1>6

\* The annotations of an image are copied over the first elements.
LEMMA OverwriteFirst ==
  ASSUME NEW list \in Seq(Window), NEW g \in Seq(Window), Len(g) >= 1
  PROVE  LET a == Overwrite(list, g)
         IN a \in Seq(Window) /\ Len(a) >= 1 /\ a[1] = g[1]
<1> DEFINE n == Larger(Len(list), Len(g))
           a == [k \in 1 .. n |-> IF k <= Len(g) THEN g[k] ELSE list[k]]
<1>1. n \in Nat /\ n >= 1
  BY DEF Larger
<1>2. \A k \in 1 .. n : (IF k <= Len(g) THEN g[k] ELSE list[k]) \in Window
  BY DEF Larger
<1> HIDE DEF n
<1>3. a \in Seq(Window) /\ Len(a) = n
  BY <1>1, <1>2
<1>4. a[1] = g[1]
  BY <1>1
<1> QED BY <1>1, <1>3, <1>4 DEF Overwrite, n

InputsOK ==
  /\ groundTruth \in [DOMAIN groundTruth -> Annotated]
  /\ images \in Seq(DOMAIN groundTruth)
  /\ saved \in [1 .. Techniques -> [DOMAIN groundTruth -> Saved]]

\* The rows of the two tables of a technique, computed from its own inputs.
PixelRow(t) ==
  [k \in DOMAIN images |->
     PixelCounts(saved[t][images[k]].mask, GtCells(groundTruth[images[k]]))]
WindowRow(t) ==
  [k \in DOMAIN images |-> Compare(groundTruth[images[k]], saved[t][images[k]].windows)]

\* Reports are complete and the tables hold what has been evaluated so far.
TablesOK ==
  /\ tecnique \in 1 .. Techniques + 1 /\ i \in 1 .. Len(images) + 1
  /\ annotation \in Seq(Window)
  /\ evaluation = [k \in 1 .. i - 1 |-> PixelRow(tecnique)[k]]
  /\ performance_eval = [k \in 1 .. i - 1 |-> WindowRow(tecnique)[k]]
  /\ reports = [t \in 1 .. tecnique - 1 |-> [pixel |-> PixelRow(t), window |-> WindowRow(t)]]
  /\ pc = "error" => Len(images) < 2
  /\ pc = "done" => tecnique = Techniques + 1

\* The inputs of an image are lists with a first window.
LEMMA ImageInputs ==
  ASSUME InputsOK, NEW t \in 1 .. Techniques, NEW k \in DOMAIN images
  PROVE  LET g == groundTruth[images[k]]
             d == saved[t][images[k]].windows
         IN g \in Seq(Window) /\ Len(g) >= 1 /\ d \in Seq(Window) /\ Len(d) >= 1
<1>1. images[k] \in DOMAIN groundTruth
  BY DEF InputsOK
<1>2. groundTruth[images[k]] \in Annotated /\ saved[t][images[k]] \in Saved
  BY <1>1 DEF InputsOK
<1> QED BY <1>2, InputAssumption

\* An image is listed once per sign, under a number it has.
LEMMA ImagesListed ==
  ASSUME NEW n \in Nat, NEW gt \in [1 .. n -> Annotated]
  PROVE  ValDataset(gt) \in Seq(DOMAIN gt)
<1> DEFINE D == 1 .. n
           rows == [im \in D |-> [k \in DOMAIN gt[im] |-> im]]
<1>1. DOMAIN gt = D
  OBVIOUS
<1>2. \A im \in D : [k \in DOMAIN gt[im] |-> im] \in Seq(D)
  <2> TAKE im \in D
  <2>1. gt[im] \in Seq(Window)
    BY InputAssumption
  <2>2. DOMAIN gt[im] = 1 .. Len(gt[im]) /\ Len(gt[im]) \in Nat
    BY <2>1
  <2> HIDE DEF D
  <2> QED BY <2>2
<1> HIDE DEF D
<1>3. rows \in Seq(Seq(D))
  BY <1>2 DEF D
<1>4. FlattenSeq(rows) \in Seq(D)
  BY <1>3, FlattenType
<1> QED BY <1>1, <1>4 DEF ValDataset

LEMMA EvaluationInit ==
  ASSUME Init
  PROVE  InputsOK /\ TablesOK
<1> USE InputAssumption DEF Init
<1>1. InputsOK
  <2>1. PICK n \in 0 .. MaxImages : groundTruth \in [1 .. n -> Annotated]
    OBVIOUS
  <2>2. n \in Nat
    OBVIOUS
  <2>3. images \in Seq(DOMAIN groundTruth)
    BY <2>1, <2>2, ImagesListed
  <2> QED BY <2>1, <2>3 DEF InputsOK
<1>2. Len(images) \in Nat
  BY <1>1 DEF InputsOK
<1>3. TablesOK
  <2>1. << >> \in Seq(Window)
    OBVIOUS
  <2>2. << >> = [k \in 1 .. i - 1 |-> PixelRow(tecnique)[k]]
    OBVIOUS
  <2>3. << >> = [k \in 1 .. i - 1 |-> WindowRow(tecnique)[k]]
    OBVIOUS
  <2>4. << >> = [t \in 1 .. tecnique - 1 |-> [pixel |-> PixelRow(t), window |-> WindowRow(t)]]
    OBVIOUS
  <2> QED BY <1>2, <2>1, <2>2, <2>3, <2>4 DEF TablesOK
<1> QED BY <1>1, <1>3

\* The row of an image is the one of its own windows, although annotation may
\* hold more.
LEMMA EvaluateImageKeeps ==
  ASSUME InputsOK, TablesOK, EvaluateImage
  PROVE  TablesOK'
<1> DEFINE im == images[i]
           det == saved[tecnique][im]
<1> USE DEF EvaluateImage, inputs
<1>1. /\ images' = images /\ groundTruth' = groundTruth /\ saved' = saved
      /\ tecnique' = tecnique /\ i' = i + 1 /\ reports' = reports /\ pc' = pc
      /\ pc = "images" /\ tecnique <= Techniques /\ i <= Len(images)
  OBVIOUS
<1>2. /\ tecnique \in 1 .. Techniques /\ i \in DOMAIN images /\ i \in Nat
      /\ tecnique' \in 1 .. Techniques + 1 /\ i' \in 1 .. Len(images) + 1
  <2>1. Len(images) \in Nat /\ DOMAIN images = 1 .. Len(images)
    BY DEF InputsOK
  <2> QED BY <1>1, <2>1, InputAssumption DEF TablesOK
<1>3. /\ PixelRow(tecnique)' = PixelRow(tecnique) /\ WindowRow(tecnique)' = WindowRow(tecnique)
      /\ \A t : PixelRow(t)' = PixelRow(t) /\ WindowRow(t)' = WindowRow(t)
  BY <1>1 DEF PixelRow, WindowRow
<1>4. groundTruth[im] \in Seq(Window) /\ Len(groundTruth[im]) >= 1
      /\ det.windows \in Seq(Window) /\ Len(det.windows) >= 1
  BY <1>2, ImageInputs
<1>5. annotation' \in Seq(Window) /\ Len(annotation') >= 1 /\ annotation'[1] = groundTruth[im][1]
  <2>1. annotation' = Overwrite(annotation, groundTruth[im])
    OBVIOUS
  <2>2. annotation \in Seq(Window)
    BY DEF TablesOK
  <2> QED BY <1>4, <2>1, <2>2, OverwriteFirst
<1>6. Compare(annotation', det.windows) = WindowRow(tecnique)[i]
  <2>1. Compare(annotation', det.windows) = Compare(groundTruth[im], det.windows)
    BY <1>4, <1>5, FirstWindowOnly
  <2> QED BY <1>2, <2>1 DEF WindowRow
<1>7. PixelCounts(det.mask, GtCells(groundTruth[im])) = PixelRow(tecnique)[i]
  BY <1>2 DEF PixelRow
<1>8. evaluation' = [k \in 1 .. i |-> PixelRow(tecnique)[k]]
  <2>1. evaluation' = Append(evaluation, PixelRow(tecnique)[i])
    BY <1>7
  <2>2. i - 1 \in Nat /\ i - 1 + 1 = i
    BY <1>2 DEF TablesOK
  <2>3. evaluation = [k \in 1 .. i - 1 |-> PixelRow(tecnique)[k]]
    BY DEF TablesOK
  <2> QED BY <2>1, <2>2, <2>3, AppendValue
<1>9. performance_eval' = [k \in 1 .. i |-> WindowRow(tecnique)[k]]
  <2>1. performance_eval' = Append(performance_eval, WindowRow(tecnique)[i])
    BY <1>6
  <2>2. i - 1 \in Nat /\ i - 1 + 1 = i
    BY <1>2 DEF TablesOK
  <2>3. performance_eval = [k \in 1 .. i - 1 |-> WindowRow(tecnique)[k]]
    BY DEF TablesOK
  <2> QED BY <2>1, <2>2, <2>3, AppendValue
<1>10. i' - 1 = i
  BY <1>1, <1>2
<1>11. reports' = [t \in 1 .. tecnique' - 1 |-> [pixel |-> PixelRow(t)', window |-> WindowRow(t)']]
  <2>1. reports = [t \in 1 .. tecnique - 1 |-> [pixel |-> PixelRow(t), window |-> WindowRow(t)]]
    BY DEF TablesOK
  <2> QED BY <1>1, <1>3, <2>1
<1>12. evaluation' = [k \in 1 .. i' - 1 |-> PixelRow(tecnique)'[k]]
  BY <1>3, <1>8, <1>10
<1>13. performance_eval' = [k \in 1 .. i' - 1 |-> WindowRow(tecnique)'[k]]
  BY <1>3, <1>9, <1>10
<1>14. pc' = "images" /\ Len(images') = Len(images)
  BY <1>1
<1> HIDE DEF EvaluateImage
<1> QED BY <1>2, <1>5, <1>11, <1>12, <1>13, <1>14 DEF TablesOK

\* The tables are complete when they are reported, and empty for the technique
\* after; without two rows the script stops.
LEMMA ReportTechniqueKeeps ==
  ASSUME InputsOK, TablesOK, ReportTechnique
  PROVE  TablesOK'
<1>1. /\ images' = images /\ groundTruth' = groundTruth /\ saved' = saved
      /\ annotation' = annotation
      /\ pc = "images" /\ tecnique <= Techniques /\ i > Len(images)
  BY DEF ReportTechnique, inputs
<1>2. Len(images) \in Nat /\ DOMAIN images = 1 .. Len(images) /\ Len(images') = Len(images)
  BY <1>1 DEF InputsOK
<1>3. tecnique \in 1 .. Techniques /\ tecnique \in Nat /\ i = Len(images) + 1
  BY <1>1, <1>2, InputAssumption DEF TablesOK
<1>4. \A t : PixelRow(t)' = PixelRow(t) /\ WindowRow(t)' = WindowRow(t)
  BY <1>1 DEF PixelRow, WindowRow
<1>5. evaluation = PixelRow(tecnique) /\ performance_eval = WindowRow(tecnique)
  <2>1. evaluation = [k \in 1 .. i - 1 |-> PixelRow(tecnique)[k]]
    BY DEF TablesOK
  <2>2. performance_eval = [k \in 1 .. i - 1 |-> WindowRow(tecnique)[k]]
    BY DEF TablesOK
  <2>3. 1 .. i - 1 = DOMAIN images
    BY <1>2, <1>3
  <2> QED BY <2>1, <2>2, <2>3 DEF PixelRow, WindowRow
<1>6. reports = [t \in 1 .. tecnique - 1 |-> [pixel |-> PixelRow(t), window |-> WindowRow(t)]]
  BY DEF TablesOK
<1>7. annotation' \in Seq(Window)
  BY <1>1 DEF TablesOK
<1>8. CASE MeanIsRow(evaluation)
  <2>1. /\ reports' = Append(reports, [pixel |-> evaluation, window |-> performance_eval])
        /\ tecnique' = tecnique + 1 /\ i' = 1
        /\ evaluation' = << >> /\ performance_eval' = << >> /\ pc' = pc
    BY <1>8 DEF ReportTechnique
  <2> DEFINE R == [t \in 1 .. tecnique |-> [pixel |-> PixelRow(t), window |-> WindowRow(t)]]
  <2>2. R[tecnique] = [pixel |-> evaluation, window |-> performance_eval]
    BY <1>3, <1>5
  <2>3. reports = [t \in 1 .. tecnique - 1 |-> R[t]]
    BY <1>3, <1>6
  <2> HIDE DEF R
  <2>4. tecnique - 1 \in Nat /\ tecnique - 1 + 1 = tecnique
    BY <1>3
  <2>5. reports' = [t \in 1 .. tecnique |-> R[t]]
    BY <2>1, <2>2, <2>3, <2>4, AppendValue
  <2>6. tecnique' - 1 = tecnique
    BY <1>3, <2>1
  <2>7. reports' = [t \in 1 .. tecnique' - 1 |-> [pixel |-> PixelRow(t)', window |-> WindowRow(t)']]
    BY <1>4, <2>5, <2>6 DEF R
  <2>8. evaluation' = [k \in 1 .. i' - 1 |-> PixelRow(tecnique)'[k]]
    BY <2>1
  <2>9. performance_eval' = [k \in 1 .. i' - 1 |-> WindowRow(tecnique)'[k]]
    BY <2>1
  <2>10. tecnique' \in 1 .. Techniques + 1 /\ i' \in 1 .. Len(images) + 1
    BY <1>2, <1>3, <2>1, InputAssumption
  <2> QED BY <1>1, <1>2, <1>7, <2>1, <2>7, <2>8, <2>9, <2>10 DEF TablesOK
<1>9. CASE ~ MeanIsRow(evaluation)
  <2>1. /\ pc' = "error" /\ tecnique' = tecnique /\ i' = i /\ evaluation' = evaluation
        /\ performance_eval' = performance_eval /\ reports' = reports
    BY <1>9 DEF ReportTechnique
  <2>2. Len(images) < 2
    <3>1. evaluation = [k \in 1 .. Len(images) |-> PixelRow(tecnique)[k]]
      BY <1>2, <1>5 DEF PixelRow
    <3>2. Len(evaluation) = Len(images)
      BY <1>2, <3>1
    <3> QED BY <1>2, <1>9, <3>2 DEF MeanIsRow
  <2>3. reports' = [t \in 1 .. tecnique' - 1 |-> [pixel |-> PixelRow(t)', window |-> WindowRow(t)']]
    BY <1>4, <1>6, <2>1
  <2>4. evaluation' = [k \in 1 .. i' - 1 |-> PixelRow(tecnique)'[k]]
    BY <1>4, <2>1 DEF TablesOK
  <2>5. performance_eval' = [k \in 1 .. i' - 1 |-> WindowRow(tecnique)'[k]]
    BY <1>4, <2>1 DEF TablesOK
  <2>6. tecnique' \in 1 .. Techniques + 1 /\ i' \in 1 .. Len(images') + 1
    BY <1>2, <2>1 DEF TablesOK
  <2> QED BY <1>2, <1>7, <2>1, <2>2, <2>3, <2>4, <2>5, <2>6 DEF TablesOK
<1> QED BY <1>8, <1>9

LEMMA EvaluationInvariant == Spec => [](InputsOK /\ TablesOK)
<1>1. InputsOK /\ TablesOK /\ [Next]_vars => (InputsOK /\ TablesOK)'
  <2> SUFFICES ASSUME InputsOK, TablesOK, [Next]_vars
               PROVE  InputsOK' /\ TablesOK'
    OBVIOUS
  <2>1. InputsOK'
    <3>1. images' = images /\ groundTruth' = groundTruth /\ saved' = saved
      BY DEF Next, EvaluateImage, ReportTechnique, Finish, inputs, vars
    <3> QED BY <3>1 DEF InputsOK
  <2>2. CASE EvaluateImage
    BY <2>1, <2>2, EvaluateImageKeeps
  <2>3. CASE ReportTechnique
    BY <2>1, <2>3, ReportTechniqueKeeps
  <2>4. ASSUME Finish \/ UNCHANGED vars PROVE TablesOK'
    <3>1. /\ images' = images /\ groundTruth' = groundTruth /\ saved' = saved
          /\ tecnique' = tecnique /\ i' = i /\ annotation' = annotation /\ reports' = reports
          /\ evaluation' = evaluation /\ performance_eval' = performance_eval
      BY <2>4 DEF Finish, inputs, vars
    <3>2. \A t : PixelRow(t)' = PixelRow(t) /\ WindowRow(t)' = WindowRow(t)
      BY <3>1 DEF PixelRow, WindowRow
    <3>3. pc' = "error" => pc = "error"
      BY <2>4 DEF Finish, vars
    <3>4. pc' = "done" => tecnique = Techniques + 1
      BY <2>4, InputAssumption DEF Finish, vars, TablesOK
    <3> QED BY <3>1, <3>2, <3>3, <3>4 DEF TablesOK
  <2> QED BY <2>1, <2>2, <2>3, <2>4 DEF Next
<1> QED BY EvaluationInit, <1>1, PTL DEF Spec

\* For any ground truth and anything saved, the window counts of an image are
\* those of its own windows: annotations left over from an image with more
\* signs never count.
THEOREM NoStaleAnnotationCorrect == Spec => []NoStaleAnnotation
<1>1. InputsOK /\ TablesOK => NoStaleAnnotation
  <2> SUFFICES ASSUME InputsOK, TablesOK, NEW k \in DOMAIN performance_eval
               PROVE  performance_eval[k]
                        = Compare(groundTruth[images[k]], saved[tecnique][images[k]].windows)
    BY DEF NoStaleAnnotation
  <2>1. Len(images) \in Nat /\ DOMAIN images = 1 .. Len(images)
    BY DEF InputsOK
  <2>2. k \in 1 .. i - 1 /\ performance_eval[k] = WindowRow(tecnique)[k]
    BY DEF TablesOK
  <2>3. k \in DOMAIN images
    BY <2>1, <2>2 DEF TablesOK
  <2> QED BY <2>2, <2>3 DEF WindowRow
<1> QED BY EvaluationInvariant, <1>1, PTL

\* Every technique is reported with a row of its own per listed image, in which
\* the first window of either list alone is counted, so that its figures are
\* defined; with fewer than two rows the script stops instead.
THEOREM EveryTechniqueReportedCorrect == Spec => []EveryTechniqueReported
<1>1. InputsOK /\ TablesOK => EveryTechniqueReported
  <2> SUFFICES ASSUME InputsOK, TablesOK PROVE EveryTechniqueReported
    OBVIOUS
  <2>1. Len(images) \in Nat /\ DOMAIN images = 1 .. Len(images)
    BY DEF InputsOK
  <2>2. tecnique \in Nat /\ tecnique <= Techniques + 1 /\ Techniques \in Nat
    BY InputAssumption DEF TablesOK
  <2>3. reports = [t \in 1 .. tecnique - 1 |-> [pixel |-> PixelRow(t), window |-> WindowRow(t)]]
    BY DEF TablesOK
  <2>4. pc = "error" => Len(images) < 2
    BY DEF TablesOK
  <2>5. pc = "done" => Len(reports) = Techniques
    <3>1. pc = "done" => tecnique - 1 = Techniques
      BY <2>2 DEF TablesOK
    <3>2. tecnique - 1 \in Nat => Len(reports) = tecnique - 1
      BY <2>3
    <3> QED BY <2>2, <3>1, <3>2
  <2>6. ASSUME NEW t \in DOMAIN reports
        PROVE  /\ Len(reports[t].pixel) = Len(images) /\ Len(reports[t].window) = Len(images)
               /\ \A k \in DOMAIN images :
                    LET r == reports[t].window[k]
                        g == groundTruth[images[k]]
                    IN /\ reports[t].pixel[k] = PixelCounts(saved[t][images[k]].mask, GtCells(g))
                       /\ r = OnlyFirst(g, saved[t][images[k]].windows)
                       /\ Defined(Precision(r)) /\ Defined(Recall(r))
    <3>1. t \in 1 .. tecnique - 1 /\ t \in 1 .. Techniques
      BY <2>2, <2>3
    <3>2. reports[t].pixel = PixelRow(t) /\ reports[t].window = WindowRow(t)
      BY <2>3, <3>1
    <3>3. PixelRow(t) = [k \in 1 .. Len(images) |-> PixelRow(t)[k]]
      BY <2>1 DEF PixelRow
    <3>4. WindowRow(t) = [k \in 1 .. Len(images) |-> WindowRow(t)[k]]
      BY <2>1 DEF WindowRow
    <3>5. Len(PixelRow(t)) = Len(images) /\ Len(WindowRow(t)) = Len(images)
      BY <2>1, <3>3, <3>4
    <3>6. ASSUME NEW k \in DOMAIN images
          PROVE  LET r == reports[t].window[k]
                     g == groundTruth[images[k]]
                 IN /\ reports[t].pixel[k] = PixelCounts(saved[t][images[k]].mask, GtCells(g))
                    /\ r = OnlyFirst(g, saved[t][images[k]].windows)
                    /\ Defined(Precision(r)) /\ Defined(Recall(r))
      <4> DEFINE g == groundTruth[images[k]]
                 d == saved[t][images[k]].windows
                 r == reports[t].window[k]
      <4>1. reports[t].pixel[k] = PixelCounts(saved[t][images[k]].mask, GtCells(g))
        BY <3>2 DEF PixelRow
      <4>2. r = Compare(g, d)
        BY <3>2 DEF WindowRow
      <4>3. g \in Seq(Window) /\ Len(g) >= 1 /\ d \in Seq(Window) /\ Len(d) >= 1
        BY <3>1, ImageInputs
      <4>4. r = OnlyFirst(g, d) /\ r.TP + r.FP = 1 /\ r.TP + r.FN = 1
        BY <4>2, <4>3, OneOfEach
      <4>5. Defined(Precision(r)) /\ Defined(Recall(r))
        BY <4>4 DEF Defined, Precision, Recall
      <4> QED BY <4>1, <4>4, <4>5
    <3> QED BY <3>2, <3>5, <3>6
  <2> QED BY <2>4, <2>5, <2>6 DEF EveryTechniqueReported
<1> QED BY EvaluationInvariant, <1>1, PTL

-----------------------------------------------------------------------------
(* ComputeResults.                                                         *)

\* A comparison of a result file with a test file, and those of a method.
Comparisons == [team : Nat, method : Nat, result : Nat, test : {TestFiles[f] : f \in Nat}]
Comparison(t, m, f) ==
  [team |-> t, method |-> m, result |-> submission[t][m][f], test |-> TestFiles[f]]
OfMethod(t, m) == [f \in DOMAIN submission[t][m] |-> Comparison(t, m, f)]

\* The comparisons up to a method are those up to the method before it and its
\* own.
LEMMA MethodAdds ==
  ASSUME NEW t \in Nat, submission[t] \in Seq(Seq(Nat)), NEW n \in Nat, n < Len(submission[t])
  PROVE  /\ ComparisonsUpTo(t, n) \in Seq(Comparisons)
         /\ ComparisonsUpTo(t, n + 1) \in Seq(Comparisons)
         /\ ComparisonsUpTo(t, n + 1) = ComparisonsUpTo(t, n) \o OfMethod(t, n + 1)
<1> DEFINE L(k) == [m \in 1 .. k |-> OfMethod(t, m)]
<1>1. \A m \in 1 .. n + 1 : OfMethod(t, m) \in Seq(Comparisons)
  <2> TAKE m \in 1 .. n + 1
  <2>1. submission[t][m] \in Seq(Nat) /\ m \in Nat
    OBVIOUS
  <2>2. \A f \in DOMAIN submission[t][m] : Comparison(t, m, f) \in Comparisons
    BY <2>1 DEF Comparison, Comparisons
  <2>3. DOMAIN submission[t][m] = 1 .. Len(submission[t][m]) /\ Len(submission[t][m]) \in Nat
    BY <2>1
  <2> QED BY <2>2, <2>3 DEF OfMethod
<1>2. \A k : ComparisonsUpTo(t, k) = FlattenSeq(L(k))
  BY DEF ComparisonsUpTo, OfMethod, Comparison
<1>3. L(n) \in Seq(Seq(Comparisons)) /\ Len(L(n)) = n
  BY <1>1
<1>4. L(n + 1) \in Seq(Seq(Comparisons)) /\ Len(L(n + 1)) = n + 1
  BY <1>1
<1>5. \A m \in 1 .. n : L(n + 1)[m] = L(n)[m]
  OBVIOUS
<1>6. L(n + 1)[n + 1] = OfMethod(t, n + 1)
  OBVIOUS
<1> HIDE DEF L
<1>7. FlattenSeq(L(n + 1)) = FlattenSeq(L(n)) \o OfMethod(t, n + 1)
  BY <1>3, <1>4, <1>5, <1>6, FlattenStep
<1>8. FlattenSeq(L(n)) \in Seq(Comparisons) /\ FlattenSeq(L(n + 1)) \in Seq(Comparisons)
  BY <1>3, <1>4, FlattenType
<1> QED BY <1>2, <1>7, <1>8

\* Both sums hold the comparisons of the team's methods so far and of the
\* result files scored; what has been printed is as it should be.
Sums ==
  /\ submission \in [1 .. Teams -> Seq(Seq(Nat))]
  /\ jj \in 0 .. Teams
  /\ printed \in Seq([team : Nat, method : Nat, pixel : Seq(Comparisons), window : Seq(Comparisons)])
  /\ windowTotal = IF window_evaluation THEN pixelTotal ELSE << >>
  /\ step = "method" =>
       /\ jj \in 1 .. Teams
       /\ kk \in Nat \ {0} /\ ii \in Nat \ {0}
       /\ pixelTotal = ComparisonsUpTo(jj, kk - 1)
                         \o [f \in 1 .. ii - 1 |-> Comparison(jj, kk, f)]
       /\ kk <= Len(submission[jj]) => ii <= Len(submission[jj][kk]) + 1
  /\ TeamsApart

\* No comparison before the first method.
LEMMA NothingBefore ==
  ASSUME NEW t PROVE ComparisonsUpTo(t, 0) = << >>
<1>1. ComparisonsUpTo(t, 0) = FlattenSeq([m \in 1 .. 0 |-> OfMethod(t, m)])
  BY DEF ComparisonsUpTo, OfMethod, Comparison
<1>2. [m \in 1 .. 0 |-> OfMethod(t, m)] = << >>
  OBVIOUS
<1>3. FlattenSeq(<< >>) = << >>
  BY FlattenNone
<1> QED BY <1>1, <1>2, <1>3

LEMMA SumsInit ==
  ASSUME ScoringInit
  PROVE  Sums
<1> USE ConfigAssumption DEF ScoringInit
<1>1. submission \in [1 .. Teams -> Seq(Seq(Nat))]
  OBVIOUS
<1>2. printed = << >> /\ step = "team" /\ jj = 0 /\ 0 \in 0 .. Teams
  OBVIOUS
<1>3. windowTotal = IF window_evaluation THEN pixelTotal ELSE << >>
  OBVIOUS
<1>4. TeamsApart
  <2>1. Lines = {}
    BY <1>2 DEF Lines, ToSet
  <2> QED BY <2>1 DEF TeamsApart
<1>5. << >> \in Seq([team : Nat, method : Nat, pixel : Seq(Comparisons), window : Seq(Comparisons)])
  OBVIOUS
<1> QED BY <1>1, <1>2, <1>3, <1>4, <1>5 DEF Sums

\* What has been printed for the teams stays so while the submissions do.
LEMMA PrintedKept ==
  ASSUME TeamsApart, printed' = printed, submission' = submission
  PROVE  TeamsApart'
BY DEF TeamsApart, Lines, ComparisonsUpTo

\* The comparisons up to a method do not change either.
LEMMA UpToKept ==
  ASSUME submission' = submission, NEW t, jj' = t, NEW n, kk' - 1 = n
  PROVE  ComparisonsUpTo(jj, kk - 1)' = ComparisonsUpTo(t, n)
BY DEF ComparisonsUpTo

LEMMA StartTeamKeeps ==
  ASSUME Sums, StartTeam
  PROVE  Sums'
<1> USE DEF StartTeam
<1>1. /\ submission' = submission /\ printed' = printed /\ step' = "method"
      /\ jj' = jj + 1 /\ kk' = 1 /\ ii' = 1 /\ jj < Teams
      /\ pixelTotal' = << >> /\ windowTotal' = << >>
  OBVIOUS
<1>2. jj' \in 0 .. Teams /\ jj' \in 1 .. Teams
  BY <1>1, ConfigAssumption DEF Sums
<1>3. pixelTotal' = ComparisonsUpTo(jj, kk - 1)'
                      \o [f \in 1 .. ii' - 1 |-> Comparison(jj, kk, f)']
  <2>1. ComparisonsUpTo(jj, kk - 1)' = << >>
    <3>1. PICK t : t = jj'
      OBVIOUS
    <3>2. kk' - 1 = 0
      BY <1>1
    <3>3. ComparisonsUpTo(jj, kk - 1)' = ComparisonsUpTo(t, 0)
      BY <1>1, <3>1, <3>2, UpToKept
    <3> QED BY <3>3, NothingBefore
  <2>2. [f \in 1 .. ii' - 1 |-> Comparison(jj, kk, f)'] = << >>
    BY <1>1
  <2> QED BY <1>1, <2>1, <2>2
<1>4. kk' <= Len(submission'[jj']) => ii' <= Len(submission'[jj'][kk']) + 1
  <2>1. submission'[jj'] \in Seq(Seq(Nat))
    BY <1>1, <1>2 DEF Sums
  <2> QED BY <1>1, <2>1
<1>5. TeamsApart'
  BY <1>1, PrintedKept DEF Sums
<1> QED BY <1>1, <1>2, <1>3, <1>4, <1>5 DEF Sums

LEMMA ScoreFileKeeps ==
  ASSUME Sums, ScoreFile
  PROVE  Sums'
<1> USE DEF ScoreFile, Methods, ResultFiles
<1>1. /\ submission' = submission /\ printed' = printed /\ jj' = jj /\ kk' = kk
      /\ step = "method" /\ kk <= Len(submission[jj]) /\ ii <= Len(submission[jj][kk])
  OBVIOUS
<1>2. /\ submission \in [1 .. Teams -> Seq(Seq(Nat))]
      /\ jj \in 1 .. Teams /\ kk \in Nat \ {0} /\ ii \in Nat \ {0}
      /\ pixelTotal = ComparisonsUpTo(jj, kk - 1)
                        \o [f \in 1 .. ii - 1 |-> Comparison(jj, kk, f)]
      /\ windowTotal = IF window_evaluation THEN pixelTotal ELSE << >>
  BY <1>1 DEF Sums
<1>3. TeamsApart'
  BY <1>1, PrintedKept DEF Sums
<1>4. CASE ~ ii <= Len(TestFiles)
  <2>1. /\ step' = "error" /\ pixelTotal' = pixelTotal /\ windowTotal' = windowTotal
    BY <1>4
  <2> QED BY <1>1, <1>2, <1>3, <2>1 DEF Sums
<1>5. CASE ii <= Len(TestFiles)
  <2>1. /\ pixelTotal' = Append(pixelTotal, Comparison(jj, kk, ii))
        /\ windowTotal' = IF window_evaluation THEN Append(windowTotal, Comparison(jj, kk, ii))
                          ELSE windowTotal
        /\ ii' = ii + 1
    BY <1>5 DEF Comparison
  <2>2. windowTotal' = IF window_evaluation THEN pixelTotal' ELSE << >>
    BY <1>2, <2>1
  <2> HIDE DEF ScoreFile, Methods, ResultFiles
  <2>3. PICK t \in 1 .. Teams, n \in Nat, q \in Nat : t = jj /\ n = kk - 1 /\ q = ii - 1
    BY <1>2
  <2>4. submission[t] \in Seq(Seq(Nat)) /\ n < Len(submission[t]) /\ t \in Nat
    <3>1. submission[t] \in Seq(Seq(Nat))
      BY <1>2
    <3>2. Len(submission[t]) \in Nat /\ kk <= Len(submission[t])
      BY <1>1, <2>3, <3>1
    <3> QED BY <1>2, <2>3, <3>1, <3>2, ConfigAssumption
  <2>5. ComparisonsUpTo(t, n) \in Seq(Comparisons)
    BY <2>4, MethodAdds
  <2> DEFINE P == [f \in 1 .. q |-> Comparison(t, n + 1, f)]
             Q == [f \in 1 .. q + 1 |-> Comparison(t, n + 1, f)]
             F == [f \in Nat |-> Comparison(t, n + 1, f)]
  <2>6. Append(P, Comparison(t, n + 1, q + 1)) = Q
    <3>1. P = [f \in 1 .. q |-> F[f]] /\ Q = [f \in 1 .. q + 1 |-> F[f]]
      BY <2>3
    <3>2. F[q + 1] = Comparison(t, n + 1, q + 1)
      BY <2>3
    <3> HIDE DEF P, Q, F
    <3> QED BY <2>3, <3>1, <3>2, AppendValue
  <2>7. P \in Seq({Comparison(t, n + 1, f) : f \in 1 .. q + 1})
    BY <2>3
  <2>8. n + 1 = kk /\ q + 1 = ii /\ ii' - 1 = q + 1
    BY <1>2, <2>1, <2>3
  <2> HIDE DEF P
  <2>9. pixelTotal' = Append(ComparisonsUpTo(t, n) \o P, Comparison(t, n + 1, q + 1))
    BY <1>2, <2>1, <2>3, <2>8 DEF P
  <2> DEFINE C == ComparisonsUpTo(t, n)
             e == Comparison(t, n + 1, q + 1)
             S == Comparisons \cup {Comparison(t, n + 1, f) : f \in 1 .. q + 1}
  <2>10. C \in Seq(S) /\ P \in Seq(S) /\ e \in S
    <3>1. e \in S
      BY <2>3
    <3> DEFINE E == {Comparison(t, n + 1, f) : f \in 1 .. q + 1}
    <3>2. P \in Seq(E) /\ E \subseteq S /\ Comparisons \subseteq S
      BY <2>7
    <3> HIDE DEF S, E
    <3>3. P \in Seq(S)
      BY <3>2
    <3>4. C \in Seq(S)
      BY <2>5, <3>2
    <3> QED BY <3>1, <3>3, <3>4
  <2> HIDE DEF C, e, S, Q
  <2>11. Append(C \o P, e) = C \o Append(P, e)
    BY <2>10
  <2>12. pixelTotal' = C \o Q
    BY <2>6, <2>9, <2>11 DEF C, e
  <2>13. pixelTotal' = ComparisonsUpTo(jj, kk - 1)'
                         \o [f \in 1 .. ii' - 1 |-> Comparison(jj, kk, f)']
    <3>1. ComparisonsUpTo(jj, kk - 1)' = C
      BY <1>1, <2>3, UpToKept DEF C
    <3>2. [f \in 1 .. ii' - 1 |-> Comparison(jj, kk, f)'] = Q
      BY <1>1, <2>3, <2>8 DEF Q, Comparison
    <3> QED BY <2>12, <3>1, <3>2
  <2>14. ii' <= Len(submission'[jj'][kk']) + 1 /\ ii' \in Nat \ {0}
    <3>1. submission[jj][kk] \in Seq(Nat)
      BY <1>1, <2>3, <2>4, <1>2
    <3>2. Len(submission[jj][kk]) \in Nat
      BY <3>1
    <3> QED BY <1>1, <1>2, <2>1, <3>2
  <2> QED BY <1>1, <1>2, <1>3, <2>2, <2>13, <2>14 DEF Sums
<1> QED BY <1>4, <1>5

\* When a method is printed, the sums hold all its comparisons.
LEMMA PrintMethodKeeps ==
  ASSUME Sums, PrintMethod
  PROVE  Sums'
<1>1. /\ submission' = submission /\ jj' = jj /\ kk' = kk + 1 /\ ii' = 1 /\ step' = step
      /\ pixelTotal' = pixelTotal /\ windowTotal' = windowTotal
      /\ printed' = Append(printed, [team |-> jj, method |-> kk, pixel |-> pixelTotal,
                                     window |-> windowTotal])
      /\ step = "method" /\ kk <= Len(submission[jj]) /\ ii > Len(submission[jj][kk])
  BY DEF PrintMethod, Methods, ResultFiles
<1>2. /\ submission \in [1 .. Teams -> Seq(Seq(Nat))]
      /\ jj \in 1 .. Teams /\ kk \in Nat \ {0} /\ ii \in Nat \ {0}
      /\ pixelTotal = ComparisonsUpTo(jj, kk - 1)
                        \o [f \in 1 .. ii - 1 |-> Comparison(jj, kk, f)]
      /\ windowTotal = IF window_evaluation THEN pixelTotal ELSE << >>
      /\ ii <= Len(submission[jj][kk]) + 1
  BY <1>1 DEF Sums
<1>3. PICK t \in 1 .. Teams, n \in Nat : t = jj /\ n = kk - 1
  BY <1>2
<1>4. submission[t] \in Seq(Seq(Nat)) /\ n < Len(submission[t]) /\ t \in Nat /\ n + 1 = kk
  <2>1. submission[t] \in Seq(Seq(Nat))
    BY <1>2
  <2>2. Len(submission[t]) \in Nat /\ kk <= Len(submission[t])
    BY <1>1, <1>3, <2>1
  <2> QED BY <1>2, <1>3, <2>1, <2>2, ConfigAssumption
<1>5. [f \in 1 .. ii - 1 |-> Comparison(jj, kk, f)] = OfMethod(t, n + 1)
  <2>1. submission[t][n + 1] \in Seq(Nat)
    BY <1>4
  <2>2. DOMAIN submission[t][n + 1] = 1 .. Len(submission[t][n + 1])
        /\ Len(submission[t][n + 1]) \in Nat
    BY <2>1
  <2>3. ii - 1 = Len(submission[t][n + 1])
    <3>1. submission[t][n + 1] = submission[jj][kk]
      BY <1>3, <1>4
    <3>2. ii > Len(submission[t][n + 1]) /\ ii <= Len(submission[t][n + 1]) + 1
      BY <1>1, <1>2, <3>1
    <3>3. PICK L \in Nat : L = Len(submission[t][n + 1])
      BY <2>2
    <3>4. PICK q \in Nat : q = ii
      BY <1>2
    <3>5. q > L /\ q <= L + 1
      BY <3>2, <3>3, <3>4
    <3>6. q - 1 = L
      BY <3>5
    <3> QED BY <3>3, <3>4, <3>6
  <2> QED BY <1>3, <1>4, <2>2, <2>3 DEF OfMethod
<1>6. /\ pixelTotal = ComparisonsUpTo(t, n + 1)
      /\ pixelTotal \in Seq(Comparisons)
  <2>1. pixelTotal = ComparisonsUpTo(t, n) \o OfMethod(t, n + 1)
    BY <1>2, <1>3, <1>5
  <2> QED BY <1>4, <2>1, MethodAdds
<1>7. windowTotal \in Seq(Comparisons)
  <2>1. << >> \in Seq(Comparisons)
    OBVIOUS
  <2> QED BY <1>2, <1>6, <2>1
<1> DEFINE l == [team |-> jj, method |-> kk, pixel |-> pixelTotal, window |-> windowTotal]
           L == [team : Nat, method : Nat, pixel : Seq(Comparisons), window : Seq(Comparisons)]
<1>8. l \in L
  BY <1>2, <1>3, <1>4, <1>6, <1>7
<1>9. printed \in Seq(L)
  BY DEF Sums
<1>10. l.pixel = ComparisonsUpTo(l.team, l.method)
       /\ l.window = IF window_evaluation THEN l.pixel ELSE << >>
  BY <1>2, <1>3, <1>4, <1>6
<1>11. printed' = Append(printed, l)
  BY <1>1
<1> HIDE DEF l, L
<1>12. printed' \in Seq(L) /\ Lines' = Lines \cup {l}
  <2>1. printed' \in Seq(L) /\ Len(printed) \in Nat /\ Len(printed') = Len(printed) + 1
    BY <1>8, <1>9, <1>11
  <2>2. Lines = {printed[k] : k \in 1 .. Len(printed)}
    BY <1>9 DEF Lines, ToSet
  <2>3. Lines' = {printed'[k] : k \in 1 .. Len(printed) + 1}
    BY <2>1 DEF Lines, ToSet
  <2>4. /\ printed'[Len(printed) + 1] = l
        /\ \A k \in 1 .. Len(printed) : printed'[k] = printed[k]
    BY <1>8, <1>9, <1>11
  <2> QED BY <2>1, <2>2, <2>3, <2>4
<1>13. TeamsApart'
  <2>1. ASSUME NEW x \in Lines'
        PROVE  /\ x.pixel = ComparisonsUpTo(x.team, x.method)
               /\ x.window = IF window_evaluation THEN x.pixel ELSE << >>
    <3>1. CASE x = l
      BY <1>10, <3>1
    <3>2. CASE x \in Lines
      BY <3>2 DEF Sums, TeamsApart
    <3> QED BY <1>12, <2>1, <3>1, <3>2
  <2>2. \A p, q : ComparisonsUpTo(p, q)' = ComparisonsUpTo(p, q)
    BY <1>1 DEF ComparisonsUpTo
  <2> QED BY <2>1, <2>2 DEF TeamsApart
<1>14. pixelTotal' = ComparisonsUpTo(jj, kk - 1)'
                       \o [f \in 1 .. ii' - 1 |-> Comparison(jj, kk, f)']
  <2>1. ComparisonsUpTo(jj, kk - 1)' = ComparisonsUpTo(t, n + 1)
    <3>1. kk' - 1 = n + 1
      BY <1>1, <1>2, <1>4
    <3> QED BY <1>1, <1>3, <3>1, UpToKept
  <2>2. [f \in 1 .. ii' - 1 |-> Comparison(jj, kk, f)'] = << >>
    BY <1>1
  <2> DEFINE C == ComparisonsUpTo(t, n + 1)
  <2>3. C \in Seq(Comparisons)
    BY <1>6
  <2> HIDE DEF C
  <2>4. C \o << >> = C
    BY <2>3
  <2> QED BY <1>1, <1>6, <2>1, <2>2, <2>4 DEF C
<1>15. kk' <= Len(submission'[jj']) => ii' <= Len(submission'[jj'][kk']) + 1
  <2> SUFFICES ASSUME kk + 1 <= Len(submission[t])
               PROVE  1 <= Len(submission[t][kk + 1]) + 1
    BY <1>1, <1>3
  <2>1. submission[t][kk + 1] \in Seq(Nat)
    BY <1>2, <1>4
  <2> QED BY <2>1
<1>16. /\ jj' \in 0 .. Teams /\ jj' \in 1 .. Teams
       /\ kk' \in Nat \ {0} /\ ii' \in Nat \ {0}
       /\ submission' \in [1 .. Teams -> Seq(Seq(Nat))]
       /\ windowTotal' = IF window_evaluation THEN pixelTotal' ELSE << >>
  BY <1>1, <1>2
<1> QED BY <1>12, <1>13, <1>14, <1>15, <1>16 DEF Sums, L

LEMMA SumsInvariant == ScoringSpec => []Sums
<1>1. ScoringInit => Sums
  BY SumsInit
<1>2. Sums /\ [ScoringNext]_scoringVars => Sums'
  <2> SUFFICES ASSUME Sums, [ScoringNext]_scoringVars PROVE Sums'
    OBVIOUS
  <2>1. CASE StartTeam
    BY <2>1, StartTeamKeeps
  <2>2. CASE ScoreFile
    BY <2>2, ScoreFileKeeps
  <2>3. CASE PrintMethod
    BY <2>3, PrintMethodKeeps
  <2>4. ASSUME NextTeam \/ Close \/ UNCHANGED scoringVars PROVE Sums'
    <3>1. /\ submission' = submission /\ jj' = jj /\ kk' = kk /\ ii' = ii /\ printed' = printed
          /\ pixelTotal' = pixelTotal /\ windowTotal' = windowTotal
          /\ step' = "method" => step = "method"
      BY <2>4 DEF NextTeam, Close, scoringVars
    <3>2. TeamsApart'
      BY <3>1, PrintedKept DEF Sums
    <3>3. \A p, q : /\ ComparisonsUpTo(p, q)' = ComparisonsUpTo(p, q)
                    /\ \A f : Comparison(p, q, f)' = Comparison(p, q, f)
      BY <3>1 DEF ComparisonsUpTo, Comparison
    <3> QED BY <3>1, <3>2, <3>3 DEF Sums
  <2> QED BY <2>1, <2>2, <2>3, <2>4 DEF ScoringNext
<1> QED BY <1>1, <1>2, PTL DEF ScoringSpec

\* For any teams, methods and result files, what is printed for a method sums
\* up every comparison of its team up to it, once and in order, and none of
\* another team; pixels and windows are summed over the same images.
THEOREM TeamsApartCorrect == ScoringSpec => []TeamsApart
<1>1. Sums => TeamsApart
  BY DEF Sums
<1> QED BY SumsInvariant, <1>1, PTL
=============================================================================
