-------------------------- MODULE SystemEvaluation --------------------------
(***************************************************************************)
(* week3/system_evaluation.m: for each of three techniques the masks and   *)
(* the windows saved for the validation images are compared with the       *)
(* ground truth, and the mean of the per-image figures is reported.        *)
(*                                                                         *)
(* A list of windows is a MATLAB struct array: a sequence and its shape.   *)
(* Figures are kept as the counts they are computed from; a quotient is    *)
(* NaN when its denominator is zero.                                       *)
(***************************************************************************)
EXTENDS Figures, SequencesExt

CONSTANTS
  Techniques,     \* how many techniques are evaluated
  MaxImages,      \* the largest number of validation images
  Annotated,      \* the ground truth an image may have, lists of windows
  Saved           \* what a technique may have saved for an image

\* Validation images have a sign (they come from the features file), and
\* windowCand.m (lines 23-28) saves a window even if none qualifies.
ASSUME InputAssumption ==
  /\ Techniques \in Nat /\ MaxImages \in Nat
  /\ \A g \in Annotated : g \in Seq(Window) /\ Len(g) >= 1
  /\ \A s \in Saved : s.windows \in Seq(Window) /\ Len(s.windows) >= 1

VARIABLES
  images,        \* val_dataset: the image of every row of val_dataset.txt
  groundTruth,   \* image |-> bbox_gt
  saved,         \* technique |-> image |-> [mask, windows]
  tecnique, i,   \* the loop variables
  annotation,    \* the struct array the annotations are copied to
  evaluation,        \* pixel counts, one row per image
  performance_eval,  \* window counts, one row per image
  reports,       \* what has been written to the two result files
  pc

vars == <<images, groundTruth, saved, tecnique, i, annotation, evaluation,
          performance_eval, reports, pc>>
inputs == <<images, groundTruth, saved>>
-----------------------------------------------------------------------------
\* size(list,1).  windowCand.m fills windowCandidates(s) and this script
\* annotation(k), so both lists are rows: 1 x n.
Columns(list) == Len(list)              \* mutant: the whole list
Rows(list) == Smaller(1, Len(list))

\* for k=1:size(bbox_gt,1), annotation(k) = ...: elements past the end of
\* bbox_gt keep the values they have.
Overwrite(list, g) ==
  [k \in 1 .. Larger(Len(list), Len(g)) |-> IF k <= Len(g) THEN g[k] ELSE list[k]]

Compare(anns, dets) == CompareFirst(anns, Rows(anns), dets, Rows(dets))
-----------------------------------------------------------------------------
\* split_train_val_dataset.m (lines 115-125) writes a row per sign, so an image
\* with two signs is listed, and evaluated, twice.
ValDataset(gt) == FlattenSeq([im \in DOMAIN gt |-> [k \in DOMAIN gt[im] |-> im]])

Init ==
  /\ groundTruth \in UNION {[1 .. n -> Annotated] : n \in 0 .. MaxImages}
  /\ images = ValDataset(groundTruth)
  /\ saved \in [1 .. Techniques -> [DOMAIN groundTruth -> Saved]]
  /\ tecnique = 1 /\ i = 1
  /\ annotation = <<>>
  /\ evaluation = <<>> /\ performance_eval = <<>> /\ reports = <<>>
  /\ pc = "images"

\* One image: pixel counts, annotations, window counts.
EvaluateImage ==
  /\ pc = "images" /\ tecnique <= Techniques /\ i <= Len(images)
  /\ LET im == images[i]
         det == saved[tecnique][im]
     IN /\ evaluation' = Append(evaluation, PixelCounts(det.mask, GtCells(groundTruth[im])))
        /\ annotation' = Overwrite(annotation, groundTruth[im])
        /\ performance_eval' = Append(performance_eval, Compare(annotation', det.windows))
  /\ i' = i + 1
  /\ UNCHANGED <<inputs, tecnique, reports, pc>>

\* mean() averages the rows of a matrix; of a matrix with one row, or none, it
\* returns a single number.
MeanIsRow(table) == Len(table) >= 2

\* Mutant: the tables are not emptied for the next technique.
ReportAndKeep ==
  /\ pc = "images" /\ tecnique <= Techniques /\ i > Len(images) /\ MeanIsRow(evaluation)
  /\ reports' = Append(reports, [pixel |-> evaluation, window |-> performance_eval])
  /\ tecnique' = tecnique + 1 /\ i' = 1
  /\ UNCHANGED <<inputs, annotation, evaluation, performance_eval, pc>>

\* The means are written, or the script stops on the second element of a mean
\* that is a single number.
ReportTechnique ==
  /\ pc = "images" /\ tecnique <= Techniques /\ i > Len(images)
  /\ IF MeanIsRow(evaluation)
     THEN /\ reports' = Append(reports, [pixel |-> evaluation, window |-> performance_eval])
          /\ tecnique' = tecnique + 1 /\ i' = 1
          /\ evaluation' = <<>> /\ performance_eval' = <<>>
          /\ UNCHANGED pc
     ELSE /\ pc' = "error"
          /\ UNCHANGED <<tecnique, i, evaluation, performance_eval, reports>>
  /\ UNCHANGED <<inputs, annotation>>

Finish ==
  /\ pc = "images" /\ tecnique > Techniques
  /\ pc' = "done"
  /\ UNCHANGED <<inputs, tecnique, i, annotation, evaluation, performance_eval, reports>>

Next == EvaluateImage \/ ReportTechnique \/ Finish

Spec == Init /\ [][Next]_vars
-----------------------------------------------------------------------------
\* The window counts of an image depend on its own windows alone: although
\* annotation is not cleared between images (line 29), what is left in it from
\* an image with more signs is never compared with the detections of this one.
NoStaleAnnotation ==
  pc = "images" =>
    \A k \in DOMAIN performance_eval :
      performance_eval[k] = Compare(groundTruth[images[k]], saved[tecnique][images[k]].windows)

\* What an image adds when no window after the first of either list exists.
OnlyFirst(g, d) ==
  LET hit == IF OverlapsByHalf(g[1], d[1]) THEN 1 ELSE 0
  IN [TP |-> hit, FN |-> 1 - hit, FP |-> 1 - hit]

\* Every technique is reported unless val_dataset.txt has fewer than two rows,
\* where the means are not rows.  A report averages one row per listed image,
\* all of the same technique (lines 12-45).  Its window counts are those of one
\* annotation against one detection, the first of each list, however many signs
\* the image has and however many windows were saved: line 35 passes rows to a
\* function that counts rows.  So no window figure is NaN.
EveryTechniqueReported ==
  /\ pc = "error" => Len(images) < 2
  /\ pc = "done" => Len(reports) = Techniques
  /\ \A t \in DOMAIN reports :
       /\ Len(reports[t].pixel) = Len(images) /\ Len(reports[t].window) = Len(images)
       /\ \A k \in DOMAIN images :
            LET r == reports[t].window[k]
                g == groundTruth[images[k]]
            IN /\ reports[t].pixel[k] = PixelCounts(saved[t][images[k]].mask, GtCells(g))
               /\ r = OnlyFirst(g, saved[t][images[k]].windows)
               /\ Defined(Precision(r)) /\ Defined(Recall(r))
=============================================================================
