------------------------ MODULE CandidateGeneration4 ------------------------
(***************************************************************************)
(* week4/CandidateGenerationPixel_v4.m with evaluation switched on: for    *)
(* either method and every image the segmented mask is cut down to the     *)
(* connected components that pass windowCand_v2.m (its case 2), in the     *)
(* second method also to those that compare_windows.m finds to look like a *)
(* template; mask and windows are saved and compared with the ground       *)
(* truth, and a line of means is written per method.                       *)
(*                                                                         *)
(* A list of windows is a MATLAB struct array: a sequence, and whether it  *)
(* lies in a row.                                                          *)
(***************************************************************************)
EXTENDS CandidateState, Figures, Positions, SequencesExt

CONSTANTS
  Files,    \* the lists of images there may be; an image has a size w, h, the
            \* pixels on of its segmentation, its true mask gt, and its signs
  Limits    \* what windowCand_v2.m asks of a window: smallest w and h, and the
            \* bounds of form factor ff and filling ratio fr

\* The images are the annotated ones: each has a sign.
ASSUME FilesAssumption ==
  \A files \in Files :
    /\ files \in Seq([w : Nat, h : Nat, on : SUBSET (Nat \X Nat), gt : SUBSET (Nat \X Nat),
                     signs : Seq(Window)])
    /\ Len(files) >= 1
    /\ \A k \in DOMAIN files :
         /\ files[k].on \subseteq Canvas(files[k])
         /\ files[k].gt \subseteq Canvas(files[k]) /\ files[k].gt # {}
         /\ Len(files[k].signs) >= 1

\* The loop over the images is within one over the methods, of which the second
\* compares windows.  windowCandidates is [list, row].
VARIABLES
  files,               \* the images of the directory
  i,                   \* the inner loop variable
  evaluation,          \* pixel counts per image, allocated once
  windows,             \* wTP, wFN, wFP: window counts per image, allocated once
  saved,               \* method |-> what has been saved for each image
  reports              \* the lines of eval_results.txt

generationVars == <<files, method, i, im_seg, windowCandidates, evaluation, windows, saved, reports, pc>>
-----------------------------------------------------------------------------
\* size(list,1) and size(list,2).
RowsOnly(c) == Len(c.list)   \* mutant: the length, whatever the shape
Rows(c) == IF c.row THEN 1 ELSE Len(c.list)
Columns(c) == IF c.row THEN Len(c.list) ELSE Smaller(1, Len(c.list))

\* Components are numbered by their first pixel, column by column.
FirstPixel(img, P) == Min({p[1] * (img.h + 1) + p[2] : p \in P})
BoundingBoxes(img) ==
  LET comps == PixelComponents(img.on)
      first == Ascending({FirstPixel(img, P) : P \in comps})
  IN [k \in DOMAIN first |-> Bounds(CHOOSE P \in comps : FirstPixel(img, P) = first[k])]

Passes(mask, b) ==
  /\ b.w >= Limits.w /\ b.h >= Limits.h
  /\ Between(b.w, b.h, Limits.ff)
  /\ Between(AreaOn(mask, b), b.w * b.h, Limits.fr)

NoCounts == [TP |-> 0, FP |-> 0, FN |-> 0]
SumOf(column) == MapThenSumSet(LAMBDA k : column[k], DOMAIN column)
Totals(table) ==
  [TP |-> SumOf([k \in DOMAIN table |-> table[k].TP]),
   FP |-> SumOf([k \in DOMAIN table |-> table[k].FP]),
   FN |-> SumOf([k \in DOMAIN table |-> table[k].FN])]
-----------------------------------------------------------------------------
GenerationInit ==
  /\ files \in Files
  /\ method = 1 /\ i = 1
  /\ im_seg = {} /\ windowCandidates = [list |-> <<>>, row |-> TRUE]
  /\ evaluation = [k \in DOMAIN files |-> NoCounts]
  /\ windows = [k \in DOMAIN files |-> NoCounts]
  /\ saved = <<<<>>, <<>>>> /\ reports = <<>>
  /\ pc = "filter"

\* The elements of a list that are in S, in order.
Those(list, S) == At(list, PositionsIn(list, S))

\* Segmentation and windowCand_v2.m: the windows that pass, and the mask in them.
Filtered(img) ==
  LET boxes == BoundingBoxes(img)
  IN OrSentinel(Those(boxes, {b \in Range(boxes) : Passes(img.on, b)}))
FilterWindows ==
  /\ pc = "filter" /\ i <= Len(files)
  /\ LET img == files[i]
     IN /\ windowCandidates' = [list |-> Filtered(img), row |-> TRUE]
        /\ im_seg' = img.on \cap Covered(Filtered(img))
  /\ pc' = IF method = 2 THEN "compare" ELSE "save"
  /\ UNCHANGED <<files, method, i, evaluation, windows, saved, reports>>

\* compare_windows.m: cands is a column of the windows that match a template;
\* an empty window matches none.  The mask is cut to the first size(cands,2)
\* of them, which is one if there is any.
AllMatchable(c) == Range(c.list)   \* mutant: an empty window is not left out
Matchable(c) == {b \in Range(c.list) : b.w > 0 /\ b.h > 0}
CompareWindows ==
  /\ pc = "compare"
  /\ \E match \in SUBSET Matchable(windowCandidates) :
       LET cands == [list |-> Those(windowCandidates.list, match), row |-> FALSE]
       IN /\ windowCandidates' = cands
          /\ im_seg' = im_seg \cap Covered(SubSeq(cands.list, 1, Columns(cands)))
  /\ pc' = "save"
  /\ UNCHANGED <<files, method, i, evaluation, windows, saved, reports>>

\* Mask and windows are saved, the counts of the image are entered.
AddedTo(old, new) ==   \* mutant: counts are added up in the table
  [TP |-> old.TP + new.TP, FP |-> old.FP + new.FP, FN |-> old.FN + new.FN]
Entered(old, new) == new
SaveAndEvaluate ==
  /\ pc = "save"
  /\ saved' = [saved EXCEPT ![method] =
                 Append(@, [mask |-> im_seg, windows |-> windowCandidates.list])]
  /\ evaluation' = [evaluation EXCEPT ![i] = Entered(@, PixelCounts(im_seg, files[i].gt))]
  /\ windows' = [windows EXCEPT ![i] =
                   Entered(@, CompareFirst(files[i].signs, Len(files[i].signs),
                                           windowCandidates.list, Rows(windowCandidates)))]
  /\ i' = i + 1 /\ pc' = "filter"
  /\ UNCHANGED <<files, method, im_seg, windowCandidates, reports>>

\* The line of a method.  The mean of a table with one row is a single number,
\* so its line of seven figures cannot be written.
MeanIsRow(table) == Len(table) # 1
ReportMethod ==
  /\ pc = "filter" /\ i > Len(files)
  /\ IF ~MeanIsRow(evaluation)
     THEN pc' = "error" /\ UNCHANGED <<method, i, reports>>
     ELSE /\ reports' = Append(reports, [pixel |-> evaluation, window |-> Totals(windows)])
          /\ method' = method + 1 /\ i' = 1
          /\ pc' = IF method = 2 THEN "done" ELSE "filter"
  /\ UNCHANGED <<files, im_seg, windowCandidates, evaluation, windows, saved>>

GenerationNext == FilterWindows \/ CompareWindows \/ SaveAndEvaluate \/ ReportMethod

GenerationSpec == GenerationInit /\ [][GenerationNext]_generationVars
-----------------------------------------------------------------------------
\* Comparing with templates only removes: what the second method saves for an
\* image is part of what the first one saved, never the window that stands for
\* none, and its mask is empty exactly if no window is left
\* (compare_windows.m, lines 21 and 27).
ComparisonOnlyRemoves ==
  \A k \in DOMAIN saved[2] :
    /\ Range(saved[2][k].windows) \subseteq Range(saved[1][k].windows) \ {Sentinel}
    /\ saved[2][k].mask \subseteq saved[1][k].mask
    /\ saved[2][k].mask = {} <=> saved[2][k].windows = <<>>

\* The line of a method is computed from what that method saved, although the
\* tables are allocated before the loop over methods (lines 24-27) and never
\* cleared.
FiguresOfOwnMethod ==
  \A m \in DOMAIN reports : \A k \in DOMAIN files :
    reports[m].pixel[k] = PixelCounts(saved[m][k].mask, files[k].gt)

\* No figure of a line is NaN, with one exception: the precision of windows,
\* when the second method has kept no window in any image.
FiguresDefined ==
  \A m \in DOMAIN reports :
    /\ \A k \in DOMAIN files :
         LET c == reports[m].pixel[k]
         IN Defined(PixelPrecision(c)) /\ Defined(Recall(c)) /\ Defined(F1(c))
    /\ LET c == reports[m].window
           kept == m = 1 \/ \E k \in DOMAIN files : saved[m][k].windows # <<>>
       IN Defined(Recall(c)) /\ Defined(F1(c)) /\ (Defined(Precision(c)) <=> kept)

\* How many windows a line counts: of the first method, whose lists are rows,
\* one per image, qualified or not; of the second all that were kept.
WindowsCounted ==
  \A m \in DOMAIN reports :
    reports[m].window.TP + reports[m].window.FP =
      IF m = 1 THEN Len(files)
      ELSE SumOf([k \in DOMAIN saved[m] |-> Len(saved[m][k].windows)])
=============================================================================
