-------------------------- MODULE CandidateWindows --------------------------
(***************************************************************************)
(* The windows of an image in week 3: the part of                          *)
(* CandidateGenerationPixel_v3.m after segmentation (lines 175-200), with  *)
(* SlidingConnectedComponentLabeling.m, its variant _int.m on integral     *)
(* images, merge_bboxes.m and windowCand.m.  Boxes are found by one of     *)
(* three methods, tested one by one, and the mask is cut down to those     *)
(* that pass.                                                              *)
(*                                                                         *)
(* Drawing the boxes is modelled because it can fail.                      *)
(***************************************************************************)
EXTENDS CandidateState

CONSTANTS
  Images,     \* the segmented images there may be, [w, h, on]
  Train,      \* what the train set says of signs: w, h, ff, fr smallest and
              \* greatest, and slide, mean filling ratio minus and plus std
  Step,       \* the step of the sliding windows (10 in the code)
  Margin,     \* what the greater window is smaller than the greatest sign (5)
  IntegerBins \* groups up to which histcounts counts each by itself (51: a range
              \* of at most 50)

ASSUME InputAssumption ==
  /\ Step \in Nat \ {0} /\ Margin \in Nat /\ IntegerBins \in Nat
  /\ \A img \in Images : img.w \in Nat /\ img.h \in Nat /\ img.on \subseteq Canvas(img)
  /\ \A range \in {Train.w, Train.h} :
       range \in (Nat \ {0}) \X Nat /\ range[2] > Margin
  /\ Train.fr[1] \in (Nat \ {0}) \X Nat

\* The methods are 1, connected components; 2, sliding; 3, sliding over the
\* integral image.  windowCandidates has the windows that passed, and im_seg is
\* cut down at the end.
VARIABLES
  image,   \* the image with its segmentation
  show,    \* whether the boxes are drawn
  todo     \* the boxes not yet tested, as the groups they stand for

vars == <<image, method, show, todo, windowCandidates, im_seg, pc>>
-----------------------------------------------------------------------------
\* Pixels of the mask in columns J and rows I.
On(img, I, J) == Cardinality({p \in img.on : p[1] \in J /\ p[2] \in I})

\* sum(sum(img(i:i+size_i, j:j+size_j))).
WindowSum(img, i, j, si, sj) == On(img, i .. i + si, j .. j + sj)
\* cumsum(cumsum(img), 2), and integral_image on it.
Cumulated(img, x, y) == On(img, 1 .. x, 1 .. y)
WithoutCorner(img, x, y, sx, sy) ==   \* mutant: the corner is not added back
  Cumulated(img, x + sx, y + sy) - Cumulated(img, x, y + sy) - Cumulated(img, x + sx, y)
integral_image(img, x, y, sx, sy) ==
  Cumulated(img, x + sx, y + sy) - Cumulated(img, x, y + sy) - Cumulated(img, x + sx, y)
    + Cumulated(img, x, y)

\* The two window sizes along an axis: smallest sign, and greatest less Margin.
Sizes(range) == <<range[1], range[2] - Margin>>
\* The values of 1:step:length-size; FarStarts is a mutant, one position more.
FarStarts(length, size) == {p \in 1 .. length - size + 1 : (p - 1) % Step = 0}
Starts(length, size) == {p \in 1 .. length - size : (p - 1) % Step = 0}

\* find_candidates: a candidate is the number of its window size, its row and
\* its column; it passes if its filling ratio is near the mean.
FillingSum(img, m, c) ==
  IF m = 3
  THEN integral_image(img, c.i, c.j, Sizes(Train.h)[c.n], Sizes(Train.w)[c.n])
  ELSE WindowSum(img, c.i, c.j, Sizes(Train.h)[c.n], Sizes(Train.w)[c.n])
Positions(img, n) ==
  [n : {n}, i : Starts(img.h, Sizes(Train.h)[n]), j : Starts(img.w, Sizes(Train.w)[n])]
Candidates(img, m) ==
  {c \in Positions(img, 1) \cup Positions(img, 2) :
     Between(FillingSum(img, m, c), Sizes(Train.h)[c.n] * Sizes(Train.w)[c.n], Train.slide)}
-----------------------------------------------------------------------------
\* Candidates are connected if they share an area (overlapRatio > 0).
SlidingBox(c) == [x |-> c.j, y |-> c.i, w |-> Sizes(Train.w)[c.n], h |-> Sizes(Train.h)[c.n]]
Overlapping(c, d) == c # d /\ Meet(SlidingBox(c), SlidingBox(d))

\* What a group of pixels or candidates covers: its columns and its rows.
Covers(g) ==
  UNION {IF method = 1 THEN {p}
         ELSE (p.j .. p.j + Sizes(Train.w)[p.n]) \X (p.i .. p.i + Sizes(Train.h)[p.n]) : p \in g}
BoxOf(g) == Bounds(Covers(g))

Groups ==
  IF method = 1
  THEN PixelComponents(image.on)
  ELSE LET C == Candidates(image, method)
       IN Components(C, {e \in C \X C : Overlapping(e[1], e[2])})

\* Groups of one are dropped by a histogram of the group numbers (lines 29 and
\* 30).  When there are many groups its bins are as wide as Scott's rule makes
\* them and no longer one for each group, so any group may be dropped.
Crowded == method # 1 /\ Cardinality(Groups) > IntegerBins
Alone == {g \in Groups : method # 1 /\ Cardinality(g) = 1}
DroppedSets == IF Crowded THEN SUBSET Groups ELSE {Alone}

\* The test of windowCand.m, line 14.
Qualifies(mask, b) ==
  /\ b.w \in Train.w[1] .. Train.w[2] /\ b.h \in Train.h[1] .. Train.h[2]
  /\ Between(b.w, b.h, Train.ff)
  /\ Between(AreaOn(mask, b), b.w * b.h, Train.fr)
-----------------------------------------------------------------------------
Init ==
  /\ image \in Images /\ method \in 1 .. 3 /\ show \in BOOLEAN
  /\ todo = {} /\ windowCandidates = <<>> /\ im_seg = image.on
  /\ pc = "find"

\* The boxes: of the components of the mask, or of the groups of overlapping
\* candidates.  Drawing as many boxes as there were groups (merge_bboxes.m,
\* line 36) fails when some were dropped; and a bin beyond the last group, of
\* which there may be when they are many, is no row to drop.
FindBoxes ==
  /\ pc = "find"
  /\ \E dropped \in DroppedSets :
       /\ todo' = Groups \ dropped
       /\ \/ pc' = IF show /\ dropped # {} THEN "error" ELSE "test"
          \/ Crowded /\ pc' = "error"
  /\ UNCHANGED <<image, method, show, windowCandidates, im_seg>>

\* An iteration of windowCand.m; to read outside the image is an error.
TestBox ==
  /\ pc = "test"
  /\ \E g \in todo :
       /\ todo' = todo \ {g}
       /\ pc' = IF Cells(BoxOf(g)) \subseteq Canvas(image) THEN "test" ELSE "error"
       /\ windowCandidates' = IF Qualifies(im_seg, BoxOf(g))
                              THEN Append(windowCandidates, BoxOf(g)) ELSE windowCandidates
  /\ UNCHANGED <<image, method, show, im_seg>>

\* The windows to save and the mask within them.
WindowsToSave == OrSentinel(windowCandidates)
CutFirst ==   \* mutant: only the first window is kept in the mask
  /\ pc = "test" /\ todo = {}
  /\ windowCandidates' = WindowsToSave
  /\ im_seg' = im_seg \cap Cells(WindowsToSave[1])
  /\ pc' = "done"
  /\ UNCHANGED <<image, method, show, todo>>
CutMask ==
  /\ pc = "test" /\ todo = {}
  /\ windowCandidates' = WindowsToSave
  /\ im_seg' = im_seg \cap Covered(WindowsToSave)
  /\ pc' = "done"
  /\ UNCHANGED <<image, method, show, todo>>

Next == FindBoxes \/ TestBox \/ CutMask

Spec == Init /\ [][Next]_vars
-----------------------------------------------------------------------------
\* No box reaches out of the image, although the merged boxes are a pixel wider
\* than the windows merged and slide up to the border: the function only fails
\* while drawing, or with more groups than the histogram tells apart (lines 42
\* and 46 of SlidingConnectedComponentLabeling.m, lines 28 and 29 of
\* merge_bboxes.m, line 12 of windowCand.m).
BoxesInsideImage ==
  /\ \A g \in todo : Cells(BoxOf(g)) \subseteq Canvas(image)
  /\ pc = "error" => method # 1 /\ (show \/ Cardinality(Groups) > IntegerBins)

\* What is saved fits together: in the saved mask every saved window is filled
\* as a sign is, and the sentinel is saved exactly with an empty mask.
SavedFitsTogether ==
  pc = "done" =>
    /\ windowCandidates = <<Sentinel>> <=> im_seg = {}
    /\ im_seg # {} => \A k \in DOMAIN windowCandidates :
         Between(AreaOn(im_seg, windowCandidates[k]),
                 windowCandidates[k].w * windowCandidates[k].h, Train.fr)

\* Windows from connected components are tight: they begin and end at pixels of
\* the saved mask (the rounding of the half-pixel corners in line 180 of
\* CandidateGenerationPixel_v3.m is exact).
ComponentWindowsTight ==
  pc = "done" /\ method = 1 /\ im_seg # {} =>
    \A k \in DOMAIN windowCandidates :
      LET b == windowCandidates[k]
          inside == im_seg \cap Cells(b)
      IN /\ \E p, q \in inside : p[1] = b.x /\ q[1] = b.x + b.w - 1
         /\ \E p, q \in inside : p[2] = b.y /\ q[2] = b.y + b.h - 1

\* The four look-ups of the integral image count the pixels of a window of the
\* very size it is divided by, so a filling ratio cannot exceed one
\* (integral_image.m, line 20).
IntegralCountsWindow ==
  \A c \in Positions(image, 1) \cup Positions(image, 2) :
    LET si == Sizes(Train.h)[c.n]
        sj == Sizes(Train.w)[c.n]
    IN integral_image(image, c.i, c.j, si, sj)
         = On(image, c.i + 1 .. c.i + si, c.j + 1 .. c.j + sj)
=============================================================================
