# Traffic sign detection of Team 7: specifications and proofs

This directory holds TLA+ specifications of the traffic sign detection project
of Team 7 (course module M1 of the MCV master), the TLC configurations that
check them on small instances, and theorems about them that TLAPS checks.
File names below are relative to `src/`.

The project is a batch system: MATLAB scripts of the team, and the MCG package
for segmentation (`segment-ucm/MCG-PreTrained/`, called `mcg/` below), whose
core is MATLAB and MEX functions in C++.  Scripts read files, compute, and write
files that the next script reads.  What goes wrong in such code goes wrong in
loops: a value that should have been reset, an index that has gone stale, a
queue entry that is out of date, a table that must stay consistent with another
over many steps.  In one place threads run at the same time, the thread groups of
the BSR library under MCG.  The specifications are written for these hazards.

## Inventory

### The pipeline

1. `extract_features.m` reads the annotations and masks of the training images
   and writes one row of features per sign.
2. `split_train_val_dataset.m` divides the annotated images into a train and a
   validation set and writes the feature rows of either to a file.
3. `segmentation_values_v2.m`, `segmentation_values_v4.m`,
   `BackProjectionTrain.m` derive thresholds and histograms from the train set.
4. `CandidateGenerationPixel_*.m` (root, `week3/`, `week4/`, `week5/`) segment an
   image by colour, clean the mask by morphology, find windows by connected
   components or by sliding a window, filter them (`windowCand*.m`), merge them
   (`merge_bboxes.m`) and compare them with templates.  Masks and windows are
   saved per image and method.
5. `week3/system_evaluation.m` compares what was saved for the validation images
   with the ground truth.  `compute_results.m` does the same for the submissions
   of all teams on the test set.  Both rest on the functions of `evaluation/`.
6. In week 5, images are also segmented by `segment-ucm/`, which calls
   `mcg/im2mcg.m`.  That function
   - finds contours and traces their sides (`mex_contour_sides`, on the BSR
     library with its thread groups);
   - merges the regions of a fine partition two by two, weakest mean contour
     first, into an ultrametric contour map (`ucm_mean_pb.cpp`);
   - turns maps into hierarchies of regions (`ucm2hier.m`, `mex_ucm2hier.cpp`);
   - takes sets of neighbouring regions as candidates for objects
     (`mex_get_tree_cands.cpp`), prunes the hierarchies to what the candidates
     need, intersects and stacks them into one (`fuse_bpts.m`), fills holes,
     computes features, removes near duplicates, ranks by a trained regressor and
     again for diversity (`mex_max_margin.cpp`), and returns labels and masks.

Components interact only through files (`train_dataset.txt`, `val_dataset.txt`,
saved masks and window lists, result files) and function calls.  Three such
seams matter here: the validation file has a row per *sign*, so the evaluation
counts an image with two signs twice; the window filter saves a list as a *row*
and a window of size zero when none qualifies; and the evaluation functions
assume lists are columns.  Inside MCG the seams are tables of labels: a region
has another number before and after pruning, intersecting and stacking, and some
functions count from zero.

### Components, their state, and what makes them correct

| Component | State it keeps | Operations | Correct when |
|---|---|---|---|
| Dataset split | rows dealt, the two sets as lists, four lists of positions | check shares, deal a type, collect images, rebalance twice, write files | no image is lost, duplicated or in both sets; the sets hold the shares asked for |
| Window overlap | none | overlap of two windows | equals intersection over union |
| Window matching | flags for detections and annotations, three counters | test a pair, next annotation, count | the counts cover each list; found and false ones do not depend on the order of the lists, misses only on that of the annotations |
| Validation evaluation | tables of one technique, an annotation array that is never cleared | evaluate an image, report a technique | a report depends on the technique's own images and windows |
| Submission scoring | running sums, indices into two directory listings | start a team, score a file, print a method | a line sums up the method it names, against the right images |
| Merge hierarchy (MCG) | contour groups, label tables in both directions, merging sequence, strengths | scan, gather, merge, output | the sequence is a tree whose regions are the components of the weaker contours |
| Candidate windows (week 3) | the mask, the boxes still to be tested, the windows that passed | find boxes by one of three methods, test a box, cut the mask | saved mask and saved windows fit together; nothing outside the image is read |
| Candidate generation (week 4) | mask and windows of an image, tables of counts that are never cleared, saved results, report lines | filter, compare with templates, save and evaluate, report a method | the second method only removes; a report is of its own method; no figure is NaN |
| Figures | none | pixel counts, precision, recall, F1 | defined whenever they are averaged |
| Region merging (MCG) | neighbour tables with sums, lengths and means, boundary lists, a queue whose entries go out of date, the map | skip an entry, merge two regions, complete the map | it joins an adjacent pair of least mean each time, ends with one region, and the map is ultrametric |
| UCM pruning (MCG) | none | threshold for a number of regions | the threshold is the least that leaves few enough |
| MCG candidate generation | a hierarchy cut from the top down, lists of candidates, label tables, overlaps kept up to date | undo a merging, prune, fuse, fill, compute features, reduce, score, rank, select | a candidate stays the same part of the image through every renumbering; the list is the coarsest there is, has no near duplicates and is ranked |
| BSR thread groups | a tree of threads with what each has to run, its processors, the exception it caught | run, do a job, start, join, exit, raise again | as if one thread had done all the jobs in order, whatever the interleaving; no more threads than processors |
| BSR read/write locks | mutexes, a count of readers | lock, unlock | not compiled into the program |
| Features, segmentation, morphology, template scores, mean shift, Hough | images | per-image functions | see "What is not modelled" |

### What is hard

Ordering matters in the matching of windows (greedy), in directory listings
walked in parallel, in the merging of regions (a queue that is never cleaned),
and in the ranking of candidates.  Tables that are updated by hand after every
merging must stay those of the image.  State that survives an iteration by
accident is the commonest hazard of the scripts.  Failure matters in one form:
MATLAB stops a script at the first error, with files half written, so it must be
known which inputs lead there; in the thread groups, an exception in one thread
must neither be lost nor leave the others waiting.  There is concurrency only in
those groups.  `PROJECT.json` lists each hazard at its line.

## The modules

### DatasetSplit (`split_train_val_dataset.m`)

An image is a number (the code sorts identifiers and uses only their order), a
row of the features file a pair of image and sign index.  The actions are the
sections of the function: `CheckShares` (lines 19-31, with its early return),
`DealType` once per sign type (32-41; `randperm` is a nondeterministic choice of
the subset that goes to train, which is all that lines 42-53 use of the order; `Draws`
says which subsets may come up, all of them unless there are too many to list),
`CollectImages` (42-53), `IndexMultiSigns` (57-87), `BalanceTwo` and
`BalanceThree` (88-107), which are one operator `Balance` with different
positions, and `WriteFiles` (110-127).  What MATLAB does with lists of positions is
in `Positions`, which `CandidateGeneration4` and the MCG modules use too.  `idx` is kept from `IndexMultiSigns` on,
as in the code, so `BalanceThree` works with positions that `BalanceTwo` has made
stale.  Indexing past the end of a list stops the function: `pc = "error"`.
`Round70` is `round(n * 0.7)` in doubles, where `0.7` is a little less than seven
tenths: when `n` ends in five the product is rounded up only if it comes out as a half
exactly, which depends on the power of two below it (`HalfExact`).  `round(5 * 0.7)` is 4,
but `round(45 * 0.7)` is 31.  The shares `round(n * 0.3)` are not affected.
Not modelled: the feature values other than image and sign type, and the
difference between the three features files the function names
(the argument, `train_features.txt` at line 61, `image_features.txt` at line
111), which are taken to have the same rows.

### Windows (`evaluation/RoiOverlapping.m`)

Pure operators on integer windows.  The quotient compared with 0.5 is kept as
two integers; a positive intersection over a zero union is infinite and passes,
over a negative union it does not.  The reference definition counts unit cells.
The commented-out test for empty windows is left out.  `Window` is the set of records
the other modules take windows from.  `Nested` tells the pairs
for which the code's span is longer than the intersection.

### Matching and WindowMatching (`evaluation/PerformanceAccumulationWindow.m`)

`WindowMatching` has the two loops as `TestPair` and `NextAnnotation` and the
counting at the end as `CountUnused`.  The overlaps are one arbitrary relation
`hit`, so the module speaks of every set of windows there can be.  `Matching`
states in closed form what the loops come to: a detection is used if any
annotation overlaps it, an annotation if it is the first to overlap some
detection.  `CountsAreClosedForm` says the loops compute it, and it is proved;
`SystemEvaluation` and `CandidateGeneration4` then use the closed form as their
call of the function.  `OrderOfLists` says what the order of the lists has to do with the
counts: the misses depend on that of the annotations, since a detection over
two of them is claimed by the first.

`WindowEvaluation` puts the two components together: the windows are chosen and
`hit` is what `RoiOverlapping` says of them, as in the program.  `MCWindowMatching`
gives it windows.

### SystemEvaluation (`week3/system_evaluation.m`)

`EvaluateImage` is an iteration of the loop over the rows of `val_dataset.txt`,
`ReportTechnique` the end of that loop, where the means are written or the
script stops because `mean` of a one-row table is a scalar.  `annotation` is
overwritten element by element and never cleared.  A window list carries the
shape the code gives it: `Rows` is `size(list,1)`, which is 1 for the struct
arrays that `windowCand.m` and line 30 build.  Windows are real windows here, so
overlaps are those of `Windows`.  Not modelled: missing files, and the
quotients, which are kept as the counts they are made of.

### Figures (`evaluation/PerformanceAccumulationPixel.m`, `week4/PerformanceEvaluation*_v2.m`)

Operators for the counts of a mask or a list of windows and the quotients made
of them, shared by the two evaluations.  A quotient is a pair, so that the
property that it is defined can be stated.  `PixelPrecision` is the week-4
function with its patch, which makes the precision of an image zero when it has
no false positive: an empty mask no longer gives NaN (in week 3 it does, and the mean of a technique
with it), but a perfect one gets zero.

### Boxes and CandidateWindows (week 3)

`Boxes` has what weeks 3 and 4 share: connected components, their bounding
boxes (with MATLAB's half-pixel corners rounded to whole ones), ratios compared
by multiplication, the 0 x 0 window at (1, 1) that stands for none, the mask of
a list of windows.  `CandidateWindows` is `week3/CandidateGenerationPixel_v3.m`
from line 175 on.  The segmentation before it is an arbitrary mask.  `FindBoxes`
is the search by connected components, by sliding windows or by sliding windows
over the integral image, with `merge_bboxes.m`; `TestBox` is an iteration of
`windowCand.m`, in any order (the order decides only that of the saved list);
`CutMask` is its end.  `find_candidates` sums the same mask in two ways,
`WindowSum` and `integral_image`; the first sums a row and a column more than
the second and both divide by the same area.  Step 10 and margin 5 are the
constants `Step` and `Margin`.  `merge_bboxes.m` drops the groups of one with the
automatic bins of `histcounts`, which are one per group only while the group numbers
span at most 50 (`IntegerBins` groups, 51); beyond, the bins are those of Scott's rule,
and the model lets any groups be dropped, and the dropping itself fail on a bin past the
last group.  The variables that the scripts of both weeks keep
are declared in `CandidateState`.

### CandidateGeneration4 (`week4/CandidateGenerationPixel_v4.m`)

With `eval_results` set.  `FilterWindows` is lines 30-107, with case 2 of
`windowCand_v2.m`, `CompareWindows` is `compare_windows.m`, where the correlation
with templates is an arbitrary choice of non-empty windows, `SaveAndEvaluate` is
lines 126-162 and `ReportMethod` lines 165-188.  Both methods use the same
segmentation parameters, so the masks before filtering are the same.  The tables
of counts are overwritten element by element and never cleared.  A list carries
its orientation, because the filter builds rows and the comparison columns:
`WindowsCounted` says what becomes of that in the counts, and `CompareWindows`
that the mask of the second method keeps only the first of its windows.  The
specification is called `GenerationSpec`, so that its proofs can be in one module
with those of week 3.

### ComputeResults (`compute_results.m`)

`StartTeam`, `ScoreFile`, `PrintMethod`, `NextTeam`, `Close` follow the three
nested loops.  A running sum is abstracted to the sequence of comparisons added
to it; thus it can be seen whose images a printed line counts.  A missing `.mat`
file would stop the script as a missing test file does and is not modelled
separately.  `step` is the program counter and the specification is called
`ScoringSpec`, so that one module can speak of both scripts that score results.

### MergeHierarchy (`.../src/aux/mex_ucm2hier.cpp`)

A contour is the set of leaves on its two sides and its strength.  `ScanContour`
is one step of the scans of lines 92-149, which insert the two labels into the
groups of the contour's strength; `NextStrength`, `GatherRegions`,
`MergeRegions`, `EndOfStrength` are the loops of lines 184-237, `Output` is lines
238-267 with the "Oh oh" check.  A list of label sets is a set of them: the place
in the list decides only which of the parents made at one strength gets the
lower label, so the specification allows every order.  For the same reason the
scan takes contours in any order.

`InputAssumption` says that the leaves are connected by the contours.  It comes
from `ucm2hier.m` lines 39-49: the leaves are the parts of the image that no
contour of positive strength crosses, so neighbouring leaves have a contour of
positive strength between them, and an image is in one piece.

### Quotients, GreedyMerging and RegionMerging (`mcg/src/bsr/ucm_mean_pb.cpp`)

`Quotients` has the mean of integer strengths as a quotient in lowest terms.  It
stands for the doubles of the program, which are equal exactly when the quotients
are, since the sums are small integers and one division is rounded correctly.
The tolerance of 1e-9 with which the energies are compared (line 311) is thus `<=`.

`RegionMerging` is the function from the initial tables (`Init`, `compute_ucm` up
to the loop) through the loop (`SkipStale`, `MergeTop`) to the completion of the map
(`Complete`).  Places are those of the program's grid of twice the size and one
more.  `MergeTop` is an iteration with `Region::merge` and everything the loop
does after it: `MergedBoundary`, `Raised`, `UpdatedNeighbors` and `Pushed` are one
operator each, with the dead entries that the code leaves in the tables of third
regions.  The queue is a set of entries ordered by energy and the two labels: a
second copy of an entry comes up right after the first, when it is out of date
whatever the first did.  The error return ("THIS IS NOT AN ULTRAMETRIC") is a
state of its own.  `BoundaryAssumption` says that every region has a neighbour: line
273 reads the first element of each boundary without asking for one.

`GreedyMerging` is the promise without a queue or tables: join, again and
again, two adjacent regions of least mean strength.  `RegionMerging` is mapped
to it by taking a region for the set of initial regions it is made of.

### UcmPruning (`mcg/src/cands/mex_prune_ucm_nregs.cpp`)

Operators only, since the function keeps nothing: from a map to the threshold that
leaves at most `nreg_max` regions.  It is a tool of the package that none of its
scripts calls.  `MCRegionMerging` applies it to the maps that the merging returns.

### RegionTrees, TreeCandidates, FusedHierarchy, HoleFilling, RegionFeatures, Proposals (`mcg/im2mcg.m`, `mcg/src/cands/`, `mcg/src/aux/`)

`RegionTrees` has hierarchies as MCG passes them around, and what several MEX
functions compute from them before their own work: neighbours on every level,
descendants, siblings, ascendants, leaves.  Labels count from one; the functions
that count from zero are called with all labels less one and add one to their results.

| Module | Code | How |
|---|---|---|
| `TreeCandidates` | `mex_get_tree_cands.cpp` | `UndoMerging` is an iteration of the sweep from the top of the tree, with the sizes no longer looked for and the early end |
| `FusedHierarchy` | `mex_prune_tree_to_regions.cpp`, `mex_intersect_hierarchies.cpp`, `fuse_bpts.m` | operators from hierarchies to hierarchies, each with its table of old labels |
| `HoleFilling` | `mex_hole_filling.cpp` | an operator from a candidate to its filled form and complement |
| `RegionFeatures` | `compute_base_features.m`, `mex_fast_features.cpp`, `mex_fast_intersections.cpp`, `mex_fast_reduction.cpp`, `mex_base_perimeters.cpp` | operators for areas, boxes, intersections, perimeters, and the removal of near duplicates |
| `Proposals` | `im2mcg.m`, `full_cands_from_hiers.m`, `mex_max_margin.cpp`, `cands2labels.m`, `cands2masks.m` | one action per stage, with the error returns; the ranking one selection at a time |

The regressor is an arbitrary function `regRF_predict` of the number of regions,
area, balance and box, for each of the `Forests`.  Features made of contour
strengths are left out, and so is the part of `mex_intersect_hierarchies.cpp` for
merging sequences, because `fuse_bpts.m` calls it without them.

### ParallelRun and ChildThreads (`mcg/src/external/BSR/src/concurrent/threads/`)

`ParallelRun` is what `child_thread::run` promises its caller: each job at most
once and none afterwards, and an end as if one thread had done all of them in
order, with the exception of the first job that fails.  `ChildThreads` is
`child_thread.cc` on top of `thread.cc`.  A runnable is a job or calls `run`
itself, on two runnables (`pairs`) or on a collection; runnables are numbered in
the order of a single thread, which is what `NumberingAssumption` says: the `Scope`
of a runnable, all that it comes to, is an interval of numbers that its kids
divide in order.  A thread is named by the way down to it.  `Run` is
the call with its division of work and processors (one thread, two threads, a
thread each, or groups), `StartThread` and `JoinThread` are iterations of the two
loops of `start`, `Exit` is the end of `thread_run`, where the join lock is
released, and `Rethrow` what follows the joins.  A failing job empties what its
thread had still to do.  `n_processors_main` is 1 in the program as it is built, so
there a collection runs as a single group in one new thread, although the comment
on it (`thread.cc`, above `n_processors_main`) speaks of the actual number.
`pthread_create` is assumed to succeed, since the code does not look at its
result.  That the join lock is released by another thread than the one that took it
works with the default mutex of Linux and is taken for granted.

## The runs

| Run | Shows | Bounds and why they are enough |
|---|---|---|
| `split` | every image is in exactly one set through both rebalancings, train gets at least 70% of each type, two-sign images are balanced exactly, files follow the sets, the function gives up exactly when both shares of some count are rounded up | five datasets of at most seven images and all deals of their signs: both directions of both moves, stale positions inside and beyond the list, two types of unequal shares, and the abort; and one with 45 signs of a type, of which as many successive ones are dealt as there are places to begin, where doubles keep the function from giving up |
| `split_three` | the three-sign images are not balanced (finding) | same |
| `matching` | the loops come to the closed form, which depends on the order of the lists in the misses alone, and the counts are those of windows counted cell by cell unless a window lies inside another along an axis | two annotations from a square, a cross-beam and a tall window, three detections, one of them any window with corner up to 2 and sides up to 3: two spans can lie in every order, and several detections compete for an annotation; the theorems cover every overlap relation |
| `evaluation` | what the annotation array keeps never reaches a count, every technique is reported, from its own images and with only the first window of either list counted, unless there are fewer than two rows | up to two images of one or two signs, two techniques, three kinds of saved results; a third image adds no new kind of leftover because the array only grows |
| `results` | sums never pass from a team to the next, pixels and windows are summed over the same images | all triples of five kinds of submission: complete, with a file missing, with one too many, empty |
| `windows` | no box reaches out of the image, saved windows and mask fit together, component windows are tight, the integral image counts its window | all 4096 masks of a 4 x 3 image and four larger ones with several groups of windows, a lone one, or more groups than `IntegerBins`, which is 2 here; step 1 and margin 2 put windows at every place up to the border, two sizes in either direction |
| `generation` | the second method only removes, each line is from its own method's results, which windows are counted, when a figure is NaN | all lists of up to three images of six kinds (exact, two signs, three boxes, nothing, no qualifying box, a component inside another's box) and all outcomes of the comparison: one image more than needed for a stale row |
| `hierarchy` | label tables agree, the merging sequence is a forest, regions are components, life spans are proper | all connected contour maps of four leaves with at most one contour per border and three strengths, and a map with two strengths on a border and contours inside a region; the theorems cover all sizes |
| `merging` | the tables follow the image, no adjacent pair is forgotten, the map is ultrametric and its contours close, a contour inside a region is never raised again; the lazy queue implements `GreedyMerging`; the loop ends with one region; pruning finds the least threshold | three partitions of a 3 x 2 image, one of them into single pixels and two with larger regions, and every strength 0, 1, 2 at every place: equal means, zero means, means of several contours, entries out of date in every way, a region surrounded by others |
| `threads` | nested groups do each job at most once and end as one thread would, with the right exception; no more threads work than there are processors; the call ends | a collection of five, a tree of pairs like that of `matrix_resizer`, and a collection with a pair and a collection inside; one to five processors (fewer than, as many as and more than runnables); every set of failing jobs; every interleaving |
| `proposals` | candidates are the coarsest there are and keep their pixels, holes are filled, duplicates removed, overlaps up to date, and labels, masks and features belong together; the script stops only on a hierarchy that needs nothing but its root, or when none is asked for anything | all hierarchies of three partitions of a 3 x 3 image into four and five leaves, one with a region inside, alone or two together, with merging of two to four regions; no, few or all candidates wanted; three regressors, one that gives every candidate the same score |
| `perimeters` | the perimeter of a candidate is not the length of its contour (finding) | same |

Some disagreements between code and comments are not runs of their own.  They are
described here, and where a property is named it holds only in the form that
allows for them.

- `system_evaluation.m` line 35 passes rows of windows to a function that counts rows
  (`size(list,1)`), so of the saved and the annotated windows of an image only the
  first count, although `PerformanceAccumulationWindow.m` lines 7-8 speak of columns
  `[ struct ; struct ; ... ]` and `compute_results.m` lines 63-66 transpose their list.
  `EveryTechniqueReported` states what is counted, without the helper that reads the
  number of rows.
- Nested windows are overestimated, although `RoiOverlapping.m` line 3 speaks of
  intersection over union (`CountsAreTrueUnlessNested`).
- In `compute_results.m` the sums are set to zero per team (line 28), so the line
  printed for a second method (line 82) includes the first one's images.
- Drawing the merged boxes fails when a window is alone (`week3/merge_bboxes.m` line
  36; `BoxesInsideImage` says the function fails only so, or with too many groups).
- Several detections of one object are as many true positives (`ListsCovered` is
  an inequality for that reason).
- A missing result file shifts the ground truth of the rest.  The script only prints the
  number of files, which "should be the same" (line 38), and nothing says what it should
  do otherwise; `TeamsApart` pairs by position as the script does and does not catch this.
- The precision of a perfect mask is zero in week 4.

### Fairness and deadlock

`RegionMerging` and `ChildThreads` assume `WF_vars(Next)`: some step is taken as
long as one can be.  The first is a sequential function, which goes on until it
returns.  In the second, the steps are those of several threads, and the
assumption is only that the system does not leave all of them standing; each step
is a job, the start of a thread, a join that can be made or an end, so that
fairness to each thread is not needed for the outermost call to end.  A job is
taken to end: what a job computes is not modelled.  No other specification has a
liveness property or assumes fairness; their loops are bounded by the lengths of
their inputs.  `CHECK_DEADLOCK FALSE` is given everywhere because every one of
these programs ends; that the threads cannot end by blocking is what
`ComesToItsEnd` says.

## What is proved

All of what follows holds for every value of the constants; the invariants were
checked by TLC before they were proved.  What is assumed are the named
assumptions of the modules, which TLC evaluates on each instance:
`SizesAssumption`, `CasesAssumption` (windows have integer corners and sizes
that are not negative), `InputAssumption` of `SystemEvaluation` (lists of windows),
of `CandidateWindows` (masks are inside images, the greatest sign of the train set is larger
than the margin, and a sign is filled to more than nothing) and of `MergeHierarchy`,
`FilesAssumption` (each image of week 4 is annotated, within its size), `ConfigAssumption` of `ComputeResults`, `ImageAssumption`, `BoundaryAssumption`,
`DatasetAssumption`, `ProcessorsAssumption`, `ProgramsAssumption` and
`NumberingAssumption`.

### Window matching (`WindowMatchingProofs`)

For all `NA` and `ND`: the type invariant, the loop invariant `LoopInv` and its
consequences.  `LoopInv` is inductive with `TypeOK`: it describes the flags
by the pairs tested so far, so that a step adds the pair `(i, j)` to both sides.
Why `annotationsUsed` needs the phrase "first to overlap" is the crux: a detection
is claimed by the first annotation in the outer loop that overlaps it, so a later
annotation gets its flag only from a detection no earlier one overlaps.  That no
object is lost (`TP + FN >= NA`) rests on an injection: each used annotation was
the first over some detection, and no two over the same.

`OrderExplained`: reordering both lists carries the overlaps over one to one
(`Moved`), so as many detections are used as before.  The annotations used are the
first ones over a detection.  Two orders of the annotations can disagree only about the
detections that overlap several, and each of these is one annotation in either order,
so the misses differ by no more than there are such detections; and when only the
detections are reordered the first annotation of each stays what it was.

For all windows (`CountsAreTrue`): what the code takes for the common span of two
windows along an axis is never less than that, is the same unless one of them lies
strictly inside the other, and is at most half of both lengths together
(`SpanExact`).  The area it computes may thus be too large.  Even then the windows
that overlap by more than half, cell by cell, are found (`TrueOverlapsFound`): for two
windows that cross like beams the excess would have to make up for what is not
shared, and the arithmetic of `DifferencesBounded` shows it is less than both areas.
More pairs than there should be turn false positives into true ones, never the
reverse.

### Evaluation scripts (`EvaluationProofs`)

`SystemEvaluation`, for any number of techniques and images, any ground truth and
any list of windows saved.  The array of annotations is described by what it
begins with: the windows of the current image are always in front (`InputsOK`),
whatever is left behind them, and the count looks no further; this gives
`NoStaleAnnotation`.  `TablesOK` says what the tables of the current technique have
in the rows done so far and that every technique before has been reported.  With it
follows `EveryTechniqueReported`: a row counts one annotation against one detection,
the first of each (`OneOfEach`), so its figures are defined.

`ComputeResults`, for any teams, methods and lists of result files.  `Sums` says
that the running sum of a team is the list of its comparisons in the methods printed
before, followed by those of the current one, each once, in order and with the
ground truth in the same place.  `TeamsApart` is that at the end of a method.  Lists of
lists are joined by `FlattenSeq`, a recursion on their number; that it is defined, and
what it is when a list is added at the end, is proved by a least counterexample.

### Windows of weeks 3 and 4 (`CandidateProofs`)

Week 3, for every image, any train set, step and margin, and each of the three methods.
The invariant `WindowsOK` says that the boxes waiting to be tested stand for
groups of pixels of the mask, or of candidates that passed (`Group`), that the windows
kept are boxes of such groups and qualify on the mask *before* it is cut
(`Passed`), and that the mask is cut only at the end, to the windows saved or the
sentinel.  What it needs is about data:

1. `Components`, a fold in which a node joins the sets it has an edge to, divides
   its nodes into sets that are not empty and disjoint (`ComponentsDivide`).  The fold is
   a recursive function on sets of nodes, and both its existence and the fact are
   proved by a minimal set for which they fail.
2. The box of a finite set of pixels holds it, is as small as it can be, and is inside
   the image if the set is (`BoundsHold`).  A window that slides begins at most at
   the size of the image less its own, so that one a pixel wider still
   fits (`StartsInside`); together this is `BoxesInsideImage`, and the touching of
   all four sides is `ComponentWindowsTight`.
3. Cutting the mask to all windows leaves each of them as it was
   (`MaskWithinWindow`), and a window that passed is not empty; this gives
   `SavedFitsTogether`.
4. `IntegralCountsWindow` is inclusion and exclusion on four rectangles.

Week 4, for every list of annotated images, any limits of the filter and any choice
of windows that match a template.  The invariant `GenerationOK` says where the
two loops are (`LoopsOK`) and what has been done with the image in hand (`ImageOK`);
that every saved record is one that its method can leave of its image (`SavesOK`,
with `SavedBy`, which knows of no state); that the tables have the figures of the
current method in the rows done so far, and anything in the others
(`TablesOK`); and that a line is computed from what its method saved
(`ReportsOK`).  With it:

5. `FiguresOfOwnMethod` is `ReportsOK`: when a method ends, every row has been
   overwritten, which is why the tables need not be cleared.
6. `ComparisonOnlyRemoves` is about two records saved for the same image
   (`SecondKeepsPart`).  That a mask with windows left is not empty rests on 1 and 2:
   a window that passed the filter is the box of a component and has pixels of the mask
   in it, and the first of the windows left is one of these.
7. `WindowsCounted` adds up, image by image, that true and false positives are all
   detections (`WindowsMatched`, `TotalSum`, `TotalOnes`), and `FiguresDefined` that an
   annotation is found or missed; a sum of sizes is zero only if
   every list is empty (`TotalZero`).

### Merge hierarchy (`HierarchyProofs`)

For every number of leaves, strengths and every set of connected contour maps:
tables agree, waiting sets are disjoint and the merging sequence is a forest.
None of these is inductive alone.  The invariant `TreeInv` adds where in the loops
the state is (`Phases`) and that the regions made at the strength being merged are
the newest and are not waiting to be merged again (`Newest`); this is what makes a
parent strictly stronger than its children.

`ComponentsInv` adds what the loops have done and what they have still
to do: `Scanned` relates the groups to the contours scanned, `Gathering` and
`Merging` say that a set of leaves closed under the sets still waiting is closed
under the contours of the strength, and `AtRest` is the property proper.
Connectivity is stated by *closed sets* rather than by paths: two partitions of
the leaves are equal if they have the same closed sets.  No induction along a
path is then needed.  From it follow `RegionsAreComponents` and `LifeSpans`; the
latter uses the connectedness of the input for the single root.

### Candidates of a tree (`HierarchyProofs`, `DataProofs`)

`CoarsestFirst` for every tree, all neighbours and all numbers wanted.  A tree
(`IsTree` in `RegionTrees`) has its parents numbered after the leaves and merges every region
but the last one exactly once, which is what `full_cands_from_hiers.m` asserts of the
numbers of leaves and regions and `mex_ucm2hier` makes.

1. *Folds.*  A fold over a sequence is a function of the number of elements done
   (`Accumulates`, `FoldRuns` in `DataProofs`): it exists, and each value follows from the
   one before.  Every fact about a fold is then an induction over that number (`Climb`).
2. *The tables.*  Two descendant sets are nested or disjoint (`Laminar`); siblings and
   ascendants are read off the merging of a region; and the neighbours on all levels, which
   are built by adding pairs merging by merging, are symmetric
   (`DescendantsAre`, `SiblingsAre`, `AscendantsAre`, `NeighborsSymmetric`).
3. *One step.*  The regions of the partition the sweep is at, and those above it, are
   the ones `Shown`; the candidates made when a merging is undone are all those of regions
   shown that have one of its sons (`NewCandsAre`): a connected set with a son in it is
   reached from that son a region at a time, each a neighbour of those before, and every
   part of a candidate that is met on the way passes the filters too (`PartJoined`).
4. *The sweep.*  `SearchInv` says that each list has, in the order of their depth, every
   candidate that is not deeper than the sweep, or is full of candidates that are not deeper
   than those it lacks (`ListAt`).  A size that is no longer looked for stays full.  `CoarsestFirst`
   is that at the end.

### Pruned hierarchies (`HierarchyProofs`)

`StopsOnlyOnBareRoot` for all inputs of `Proposals`, which are a partition and a tree per
contour map, the partition labelled by the leaves of its tree (`HierarchyAssumption`).

1. *What is kept.*  The loop of `mex_prune_tree_to_regions` keeps a merging exactly if some
   region below its parent is needed (`KeptOf`, `NeededIsParent`), although it only looks at the sons
   and what it has marked before; the regions that become leaves are the greatest ones with nothing
   needed below them (`Bare`), and they are disjoint and cover the image
   (`BareAbove`, `BareDisjoint`).
2. *What is numbered.*  The labels met in the order of the scan list every value of a partition
   once (`FirstSeenLists`), so the table of old labels holds the regions kept, each once, a
   son before its parent, and "ERROR 2" is not reached (`PruneIs`); a pruned hierarchy is a
   hierarchy again, and its regions have the pixels they had (`PrunedIsHierarchy`, `PrunedPixels`).
3. *What is found.*  A needed region is kept, so every row is found in the new labels and "Oh oh" is
   not reached (`RowsFound`).  The rows lost are those of hierarchies left without mergings, which are
   those that need nothing but their root; the lengths that the assertion compares are equal
   only if there are none (`FlattenShorter`, `NoneLost`).  It compares whole sizes, so it also
   fails when no hierarchy is left, which without lost rows means that none needs anything
   (`SomeLeft`).

### Fused hierarchies (`HierarchyProofs`)

`CandidatesKeepPixels` for the same inputs: through pruning, intersecting, stacking and
renumbering every candidate keeps the pixels it was found with, and its place among the
candidates.

1. *Places.*  In lists that are joined the element `k` of list `ii` is at the place
   `k` plus the lengths before (`FlattenPlaces`), and the label `r` of hierarchy `ii` becomes
   `r` plus the sizes before (`OffsetsAre`): labels of two hierarchies do not meet.
2. *The stack.*  The parts of the intersection are told apart by the labels they have in each hierarchy
   (`IntersectionIs`).  The mergings of one hierarchy are, first, one for every leaf that
   joins the parts inside it and then its own, shifted (`StackIs`); all of them in order are
   a hierarchy over the intersection (`FusedIsHierarchy`), and a shifted region has exactly the
   pixels of the region it was (`FusedPixelsOf`).
3. *The rows.*  With `PrunedPixels` a row found in the table of its own hierarchy has the same
   pixels after pruning and after stacking (`RowPixels`, `RowsOfHierarchy`), and the rows that
   are joined correspond element by element (`FlattenAlike`, `CandidatesKept`).  That no hierarchy
   is skipped is `StopsAsStated`: the invariant `FusedInv` contains `StopInv`.

### Region merging (`RegionMergingProofs`, `DataProofs`)

For images of every size, every partition in which each region has a neighbour,
and all strengths.  Each link of the chain is inductive only with the ones before.

1. *Tables*.  Labels point to active regions, entries for
   neighbours are symmetric, boundary lists have only contours that are still between
   two regions (`BoundariesOutside`) and all of them (`BoundariesComplete`).  From the
   first follows `JoinedContoursFixed`, since only contours in a list are raised.
2. *Covered*: two regions with a table entry have a current entry in the queue.
   A merging puts entries out of date exactly for the neighbours it pushes again.
   This gives `NoPairForgotten`.
3. *Matched*: sums and lengths are those of the contours
   between two regions, because the contours between the new region and a third are the
   disjoint union of those of father and son.  This gives `TotalsMatchContours`.  Sums over
   a finite set are independent of the order because a minimal set for which they are
   not does not exist (`DataProofs`).
4. *EnergiesAscend*: no mean of two adjacent regions is below the energy merged last.  A
   new mean is the mediant of two old ones and so not below the lesser (`Mediant`).  This gives
   `AlwaysUltrametric`: the error return is unreachable.
5. *Live, Bounded, Closed*: raised strengths never exceed the
   current energy, and every contour raised lies on the boundary of a region all of
   whose boundary was raised to as much.  This gives `ClosedContours`.
6. *Refinement*: initial states map to initial states, `MergeTop` to `Join` and
   every other step to a stutter (`GreedyMergingCorrect`).  That the pair merged is of least
   mean among *all* adjacent pairs is where 2 (each has a current entry), 3 (its
   energy is the mean) and the order of the queue meet.
7. *One region at the end* (`OneRegionAtEnd`): when the queue is empty no contour
   lies between two regions, and a grid is connected.  Connectedness is proved by
   a least pixel of another label, which has a neighbour before it.

### Dataset split (`DatasetSplitProofs`)

For every features file with the sign types listed.  A set is handled as a list that
has every element once (`Lists`), which is preserved by concatenation, by cutting a
prefix and by deleting positions, as long as the positions are distinct and in range.
`Ascending` is such a list because an element's place is the number of smaller
ones.  The images collected are those of the rows dealt to train, and the rest (`SetsOK`,
`Kept`).  For the second rebalancing nothing is known of the kept positions
but that they are distinct: they are stale, so other images than those with
three signs may be moved, or an index may be out of range.  No image is lost
all the same (`PartitionCorrect`).  For the first one the positions are fresh, and
counting the images with two signs on either side shows that the exchange is
exact (`TwoSignsCorrect`).

`TrainQuotaCorrect`: both shares of a count are rounded up when it ends in five and seven
tenths of it are a half in doubles (`BothRoundedUp`); only then do they add up to more
than there is, and they never add up to less (`SharesAddUp`), which is when the
function gives up; otherwise a type that has been dealt has its share in train, and rows
are only added afterwards.  `FilesFollowImagesCorrect`: the rows written to a file
are those of the images in the set, in ascending order (`WrittenRows`), so the rows of
an image cannot be separated.

### BSR thread groups (`ChildThreadsProofs`)

For every tree of runnables, any number of processors and any jobs that fail.  The
invariant `Threads` has two parts: every thread but the first is a child of a
thread there is (`Tree`), and what a thread is doing agrees with the states of its
children (`Family`): none is left while it works, the first ones are started while it
starts, all are started while it joins, and those joined have ended.  A step
changes one thread and at most its children, so that only the families of that
thread, its parent and its children must be looked at.  New children may have the names of
old ones; then these have ended, and so have their own.

From the invariant, `SomeThreadGoesOn` follows by a look at the deepest thread that
is active: the child it would wait for is not active, so it has ended.
`NothingLeftRunning` follows by a look at the thread nearest to the outermost one among
those that have not ended: its parent has ended, and so would it have.

*Processors* (`ProcessorsAreRespected`).  The invariant `Shared` says that the
processors can be numbered so that each live thread has an interval of them
(`Placed`): the interval of a thread lies within that of the thread that called
it, and threads that are not above each other have disjoint ones.  Threads that
work are never above each other, so they are at most as many as there are
processors.  This replaces sums over the tree of threads.

*Refinement* (`ParallelRunCorrect`): `ChildThreads` implements `ParallelRun`.
`Pending` gives each thread that has not been taken over by its caller the jobs that
are its own, those of the list it was created with.  What it has done of them is
all that are no longer on its list, in order, or all up to the first that fails
(`Progress`); a thread that calls others has handed them the jobs of its next
runnable, divided among them in order; and threads that are not above each other
have no job in common.  A call, however it divides its list, deals out pieces of it
in order (`PiecesDeal`).  When the outermost call ends its own jobs are all
there are, so `Progress` is what `ParallelRun` promises of the outcome; only that end is
seen by the caller, every other step is a job or a stutter.

### Only model-checked

- *Liveness*: that the loop of the region merging ends (`BecomesOneRegion`) and that
  the thread groups come to their end (`ComesToItsEnd`).  Liveness under
  fairness is out of reach of the prover.  The safety half is proved, `OneRegionAtEnd` of
  the first and `SomeThreadGoesOn` of the second.
- *`PrunedToFit` and the properties of `Proposals` after `CandidatesKeepPixels`*: they are about what long
  compositions of folds return, and the library's induction theorems, which
  take an operator as a parameter, cannot be used with the provers at hand.  Each fold would
  need its own argument by a minimal counterexample.

## What is not modelled, and why

- *Image processing proper* (colour thresholds, histograms, correlation, mean
  shift, Hough, `colorspace/`, `circular_hough/`; in MCG the affinities, the
  eigenvectors and the contour detectors) computes with real numbers.  What it
  computes is outside model checking, and there is hardly any control around it:
  the results enter the models as arbitrary masks, strengths and scores.
- *Morphology and template search* (`mydilate.m`, `myerosion.m`,
  `corr_template_matching.m`) are loops over a single image without state.
- *Sign features, launch scripts, the front end of `segment-ucm/`*: input and output.
- *BSR read/write locks*: `build.m` does not compile `synchronized_rw`, and the
  containers that are used have the empty lock of `unsynchronized.cc`.  The rest of the
  library is containers and matrices.
- *`mex_contour_sides.cpp`* only converts arrays for the library; `mex_assess_one_sel.cpp`
  belongs to the benchmark, which the project does not run.
- `week2/` holds near copies of the files at the root, and `week4/`, `week5/` copies of
  week 3 with other constants; `test_submission.m` is a near copy of `compute_results.m`.

## Worth doing next

1. *Proofs* of `PrunedToFit`, which is about lists that are sorted and cut off; of
   `DuplicatesRemoved` and `ResultsFitTogether` of `Proposals`, which are about sums over rows and
   columns of pixels counted part by part.
2. *Local maxima of the template search* and dilation and erosion against their set definitions.
