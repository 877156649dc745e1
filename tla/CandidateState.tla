--------------------------- MODULE CandidateState ---------------------------
(***************************************************************************)
(* The variables that CandidateGenerationPixel keeps in week 3 and in week *)
(* 4: what is being done to an image with which method, its mask and its   *)
(* windows.                                                                *)
(***************************************************************************)
EXTENDS Boxes, Sequences

VARIABLES
  method,             \* the method that finds the windows
  im_seg,             \* the mask of the image
  windowCandidates,   \* the windows that are kept
  pc
=============================================================================
