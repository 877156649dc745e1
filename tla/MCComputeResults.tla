-------------------------- MODULE MCComputeResults --------------------------
(***************************************************************************)
(* Instances of ComputeResults for TLC: complete submissions, one that     *)
(* lacks the first image, one with a file too many, and none at all.       *)
(***************************************************************************)
EXTENDS ComputeResults

MCTestFiles == <<1, 2>>
MCSubmissions ==
  {<<>>, <<<<1, 2>>>>, <<<<1, 2>>, <<1, 2>>>>, <<<<2>>, <<1>>>>, <<<<1, 2, 3>>>>}
=============================================================================
