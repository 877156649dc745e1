SPECIFICATION Spec
CONSTANTS
  Tx = 3
  Ty = 2
  Partitions <- MCPartitions
  MaxPb = 2
INVARIANTS TotalsMatchContours NoPairForgotten AlwaysUltrametric ClosedContours PrunedToFit
PROPERTIES JoinedContoursFixed IsGreedyMerging BecomesOneRegion
CHECK_DEADLOCK FALSE
