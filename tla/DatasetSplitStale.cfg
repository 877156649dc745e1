SPECIFICATION Spec
CONSTANTS
  SignTypes <- AllTypes
  Datasets <- MCDatasets
  Draws <- MCDraws
INVARIANT ThreeSignsBalanced
CHECK_DEADLOCK FALSE
