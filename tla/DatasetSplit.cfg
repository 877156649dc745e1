SPECIFICATION Spec
CONSTANTS
  SignTypes <- AllTypes
  Datasets <- MCDatasets
  Draws <- MCDraws
INVARIANTS Partition TrainQuota TwoSignsBalanced FilesFollowImages
CHECK_DEADLOCK FALSE
