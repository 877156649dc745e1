SPECIFICATION Spec
CONSTANTS
  Images <- MCImages
  Train <- MCTrain
  Step = 1
  Margin = 2
  IntegerBins = 2
INVARIANTS BoxesInsideImage SavedFitsTogether ComponentWindowsTight IntegralCountsWindow
CHECK_DEADLOCK FALSE
