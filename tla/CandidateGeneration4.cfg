SPECIFICATION GenerationSpec
CONSTANTS
  Files <- MCFiles
  Limits <- MCLimits
INVARIANTS ComparisonOnlyRemoves FiguresOfOwnMethod FiguresDefined WindowsCounted
CHECK_DEADLOCK FALSE
