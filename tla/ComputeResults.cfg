SPECIFICATION ScoringSpec
CONSTANTS
  TestFiles <- MCTestFiles
  Submissions <- MCSubmissions
  Teams = 3
  window_evaluation = TRUE
INVARIANT TeamsApart
CHECK_DEADLOCK FALSE
