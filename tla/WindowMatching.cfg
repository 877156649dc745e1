SPECIFICATION EvaluationSpec
CONSTANTS
  NA = 2
  ND = 3
  Corner = 2
  Side = 3
  Cases <- MCCases
INVARIANTS CountsAreClosedForm OrderOfLists CountsAreTrueUnlessNested
CHECK_DEADLOCK FALSE
