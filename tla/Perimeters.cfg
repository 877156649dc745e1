SPECIFICATION ProposalsSpec
CONSTANTS
  Sx = 3
  Sy = 3
  Inputs <- MCInputs
  J_th <- MCJ
  theta <- MCtheta
  Forests = {"flat"}
  regRF_predict <- MCPredict
INVARIANT PerimetersAreContours
CHECK_DEADLOCK FALSE
