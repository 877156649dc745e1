SPECIFICATION ProposalsSpec
CONSTANTS
  Sx = 3
  Sy = 3
  Inputs <- MCInputs
  J_th <- MCJ
  theta <- MCtheta
  Forests = {"large", "simple", "flat"}
  regRF_predict <- MCPredict
INVARIANTS CoarsestFirst StopsOnlyOnBareRoot CandidatesKeepPixels HolesFilled DuplicatesRemoved MarginsUpToDate ResultsFitTogether
CHECK_DEADLOCK FALSE
