SPECIFICATION Spec
CONSTANTS
  NLeaves = 4
  One = 3
  Maps <- MCMaps
INVARIANTS TablesAgree ForestGrows RegionsAreComponents LifeSpans
CHECK_DEADLOCK FALSE
