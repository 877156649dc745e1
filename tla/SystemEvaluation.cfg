SPECIFICATION Spec
CONSTANTS
  Techniques = 2
  MaxImages = 2
  Annotated <- MCAnnotated
  Saved <- MCSaved
INVARIANTS NoStaleAnnotation EveryTechniqueReported
CHECK_DEADLOCK FALSE
