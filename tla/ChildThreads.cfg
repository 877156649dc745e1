SPECIFICATION Spec
CONSTANTS
  Programs <- MCPrograms
  Processors <- MCProcessors
INVARIANTS ProcessorsRespected
PROPERTIES IsParallelRun ComesToItsEnd
CHECK_DEADLOCK FALSE
