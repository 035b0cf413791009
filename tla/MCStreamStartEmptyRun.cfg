CONSTANTS
  StartModes = {"new"}
  Continuous = FALSE
  MaxVersion = 3
  MaxFaults = 1

SPECIFICATION Spec

INVARIANTS
  NoGapAfterEmptyRun
