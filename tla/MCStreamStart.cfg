CONSTANTS
  StartModes = {"new"}
  Continuous = FALSE
  MaxVersion = 4
  MaxFaults = 2

SPECIFICATION Spec

INVARIANTS
  NothingSkipped
  SkippedOnlyAtLaunch
  HistoryNotSent

PROPERTIES
  ImplementsDelivery
