CONSTANTS
  NumBatches = 3
  MaxAttempts = 2
  MaxFaults = 1
  Polls = 1
  PruneEvery = 2
  Continuous = TRUE
  AckLoss = TRUE
  RelayFails = TRUE
  ReportsLost = TRUE

SPECIFICATION Spec

INVARIANTS
  SuccessMeansDone
  CommittedIsLogged
  SummaryIsFresh
  NoReportSkipped
  RelaysPruned
