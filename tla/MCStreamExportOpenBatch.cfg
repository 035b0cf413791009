CONSTANTS
  NumBatches = 1
  MaxAttempts = 2
  MaxFaults = 1
  Polls = 1
  PruneEvery = 2
  Continuous = FALSE
  AckLoss = FALSE
  RelayFails = FALSE
  ReportsLost = FALSE
SPECIFICATION Spec
INVARIANTS
  OpenBatchNeverFinished
