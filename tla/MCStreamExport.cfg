CONSTANTS
  NumBatches = 2
  MaxAttempts = 3
  MaxFaults = 2
  Polls = 1
  PruneEvery = 2
  Continuous = FALSE
  AckLoss = TRUE
  RelayFails = FALSE
  ReportsLost = FALSE

SPECIFICATION FairSpec

INVARIANTS
  SendIsAnnounced
  TotalsAreExact
  RowsOnce

PROPERTIES
  ImplementsDelivery
  AttemptsEnd
  BacklogIsExported
