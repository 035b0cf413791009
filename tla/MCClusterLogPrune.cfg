CONSTANTS
  Dirs <- MCDirs
  Files <- MCFiles
  ClusterIds = {"c"}
  LOG_KINDS = {"driver", "eventlog"}
  EventLog = "eventlog"
  MaxFaults = 1
  MaxMoves = 2
SPECIFICATION MCSpec
INVARIANTS
  OnlyOldLogsGo
  GreenLeavesNoOldLog
  RaceIsNotAFailure
  ReportedOnce
