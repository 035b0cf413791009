CONSTANTS
  MaxErrors = 3

SPECIFICATION FairSpec

INVARIANTS
  LoopInv
  NormalReturnIsClean
  EndIsRecorded
  UnloggedStreamIsStopped

PROPERTIES
  FailureEndsTheWait
  CleanEndEndsTheWait
