CONSTANTS
  MaxErrors = 3

SPECIFICATION Spec

INVARIANTS
  RecordFailureStopsQuery
