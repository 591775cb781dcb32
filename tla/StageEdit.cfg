CONSTANT Requests <- MCRequests
SPECIFICATION EditSpec
INVARIANTS NothingHalfApplied ReleasesStage RecordTellsTheTree
CHECK_DEADLOCK FALSE
