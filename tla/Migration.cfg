SPECIFICATION Spec
CONSTANTS
  Tasks = {1, 2}
  Live = {"source", "destination"}
  MaxWrites = 4
  MaxRuns = 3
INVARIANT OneSnapshot
INVARIANT RecordBeforeHistory
CHECK_DEADLOCK FALSE
