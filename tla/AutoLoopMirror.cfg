\* Open-ended runs on a pool of two: artifacts that cannot be mirrored.
SPECIFICATION Spec
CHECK_DEADLOCK FALSE
CONSTANTS
  Task = {"a", "b"}
  Pools <- Wide
  Args <- OpenOnly
  AttemptCap = 1
  MaxStreak = 1
  MaxRuns <- OneRun
INVARIANTS
  CompletedNotDeferred
