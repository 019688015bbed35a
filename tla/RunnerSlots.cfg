\* Two workers, pairs of sessions, three permits. The queue runs empty, so the
\* threads may stop for good.
SPECIFICATION FairSpec
CHECK_DEADLOCK FALSE
CONSTANTS
  Worker = {"w1", "w2"}
  M = 3
  MaxBatch = 2
  Batch <- Pairs
  Timed = TRUE
  Capped = TRUE
  Tasks = 2
INVARIANTS
  TypeOK
  PermitsConserved
  NothingLeftBehind
  ChildrenHavePermits
PROPERTY
  CycleEnds
