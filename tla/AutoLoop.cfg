\* A pool of two, and a pool of one (the kill switch, or HEAD not at
\* origin/main): runs of every mode, crashed and resumed.
SPECIFICATION FairSpec
\* Between runs nothing is left to do once MaxRuns are used up.
CHECK_DEADLOCK FALSE
CONSTANTS
  Task = {"a", "b", "c"}
  Pools <- BothPools
  Args <- EveryMode
  AttemptCap = 3
  MaxStreak = 2
  MaxRuns <- SomeRuns
INVARIANTS
  TypeOK
  NoOverrun
  AbortIsBlocked
  StreakCountsTasks
  CleanFinish
PROPERTIES
  NoRework
  ServesQueue
  RunEnds
