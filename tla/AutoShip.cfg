\* Two processes of the hook, alone in the checkout or overlapping. Where the
\* worktree has been removed, the system stops.
SPECIFICATION Spec
CHECK_DEADLOCK FALSE
CONSTANTS
  Run = {r1, r2}
  None = None
  Modes <- BothModes
  Ttl = 1
  Stale = 2
  MaxTime = 4
  Budget <- SomeBudget
INVARIANTS
  TypeOK
  MergedIsGreen
  WorkKept
  OneSurface
PROPERTIES
  ArmEnds
