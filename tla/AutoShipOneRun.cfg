\* Two processes of the hook that overlap: the PID gate does not hold.
SPECIFICATION Spec
CHECK_DEADLOCK FALSE
CONSTANTS
  Run = {r1, r2}
  None = None
  Modes <- Overlapping
  Ttl = 1
  Stale = 2
  MaxTime = 4
  Budget <- SomeBudget
INVARIANT
  OneRun
