\* One loop, one cycle after the other, and no crash.
SPECIFICATION Spec
CHECK_DEADLOCK FALSE
CONSTANTS
  Worker = {"w1"}
  Task = {"t1", "t2"}
  File = {"f1", "f2"}
  Claim <- LoopClaims
  Scope <- OneBranch
  Modes <- OneLoop
  Ttl = 1
  MaxTime = 2
  Cycles = 2
  Crashes = 0
INVARIANT
  ScopeAlwaysOwn
