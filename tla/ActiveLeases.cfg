\* Two workers and three tasks in the pool, or one of each at a time; leases
\* that last one tick. All cycles may have been run, and the system stops.
SPECIFICATION Spec
CHECK_DEADLOCK FALSE
CONSTANTS
  Worker = {"w1", "w2"}
  Task = {"t1", "t2", "t3"}
  File = {"f1", "f2"}
  Claim <- PoolClaims
  Scope <- OneBranch
  Modes <- BothModes
  Ttl = 1
  MaxTime = 3
  Cycles = 3
  Crashes = 1
INVARIANTS
  TypeOK
  ClaimsDisjoint
  HolderKeepsLease
  ProposedInScope
  BorrowedIsReturned
