\* Two gating roles and the loop, one call at a time or overlapping. All turns
\* and calls may have been made, and the system stops.
SPECIFICATION Spec
CHECK_DEADLOCK FALSE
CONSTANTS
  Role = {Reviewer, Auditor}
  Loop = Loop
  Modes <- BothModes
  Ttl = 1
  MaxTime = 3
  Turns <- SomeTurns
  Calls <- SomeCalls
  Crashes = 1
SYMMETRY RoleSymmetry
INVARIANTS
  TypeOK
  ShipsOnFreshPasses
  LatestVerdictGates
