\* Two processes, each free to act for either window, on a
\* filesystem that enforces flocks or one that does not.
SPECIFICATION Spec
CONSTANTS
  Window = {"w1", "w2"}
  Path = {"eval", "eval/config", "api"}
  Beneath <- MCBeneath
  Ttl = {1}
  Proc = {"p1", "p2"}
  Serves <- ServesAny
  Claim <- MCClaim
  MaxTime = 2
INVARIANTS
  TypeOK
  StoreDisjoint
  GrantsKept
  GrantsExclusive
PROPERTY
  KeepsPromise
