\* One process per window: under fair scheduling every call ends, also behind
\* crashed holders, and a window's liveness clock only moves forward.
SPECIFICATION FairSpec
CONSTANTS
  Window = {"w1", "w2"}
  Path = {"eval", "eval/config", "api"}
  Beneath <- MCBeneath
  Ttl = {1}
  Proc = {"p1", "p2"}
  Serves <- ServesOne
  Claim <- SmallClaim
  MaxTime = 2
PROPERTY
  EveryCallEnds
  BeatForward
