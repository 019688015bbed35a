\* Two processes, each free to review either window (--window).
SPECIFICATION Spec
CONSTANTS
  Window = {"w1", "w2"}
  Proc = {"p1", "p2"}
  Answer <- MCAnswer
  MaxTime = 2
INVARIANTS
  TypeOK
  OneVerdict
  LastVerdict
