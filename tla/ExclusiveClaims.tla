-------------------------- MODULE ExclusiveClaims --------------------------
(***************************************************************************)
(* What the fleet promises its windows, with no file, lock or process in   *)
(* sight: a grant is exclusive until it expires or its owner drops it.     *)
(***************************************************************************)
EXTENDS FleetClaims

VARIABLES
  time,    \* wall clock
  claims   \* the last grant given to each window that has not dropped it

\* Nobody else's unexpired grant overlaps r.
Free(r) ==
  \A c \in LiveRecords(Others(claims, r.window), time) :
    ~OverlappingClaims(r.claim, c.claim)

\* A window is granted a record r, or has its own grant renewed as r.
Take ==
  /\ \E r \in claims' :
       /\ Free(r)
       /\ claims' = Others(claims, r.window) \cup {r}
  /\ UNCHANGED time

Drop(w) ==
  /\ claims' = Others(claims, w)
  /\ UNCHANGED time

\* The operator throws every grant away.
Wipe ==
  /\ claims' = {}
  /\ UNCHANGED time

Tick ==
  /\ time' = time + 1
  /\ UNCHANGED claims

Init == time = 0 /\ claims = {}

Next ==
  \/ Take
  \/ \E w \in Window : Drop(w)
  \/ Wipe
  \/ Tick

Spec == Init /\ [][Next]_<<time, claims>>
=============================================================================
