---------------------------- MODULE FleetClaims ----------------------------
(***************************************************************************)
(* The data every fleet module shares: windows (one worktree and branch    *)
(* each), the repository paths they claim, and the reservation record of   *)
(* scripts/fleet_coordination.py.  Only the fields that decide anything    *)
(* are kept: started_at, issue, runtime and status are display metadata of *)
(* the reservation and no decision of reserve/heartbeat/release reads them.*)
(***************************************************************************)
EXTENDS Naturals

CONSTANTS
  Window,   \* window ids (branch names)
  Path,     \* repo-relative paths, files and directories
  Beneath,  \* <<child, ancestor>> pairs of Path: child lies under ancestor
  Ttl       \* the --ttl values callers pass, in clock units

ASSUME ClaimsAssumption ==
  /\ Beneath \subseteq Path \X Path
  /\ Ttl \subseteq Nat

\* A record of reservations.json.
Record == [window : Window, claim : SUBSET Path, beat : Nat, expires : Nat]

\* Equal, or one is an ancestor directory of the other.
PathsConflict(a, b) ==
  \/ a = b
  \/ <<a, b>> \in Beneath
  \/ <<b, a>> \in Beneath

OverlappingClaims(s, t) == \E a \in s, b \in t : PathsConflict(a, b)

\* Expiry is strict: a record is still live in the second it expires in.
IsExpired(r, t) == r.expires < t

LiveRecords(S, t) == {r \in S : ~IsExpired(r, t)}

Others(S, w) == {r \in S : r.window # w}

BuildRecord(w, c, at, ttl) ==
  [window |-> w, claim |-> c, beat |-> at, expires |-> at + ttl]

\* No window appears twice and no two windows' claims overlap.
Disjoint(S) ==
  \A r, s \in S :
    r # s => r.window # s.window /\ ~OverlappingClaims(r.claim, s.claim)
=============================================================================
