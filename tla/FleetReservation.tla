-------------------------- MODULE FleetReservation --------------------------
(***************************************************************************)
(* The cross-process reservation store of scripts/fleet_coordination.py.   *)
(* Every CLI call (reserve, heartbeat, release) is a process of its own:   *)
(* it takes the wall clock BEFORE the lock, reserve probes the filesystem, *)
(* then a flock on the sidecar brackets a strict read, the decision and an *)
(* atomic os.replace of reservations.json.  A process may die between any  *)
(* two steps, and the file may be damaged from outside at any moment.      *)
(***************************************************************************)
EXTENDS FleetClaims

CONSTANTS
  Proc,         \* processes that issue CLI calls
  Serves,       \* Serves[p]: the windows p issues calls for (--window)
  Claim,        \* the claimed-file sets callers pass (--files)
  MaxTime       \* bound of the clock

ASSUME ReservationAssumption ==
  /\ Serves \in [Proc -> SUBSET Window]
  /\ Claim \subseteq SUBSET Path
  /\ MaxTime \in Nat

VARIABLES
  honest,    \* the filesystem of the checkout enforces exclusive flocks
  now,       \* wall clock
  store,     \* records in reservations.json (absent file = none)
  readable,  \* FALSE once the file is garbled
  holders,   \* processes inside the flock
  pc,        \* where each call is
  call,      \* its arguments and the clock value it started with
  seen,      \* the records its strict read returned
  granted    \* history: each window's last grant it has not released

vars == <<honest, now, store, readable, holders, pc, call, seen, granted>>

Op == {"reserve", "heartbeat", "release"}
Call == [op : Op, window : Window, claim : SUBSET Path, ttl : Nat, at : Nat]

TypeOK ==
  /\ honest \in BOOLEAN
  /\ now \in Nat
  /\ store \in SUBSET Record
  /\ readable \in BOOLEAN
  /\ holders \in SUBSET Proc
  /\ pc \in [Proc -> {"idle", "probe", "enter", "read", "write", "leave"}]
  /\ \A p \in Proc : pc[p] # "idle" => call[p] \in Call
  /\ DOMAIN call = Proc
  /\ seen \in [Proc -> SUBSET Record]
  /\ granted \in SUBSET Record

NoCall == [op |-> "none"]

Init ==
  /\ honest \in BOOLEAN
  /\ now = 0
  /\ store = {}
  /\ readable = TRUE
  /\ holders = {}
  /\ pc = [p \in Proc |-> "idle"]
  /\ call = [p \in Proc |-> NoCall]
  /\ seen = [p \in Proc |-> {}]
  /\ granted = {}
-----------------------------------------------------------------------------
(* Calls *)

\* `now` is read here, before the probe and before the lock.
Start(p, op, w, c, ttl, first) ==
  /\ pc[p] = "idle"
  /\ w \in Serves[p]
  /\ pc' = [pc EXCEPT ![p] = first]
  /\ call' = [call EXCEPT ![p] = [op |-> op, window |-> w, claim |-> c,
                                  ttl |-> ttl, at |-> now]]
  /\ UNCHANGED <<honest, now, store, readable, holders, seen, granted>>

CallReserve(p) ==
  \E w \in Window, c \in Claim, ttl \in Ttl : Start(p, "reserve", w, c, ttl, "probe")

CallHeartbeat(p) ==
  \E w \in Window, ttl \in Ttl : Start(p, "heartbeat", w, {}, ttl, "enter")

CallRelease(p) ==
  \E w \in Window : Start(p, "release", w, {}, 0, "enter")

\* Mutant: the call's bookkeeping is dropped while the call goes on.
EndHalfway(p) ==
  /\ pc' = pc
  /\ call' = [call EXCEPT ![p] = NoCall]
  /\ seen' = [seen EXCEPT ![p] = {}]
  /\ holders' = holders \ {p}

\* The call is over: the finally clause drops the lock, the process forgets.
End(p) ==
  /\ pc' = [pc EXCEPT ![p] = "idle"]
  /\ call' = [call EXCEPT ![p] = NoCall]
  /\ seen' = [seen EXCEPT ![p] = {}]
  /\ holders' = holders \ {p}

\* reserve alone probes: contention passes, a filesystem that lets two
\* exclusive flocks coexist is refused.
Probe(p) ==
  /\ pc[p] = "probe"
  /\ IF honest
     THEN /\ pc' = [pc EXCEPT ![p] = "enter"]
          /\ UNCHANGED <<call, seen, holders>>
     ELSE End(p)
  /\ UNCHANGED <<honest, now, store, readable, granted>>

\* Mutant: the critical section is not locked.
EnterUnlocked(p) ==
  /\ pc[p] = "enter"
  /\ holders' = holders \cup {p}
  /\ pc' = [pc EXCEPT ![p] = "read"]
  /\ UNCHANGED <<honest, now, store, readable, call, seen, granted>>

Enter(p) ==
  /\ pc[p] = "enter"
  /\ honest => holders = {}
  /\ holders' = holders \cup {p}
  /\ pc' = [pc EXCEPT ![p] = "read"]
  /\ UNCHANGED <<honest, now, store, readable, call, seen, granted>>

\* Mutant: the monitor's lenient read, which takes a garbled file for empty.
ReadLenient(p) ==
  /\ pc[p] = "read"
  /\ seen' = [seen EXCEPT ![p] = store]
  /\ pc' = [pc EXCEPT ![p] = "write"]
  /\ UNCHANGED <<honest, now, store, readable, holders, call, granted>>

\* The strict read: an existing but garbled file refuses the call.
Read(p) ==
  /\ pc[p] = "read"
  /\ IF readable
     THEN /\ seen' = [seen EXCEPT ![p] = store]
          /\ pc' = [pc EXCEPT ![p] = "write"]
          /\ UNCHANGED <<call, holders>>
     ELSE End(p)
  /\ UNCHANGED <<honest, now, store, readable, granted>>
-----------------------------------------------------------------------------
(* Decisions, taken on what the call read and on the clock it started with *)

\* Mutant: the prune goes by the heartbeat instead of the expiry.
AliveByBeat(p) == {r \in seen[p] : r.beat >= call[p].at}

Alive(p) == LiveRecords(seen[p], call[p].at)
Own(p) == Alive(p) \ Others(Alive(p), call[p].window)

\* Mutant: the overlap check intersects the claims, blind to directories.
RefusedSamePath(p) ==
  \E r \in Others(Alive(p), call[p].window) : call[p].claim \cap r.claim # {}

Refused(p) ==
  \E r \in Others(Alive(p), call[p].window) : OverlappingClaims(call[p].claim, r.claim)

WriteRecords(S) ==
  /\ store' = S
  /\ readable' = TRUE

\* heartbeat and release write only when something was dropped.
WriteIfChanged(p, S) ==
  IF S # seen[p] THEN WriteRecords(S) ELSE UNCHANGED <<store, readable>>

Decide(p, op) ==
  /\ pc[p] = "write"
  /\ call[p].op = op
  /\ pc' = [pc EXCEPT ![p] = "leave"]
  /\ UNCHANGED <<honest, now, holders, call, seen>>

Granting(p, S) ==
  /\ WriteRecords(Others(Alive(p), call[p].window) \cup S)
  /\ granted' = Others(granted, call[p].window) \cup S

ReserveGrant(p) ==
  /\ Decide(p, "reserve")
  /\ ~Refused(p)
  /\ Granting(p, {BuildRecord(call[p].window, call[p].claim, call[p].at, call[p].ttl)})

ReserveRefuse(p) ==
  /\ Decide(p, "reserve")
  /\ Refused(p)
  /\ UNCHANGED <<store, readable, granted>>

\* Mutant: heartbeat_at is stamped with the expiry, and the other way round.
RefreshedSwapped(p) ==
  {[r EXCEPT !.beat = call[p].at + call[p].ttl, !.expires = call[p].at] : r \in Own(p)}

Refreshed(p) ==
  {BuildRecord(r.window, r.claim, call[p].at, call[p].ttl) : r \in Own(p)}

HeartbeatOwn(p) ==
  /\ Decide(p, "heartbeat")
  /\ Own(p) # {}
  /\ Granting(p, Refreshed(p))

\* Nothing to beat: only the prune is persisted.
HeartbeatNone(p) ==
  /\ Decide(p, "heartbeat")
  /\ Own(p) = {}
  /\ WriteIfChanged(p, Alive(p))
  /\ UNCHANGED granted

Release(p) ==
  /\ Decide(p, "release")
  /\ WriteIfChanged(p, Others(Alive(p), call[p].window))
  /\ granted' = Others(granted, call[p].window)

Commit(p) ==
  \/ ReserveGrant(p)
  \/ ReserveRefuse(p)
  \/ HeartbeatOwn(p)
  \/ HeartbeatNone(p)
  \/ Release(p)

Leave(p) ==
  /\ pc[p] = "leave"
  /\ End(p)
  /\ UNCHANGED <<honest, now, store, readable, granted>>
-----------------------------------------------------------------------------
(* Environment *)

\* Mutant: a dead process keeps its lock.
CrashKeepsLock(p) ==
  /\ pc[p] # "idle"
  /\ pc' = [pc EXCEPT ![p] = "idle"]
  /\ call' = [call EXCEPT ![p] = NoCall]
  /\ seen' = [seen EXCEPT ![p] = {}]
  /\ UNCHANGED <<honest, now, store, readable, holders, granted>>

\* The process dies, or an OSError escapes: the temp file never replaced the
\* store, and the kernel (or the finally clause) frees the lock.
Crash(p) ==
  /\ pc[p] # "idle"
  /\ End(p)
  /\ UNCHANGED <<honest, now, store, readable, granted>>

Tick ==
  /\ now < MaxTime
  /\ now' = now + 1
  /\ UNCHANGED <<honest, store, readable, holders, pc, call, seen, granted>>

\* The file is damaged from outside (disk, a hand edit).
Garble ==
  /\ readable
  /\ readable' = FALSE
  /\ store' = {}
  /\ UNCHANGED <<honest, now, holders, pc, call, seen, granted>>

\* The operator removes the damaged file by hand, giving every grant up.
Repair ==
  /\ ~readable
  /\ readable' = TRUE
  /\ granted' = {}
  /\ UNCHANGED <<honest, now, store, holders, pc, call, seen>>

Step(p) == Probe(p) \/ Enter(p) \/ Read(p) \/ Commit(p) \/ Leave(p)

Next ==
  \/ \E p \in Proc :
       CallReserve(p) \/ CallHeartbeat(p) \/ CallRelease(p) \/ Step(p) \/ Crash(p)
  \/ Tick
  \/ Garble
  \/ Repair

Spec == Init /\ [][Next]_vars

\* A scheduled process takes its next step, and a process blocked in flock is
\* woken when the lock comes free again and again (SF on Enter).
Fairness ==
  \A p \in Proc :
    /\ WF_vars(Probe(p) \/ Read(p) \/ Commit(p) \/ Leave(p))
    /\ SF_vars(Enter(p))

FairSpec == Spec /\ Fairness
-----------------------------------------------------------------------------
(* Properties *)

\* The file never holds two records of one window, nor overlapping claims of
\* two windows, whatever calls interleave, die or retry (reserve's check runs
\* on a read another call cannot invalidate).
StoreDisjoint == Disjoint(store)

\* No lost update: while the file is readable, a grant that has neither
\* expired nor been released is in it, exactly as it was returned; no other
\* call's read-modify-write, prune or crash has dropped or altered it.
GrantsKept == readable => LiveRecords(granted, now) \subseteq store

\* First writer wins, seen from the callers: two windows never hold unexpired
\* grants on overlapping paths, not even after the file was garbled.
GrantsExclusive == Disjoint(LiveRecords(granted, now))

\* Seen from the callers, reserve/heartbeat/release over the file, the lock
\* and the clock implement the exclusive-claims promise.
Promise == INSTANCE ExclusiveClaims WITH time <- now, claims <- granted
KeepsPromise == Promise!Spec

\* A window served by one process at a time never sees its liveness clock move
\* back, though every call reads the clock before it waits for the lock.
BeatForward ==
  [][\A r \in granted, s \in granted' : r.window = s.window => r.beat <= s.beat]_vars

\* Every call ends: nobody waits for the flock for ever, not behind a process
\* that died in the critical section and not behind a refused call.
EveryCallEnds == \A p \in Proc : pc[p] # "idle" ~> pc[p] = "idle"
=============================================================================
