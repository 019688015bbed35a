----------------------- MODULE FleetReservationProofs -----------------------
(***************************************************************************)
(* The reservation store keeps its promise for every set of windows, paths *)
(* and processes, every TTL and clock bound, whatever the filesystem.      *)
(***************************************************************************)
EXTENDS FleetReservation, TLAPS

\* Inside the critical section there is nobody else, if flocks are honest.
LockInv ==
  /\ \A p \in Proc : pc[p] \in {"read", "write", "leave"} => p \in holders
  /\ honest => \A p, q \in holders : p = q

\* The clock a call started with is never ahead of the wall clock.
ClockInv == \A p \in Proc : pc[p] # "idle" => call[p].at <= now

\* What a call is about to decide on is disjoint and lacks no unexpired grant.
SeenInv ==
  \A p \in Proc : pc[p] = "write" =>
    /\ Disjoint(seen[p])
    /\ LiveRecords(granted, now) \subseteq seen[p]

\* Without honest flocks the probe has kept every reserve out.
NoFlockInv ==
  ~honest =>
    /\ store = {} /\ granted = {}
    /\ \A p \in Proc : pc[p] = "write" => seen[p] = {}
    /\ \A p \in Proc : pc[p] \in {"enter", "read", "write"} => call[p].op # "reserve"

IInv ==
  /\ TypeOK
  /\ LockInv
  /\ ClockInv
  /\ SeenInv
  /\ NoFlockInv
  /\ StoreDisjoint
  /\ GrantsKept
  /\ GrantsExclusive
-----------------------------------------------------------------------------
(* Facts about records *)

LEMMA SubsetDisjoint ==
  ASSUME NEW S, NEW T, Disjoint(T), S \subseteq T
  PROVE  Disjoint(S)
  BY DEF Disjoint

LEMMA OverlapSymmetric ==
  ASSUME NEW s, NEW t, OverlappingClaims(s, t)
  PROVE  OverlappingClaims(t, s)
  BY DEF OverlappingClaims, PathsConflict

\* A record that overlaps nobody can replace its window's own.
LEMMA ReplaceDisjoint ==
  ASSUME NEW S, Disjoint(S), NEW r,
         \A o \in Others(S, r.window) : ~OverlappingClaims(r.claim, o.claim)
  PROVE  Disjoint(Others(S, r.window) \cup {r})
  <1> SUFFICES ASSUME NEW a \in Others(S, r.window) \cup {r},
                      NEW b \in Others(S, r.window) \cup {r}, a # b
               PROVE  a.window # b.window /\ ~OverlappingClaims(a.claim, b.claim)
      BY DEF Disjoint
  <1>1. CASE a = r
        BY <1>1 DEF Others
  <1>2. CASE b = r
        BY <1>2, OverlapSymmetric DEF Others
  <1>3. CASE a # r /\ b # r
        BY <1>3 DEF Others, Disjoint
  <1> QED BY <1>1, <1>2, <1>3

\* A clock that starts no later than `now` prunes no unexpired record.
LEMMA EarlyClockPrunesLess ==
  ASSUME NEW S \in SUBSET Record, NEW T \in SUBSET Record,
         NEW at \in Nat, NEW t \in Nat, at <= t, LiveRecords(S, t) \subseteq T
  PROVE  LiveRecords(S, t) \subseteq LiveRecords(T, at)
  <1> SUFFICES ASSUME NEW r \in LiveRecords(S, t)
               PROVE  r \in T /\ ~(r.expires < at)
      BY DEF LiveRecords, IsExpired
  <1>1. r \in Record /\ ~(r.expires < t)
        BY DEF LiveRecords, IsExpired
  <1> QED BY <1>1 DEF Record

\* As time passes, unexpired grants only become fewer.
LEMMA LaterIsFewer ==
  ASSUME NEW S \in SUBSET Record, NEW t \in Nat
  PROVE  LiveRecords(S, t + 1) \subseteq LiveRecords(S, t)
  <1> SUFFICES ASSUME NEW r \in S, ~(r.expires < t + 1)
               PROVE  ~(r.expires < t)
      BY DEF LiveRecords, IsExpired
  <1> QED BY DEF Record

LEMMA BuildRecordType ==
  ASSUME NEW w \in Window, NEW c \in SUBSET Path, NEW at \in Nat, NEW ttl \in Nat
  PROVE  /\ BuildRecord(w, c, at, ttl) \in Record
         /\ BuildRecord(w, c, at, ttl).window = w
         /\ BuildRecord(w, c, at, ttl).claim = c
         /\ BuildRecord(w, c, at, ttl).beat = at
  BY DEF BuildRecord, Record
-----------------------------------------------------------------------------
(* What a call at its decision point knows *)

LEMMA AliveFacts ==
  ASSUME IInv, NEW p \in Proc, pc[p] = "write"
  PROVE  /\ call[p] \in Call
         /\ Alive(p) \in SUBSET Record
         /\ Alive(p) \subseteq seen[p]
         /\ Disjoint(Alive(p))
         /\ LiveRecords(granted, now) \subseteq Alive(p)
         /\ p \in holders
  <1>1. call[p] \in Call /\ seen[p] \in SUBSET Record /\ p \in holders
        BY DEF IInv, TypeOK, LockInv
  <1>2. call[p].at \in Nat /\ call[p].at <= now /\ now \in Nat /\ granted \in SUBSET Record
        BY <1>1 DEF IInv, TypeOK, ClockInv, Call
  <1>3. Disjoint(seen[p]) /\ LiveRecords(granted, now) \subseteq seen[p]
        BY DEF IInv, SeenInv
  <1>4. Alive(p) \subseteq seen[p]
        BY DEF Alive, LiveRecords
  <1>5. LiveRecords(granted, now) \subseteq Alive(p)
        BY <1>1, <1>2, <1>3, EarlyClockPrunesLess DEF Alive
  <1> QED BY <1>1, <1>3, <1>4, <1>5, SubsetDisjoint

\* The window's own live record is unique, and its renewal overlaps nobody.
LEMMA OwnIsUnique ==
  ASSUME IInv, NEW p \in Proc, pc[p] = "write", Own(p) # {}
  PROVE  \E r \in Record :
           /\ Refreshed(p) = {r}
           /\ r.window = call[p].window /\ r.beat = call[p].at
           /\ \A o \in Others(Alive(p), r.window) : ~OverlappingClaims(r.claim, o.claim)
  <1>1. PICK x \in Own(p) : TRUE
        OBVIOUS
  <1>2. /\ call[p] \in Call /\ Alive(p) \in SUBSET Record /\ Disjoint(Alive(p))
        BY AliveFacts
  <1>3. x \in Alive(p) /\ x \in Record /\ x.window = call[p].window
        BY <1>1, <1>2 DEF Own, Others
  <1>4. Own(p) = {x}
        BY <1>1, <1>2, <1>3 DEF Own, Others, Disjoint
  <1> DEFINE r == BuildRecord(x.window, x.claim, call[p].at, call[p].ttl)
  <1>5. Refreshed(p) = {r}
        BY <1>4 DEF Refreshed
  <1>6. r \in Record /\ r.window = x.window /\ r.claim = x.claim /\ r.beat = call[p].at
    <2>1. x.window \in Window /\ x.claim \in SUBSET Path
          BY <1>3 DEF Record
    <2>2. call[p].at \in Nat /\ call[p].ttl \in Nat
          BY <1>2 DEF Call
    <2> QED BY <2>1, <2>2, BuildRecordType
  <1>7. \A o \in Others(Alive(p), r.window) : ~OverlappingClaims(r.claim, o.claim)
        BY <1>2, <1>3, <1>6 DEF Others, Disjoint
  <1> QED BY <1>3, <1>5, <1>6, <1>7

\* A reserve or heartbeat that writes puts one record r in place of its
\* window's own, and r overlaps no live record of another window.
LEMMA GrantingFacts ==
  ASSUME IInv, NEW p \in Proc, ReserveGrant(p) \/ HeartbeatOwn(p)
  PROVE  \E r \in Record :
           /\ r.window = call[p].window /\ r.beat = call[p].at
           /\ store' = Others(Alive(p), r.window) \cup {r}
           /\ granted' = Others(granted, r.window) \cup {r}
           /\ \A o \in Others(Alive(p), r.window) : ~OverlappingClaims(r.claim, o.claim)
  <1>1. CASE ReserveGrant(p)
    <2> DEFINE r == BuildRecord(call[p].window, call[p].claim, call[p].at, call[p].ttl)
    <2>1. pc[p] = "write"
          BY <1>1 DEF ReserveGrant, Decide
    <2>2. call[p].window \in Window /\ call[p].claim \in SUBSET Path
          /\ call[p].at \in Nat /\ call[p].ttl \in Nat
          BY <2>1, AliveFacts DEF Call
    <2>3. /\ r \in Record /\ r.window = call[p].window /\ r.claim = call[p].claim
          /\ r.beat = call[p].at
          BY <2>2, BuildRecordType
    <2>4. store' = Others(Alive(p), r.window) \cup {r}
          /\ granted' = Others(granted, r.window) \cup {r}
          BY <1>1, <2>3 DEF ReserveGrant, Granting, WriteRecords
    <2>5. \A o \in Others(Alive(p), r.window) : ~OverlappingClaims(r.claim, o.claim)
          BY <1>1, <2>3 DEF ReserveGrant, Refused
    <2> QED BY <2>3, <2>4, <2>5
  <1>2. CASE HeartbeatOwn(p)
    <2>1. pc[p] = "write" /\ Own(p) # {}
          BY <1>2 DEF HeartbeatOwn, Decide
    <2>2. PICK r \in Record :
           /\ Refreshed(p) = {r}
           /\ r.window = call[p].window /\ r.beat = call[p].at
           /\ \A o \in Others(Alive(p), r.window) : ~OverlappingClaims(r.claim, o.claim)
          BY <2>1, OwnIsUnique
    <2> QED BY <1>2, <2>2 DEF HeartbeatOwn, Granting, WriteRecords
  <1> QED BY <1>1, <1>2
-----------------------------------------------------------------------------
(* Type correctness *)

LEMMA InitType == ASSUME ReservationAssumption PROVE Init => TypeOK
  BY DEF Init, TypeOK, NoCall

LEMMA EndType ==
  ASSUME TypeOK, NEW p \in Proc, End(p)
  PROVE  /\ pc' \in [Proc -> {"idle", "probe", "enter", "read", "write", "leave"}]
         /\ \A q \in Proc : pc'[q] # "idle" => call'[q] \in Call
         /\ DOMAIN call' = Proc
         /\ seen' \in [Proc -> SUBSET Record]
         /\ holders' \in SUBSET Proc
  BY DEF TypeOK, End

LEMMA CallType ==
  ASSUME TypeOK, NEW p \in Proc, NEW op \in Op, NEW w \in Window,
         NEW c \in SUBSET Path, NEW ttl \in Nat, NEW first \in {"probe", "enter"},
         Start(p, op, w, c, ttl, first)
  PROVE  TypeOK'
  BY DEF TypeOK, Start, Call

LEMMA CommitType ==
  ASSUME IInv, NEW p \in Proc, Commit(p)
  PROVE  TypeOK'
  <1>1. TypeOK /\ pc[p] = "write"
        BY DEF IInv, Commit, ReserveGrant, ReserveRefuse, HeartbeatOwn, HeartbeatNone,
               Release, Decide
  <1>2. Alive(p) \in SUBSET Record /\ seen[p] \in SUBSET Record
        BY <1>1, AliveFacts DEF TypeOK
  <1>3. /\ honest' = honest /\ now' = now /\ holders' = holders /\ call' = call /\ seen' = seen
        /\ pc' = [pc EXCEPT ![p] = "leave"]
        BY DEF Commit, ReserveGrant, ReserveRefuse, HeartbeatOwn, HeartbeatNone, Release, Decide
  <1>4. store' \in SUBSET Record /\ readable' \in BOOLEAN /\ granted' \in SUBSET Record
    <2>1. CASE ReserveGrant(p) \/ HeartbeatOwn(p)
      <3>1. PICK r \in Record : /\ store' = Others(Alive(p), r.window) \cup {r}
                                /\ granted' = Others(granted, r.window) \cup {r}
            BY <2>1, GrantingFacts
      <3>2. readable' = TRUE
            BY <2>1 DEF ReserveGrant, HeartbeatOwn, Granting, WriteRecords
      <3> QED BY <3>1, <3>2, <1>1, <1>2 DEF TypeOK, Others
    <2>2. CASE ReserveRefuse(p)
          BY <2>2, <1>1 DEF TypeOK, ReserveRefuse
    <2>3. CASE HeartbeatNone(p)
          BY <2>3, <1>1, <1>2 DEF TypeOK, HeartbeatNone, WriteIfChanged, WriteRecords
    <2>4. CASE Release(p)
          BY <2>4, <1>1, <1>2 DEF TypeOK, Release, WriteIfChanged, WriteRecords, Others
    <2> QED BY <2>1, <2>2, <2>3, <2>4 DEF Commit
  <1> QED BY <1>1, <1>3, <1>4 DEF TypeOK

LEMMA StepType ==
  ASSUME IInv, ClaimsAssumption, ReservationAssumption, [Next]_vars
  PROVE  TypeOK'
  <1>1. TypeOK
        BY DEF IInv
  <1>2. CASE UNCHANGED vars
        BY <1>1, <1>2 DEF TypeOK, vars
  <1>3. ASSUME NEW p \in Proc, CallReserve(p) \/ CallHeartbeat(p) \/ CallRelease(p)
        PROVE  TypeOK'
    <2>1. CASE CallReserve(p)
          BY <2>1, <1>1, CallType, ClaimsAssumption, ReservationAssumption
          DEF CallReserve, Op, ClaimsAssumption, ReservationAssumption
    <2>2. CASE CallHeartbeat(p)
          BY <2>2, <1>1, CallType, ClaimsAssumption DEF CallHeartbeat, Op, ClaimsAssumption
    <2>3. CASE CallRelease(p)
          BY <2>3, <1>1, CallType DEF CallRelease, Op
    <2> QED BY <1>3, <2>1, <2>2, <2>3
  <1>4. ASSUME NEW p \in Proc, Probe(p)
        PROVE  TypeOK'
    <2>1. CASE honest
          BY <1>1, <1>4, <2>1 DEF TypeOK, Probe
    <2>2. CASE ~honest
          BY <1>1, <1>4, <2>2, EndType DEF TypeOK, Probe
    <2> QED BY <2>1, <2>2
  <1>5. ASSUME NEW p \in Proc, Enter(p)
        PROVE  TypeOK'
        BY <1>1, <1>5 DEF TypeOK, Enter
  <1>6. ASSUME NEW p \in Proc, Read(p)
        PROVE  TypeOK'
    <2>1. CASE readable
          BY <1>1, <1>6, <2>1 DEF TypeOK, Read
    <2>2. CASE ~readable
          BY <1>1, <1>6, <2>2, EndType DEF TypeOK, Read
    <2> QED BY <2>1, <2>2
  <1>7. ASSUME NEW p \in Proc, Leave(p) \/ Crash(p)
        PROVE  TypeOK'
        BY <1>1, <1>7, EndType DEF TypeOK, Leave, Crash
  <1>8. CASE Tick
        BY <1>1, <1>8 DEF TypeOK, Tick
  <1>9. CASE Garble
        BY <1>1, <1>9 DEF TypeOK, Garble
  <1>10. CASE Repair
        BY <1>1, <1>10 DEF TypeOK, Repair
  <1> QED BY <1>2, <1>3, <1>4, <1>5, <1>6, <1>7, <1>8, <1>9, <1>10, CommitType DEF Next, Step
-----------------------------------------------------------------------------
(* The parts of the invariant, one lemma each *)

\* What all five decisions share: the caller holds the lock and only it moves.
LEMMA CommitFrame ==
  ASSUME NEW p \in Proc, Commit(p)
  PROVE  /\ pc[p] = "write" /\ pc' = [pc EXCEPT ![p] = "leave"]
         /\ honest' = honest /\ now' = now /\ holders' = holders /\ call' = call /\ seen' = seen
  BY DEF Commit, ReserveGrant, ReserveRefuse, HeartbeatOwn, HeartbeatNone, Release, Decide

LEMMA LockStep ==
  ASSUME IInv, [Next]_vars
  PROVE  LockInv'
  <1>1. LockInv /\ TypeOK
        BY DEF IInv
  <1>2. CASE UNCHANGED vars
        BY <1>1, <1>2 DEF LockInv, vars
  <1>3. ASSUME NEW p \in Proc, CallReserve(p) \/ CallHeartbeat(p) \/ CallRelease(p)
        PROVE  LockInv'
        BY <1>1, <1>3 DEF LockInv, TypeOK, CallReserve, CallHeartbeat, CallRelease, Start
  <1>4. ASSUME NEW p \in Proc, Probe(p)
        PROVE  LockInv'
        BY <1>1, <1>4 DEF LockInv, TypeOK, Probe, End
  <1>5. ASSUME NEW p \in Proc, Enter(p)
        PROVE  LockInv'
        BY <1>1, <1>5 DEF LockInv, TypeOK, Enter
  <1>6. ASSUME NEW p \in Proc, Read(p)
        PROVE  LockInv'
        BY <1>1, <1>6 DEF LockInv, TypeOK, Read, End
  <1>7. ASSUME NEW p \in Proc, Commit(p)
        PROVE  LockInv'
        BY <1>1, <1>7, CommitFrame DEF LockInv, TypeOK
  <1>8. ASSUME NEW p \in Proc, Leave(p) \/ Crash(p)
        PROVE  LockInv'
        BY <1>1, <1>8 DEF LockInv, TypeOK, Leave, Crash, End
  <1>9. CASE Tick \/ Garble \/ Repair
        BY <1>1, <1>9 DEF LockInv, Tick, Garble, Repair
  <1> QED BY <1>2, <1>3, <1>4, <1>5, <1>6, <1>7, <1>8, <1>9 DEF Next, Step

LEMMA ClockStep ==
  ASSUME IInv, [Next]_vars
  PROVE  ClockInv'
  <1>1. ClockInv /\ TypeOK
        BY DEF IInv
  <1>2. CASE UNCHANGED vars
        BY <1>1, <1>2 DEF ClockInv, vars
  <1>3. ASSUME NEW p \in Proc, CallReserve(p) \/ CallHeartbeat(p) \/ CallRelease(p)
        PROVE  ClockInv'
        BY <1>1, <1>3 DEF ClockInv, TypeOK, CallReserve, CallHeartbeat, CallRelease, Start
  <1>4. ASSUME NEW p \in Proc, Probe(p) \/ Enter(p) \/ Read(p) \/ Leave(p) \/ Crash(p)
        PROVE  ClockInv'
        BY <1>1, <1>4 DEF ClockInv, TypeOK, Probe, Enter, Read, Leave, Crash, End
  <1>5. ASSUME NEW p \in Proc, Commit(p)
        PROVE  ClockInv'
        BY <1>1, <1>5, CommitFrame DEF ClockInv, TypeOK
  <1>6. CASE Tick
    <2>1. \A q \in Proc : pc[q] # "idle" => call[q].at \in Nat
          BY <1>1 DEF TypeOK, Call
    <2> QED BY <1>1, <1>6, <2>1 DEF ClockInv, Tick, TypeOK
  <1>7. CASE Garble \/ Repair
        BY <1>1, <1>7 DEF ClockInv, Garble, Repair
  <1> QED BY <1>2, <1>3, <1>4, <1>5, <1>6, <1>7 DEF Next, Step

\* A checkout stays on the filesystem it is on.
LEMMA HonestFixed ==
  ASSUME [Next]_vars
  PROVE  honest' = honest
  <1>1. ASSUME NEW p \in Proc, Commit(p)
        PROVE  honest' = honest
        BY <1>1 DEF Commit, ReserveGrant, ReserveRefuse, HeartbeatOwn, HeartbeatNone, Release,
                    Decide
  <1>2. ASSUME NEW p \in Proc, ~Commit(p),
               CallReserve(p) \/ CallHeartbeat(p) \/ CallRelease(p) \/ Step(p) \/ Crash(p)
        PROVE  honest' = honest
        BY <1>2 DEF CallReserve, CallHeartbeat, CallRelease, Start, Step, Probe, Enter, Read,
                    Leave, Crash
  <1> QED BY <1>1, <1>2 DEF Next, Tick, Garble, Repair, vars

LEMMA NoFlockStep ==
  ASSUME IInv, [Next]_vars
  PROVE  NoFlockInv'
  <1>0. honest' = honest
        BY HonestFixed
  <1> SUFFICES ASSUME ~honest
               PROVE  NoFlockInv'
      BY <1>0 DEF NoFlockInv
  <1>1. NoFlockInv /\ TypeOK
        BY DEF IInv
  <1>2. CASE UNCHANGED vars
        BY <1>1, <1>2 DEF NoFlockInv, vars
  <1>3. ASSUME NEW p \in Proc, CallReserve(p) \/ CallHeartbeat(p) \/ CallRelease(p)
        PROVE  NoFlockInv'
        BY <1>1, <1>3 DEF NoFlockInv, TypeOK, CallReserve, CallHeartbeat, CallRelease, Start
  <1>4. ASSUME NEW p \in Proc, Probe(p) \/ Enter(p) \/ Leave(p) \/ Crash(p)
        PROVE  NoFlockInv'
        BY <1>1, <1>4 DEF NoFlockInv, TypeOK, Probe, Enter, Leave, Crash, End
  <1>5. ASSUME NEW p \in Proc, Read(p)
        PROVE  NoFlockInv'
        BY <1>1, <1>5 DEF NoFlockInv, TypeOK, Read, End
  <1>6. ASSUME NEW p \in Proc, Commit(p)
        PROVE  NoFlockInv'
    <2>1. /\ seen[p] = {} /\ store = {} /\ granted = {}
          /\ call[p].op # "reserve" /\ Alive(p) = {}
          BY <1>1, <1>6, CommitFrame DEF NoFlockInv, Alive, LiveRecords
    <2>2. store' = {} /\ granted' = {}
          BY <1>6, <2>1 DEF Commit, ReserveGrant, ReserveRefuse, HeartbeatOwn, HeartbeatNone,
             Release, Decide, Own, Others, WriteIfChanged, WriteRecords
    <2> QED BY <1>1, <1>6, <2>2, CommitFrame DEF NoFlockInv, TypeOK
  <1>7. CASE Tick \/ Garble \/ Repair
        BY <1>1, <1>7 DEF NoFlockInv, Tick, Garble, Repair
  <1> QED BY <1>2, <1>3, <1>4, <1>5, <1>6, <1>7 DEF Next, Step

\* The three properties of the store and its grants survive a decision.
LEMMA CommitStore ==
  ASSUME IInv, NEW p \in Proc, Commit(p)
  PROVE  (StoreDisjoint /\ GrantsKept /\ GrantsExclusive)'
  <1>1. /\ pc[p] = "write" /\ now' = now
        /\ Alive(p) \in SUBSET Record /\ Disjoint(Alive(p)) /\ Disjoint(store)
        /\ LiveRecords(granted, now) \subseteq Alive(p)
        /\ readable => LiveRecords(granted, now) \subseteq store
        /\ Disjoint(LiveRecords(granted, now))
        BY CommitFrame, AliveFacts DEF IInv, StoreDisjoint, GrantsKept, GrantsExclusive
  <1>2. CASE ReserveGrant(p) \/ HeartbeatOwn(p)
    <2>1. PICK r \in Record :
            /\ store' = Others(Alive(p), r.window) \cup {r}
            /\ granted' = Others(granted, r.window) \cup {r}
            /\ \A o \in Others(Alive(p), r.window) : ~OverlappingClaims(r.claim, o.claim)
          BY <1>2, GrantingFacts
    <2>2. Disjoint(store')
          BY <1>1, <2>1, ReplaceDisjoint
    <2>3. LiveRecords(granted', now') \subseteq store'
          BY <1>1, <2>1 DEF LiveRecords, Others
    <2> QED BY <2>2, <2>3, SubsetDisjoint DEF StoreDisjoint, GrantsKept, GrantsExclusive
  <1>3. CASE ReserveRefuse(p)
        BY <1>1, <1>3 DEF ReserveRefuse, StoreDisjoint, GrantsKept, GrantsExclusive
  <1>4. CASE HeartbeatNone(p)
    <2>1. granted' = granted /\ (store' = Alive(p) \/ (store' = store /\ readable' = readable))
          BY <1>4 DEF HeartbeatNone, WriteIfChanged, WriteRecords
    <2> QED BY <1>1, <2>1 DEF StoreDisjoint, GrantsKept, GrantsExclusive
  <1>5. CASE Release(p)
    <2> DEFINE w == call[p].window
    <2>1. /\ granted' = Others(granted, w)
          /\ store' = Others(Alive(p), w) \/ (store' = store /\ readable' = readable)
          BY <1>5 DEF Release, WriteIfChanged, WriteRecords
    <2>2. /\ Disjoint(store')
          /\ LiveRecords(granted', now') \subseteq LiveRecords(granted, now)
          /\ Others(Alive(p), w) \subseteq Alive(p)
          BY <1>1, <2>1, SubsetDisjoint DEF LiveRecords, Others
    <2>3. readable' => LiveRecords(granted', now') \subseteq store'
          BY <1>1, <2>1 DEF LiveRecords, Others
    <2> QED BY <1>1, <2>2, <2>3, SubsetDisjoint DEF StoreDisjoint, GrantsKept, GrantsExclusive
  <1> QED BY <1>2, <1>3, <1>4, <1>5, <1>1 DEF Commit

LEMMA StoreStep ==
  ASSUME IInv, [Next]_vars
  PROVE  (StoreDisjoint /\ GrantsKept /\ GrantsExclusive)'
  <1>1. TypeOK /\ StoreDisjoint /\ GrantsKept /\ GrantsExclusive
        BY DEF IInv
  <1>2. CASE UNCHANGED <<now, store, readable, granted>>
        BY <1>1, <1>2 DEF StoreDisjoint, GrantsKept, GrantsExclusive
  <1>3. CASE Tick
    <2>1. LiveRecords(granted', now') \subseteq LiveRecords(granted, now)
          BY <1>1, <1>3, LaterIsFewer DEF Tick, TypeOK
    <2> QED BY <1>1, <1>3, <2>1, SubsetDisjoint
            DEF Tick, StoreDisjoint, GrantsKept, GrantsExclusive
  <1>4. CASE Garble
        BY <1>1, <1>4 DEF Garble, StoreDisjoint, GrantsKept, GrantsExclusive, Disjoint
  <1>5. CASE Repair
    <2>1. LiveRecords(granted', now') = {}
          BY <1>5 DEF Repair, LiveRecords
    <2> QED BY <1>1, <1>5, <2>1
            DEF Repair, StoreDisjoint, GrantsKept, GrantsExclusive, Disjoint
  <1>6. ASSUME NEW p \in Proc, ~Commit(p),
               CallReserve(p) \/ CallHeartbeat(p) \/ CallRelease(p) \/ Step(p) \/ Crash(p)
        PROVE  UNCHANGED <<now, store, readable, granted>>
        BY <1>6 DEF CallReserve, CallHeartbeat, CallRelease, Start, Step, Probe, Enter, Read,
                    Leave, Crash
  <1>7. CASE UNCHANGED vars
        BY <1>2, <1>7 DEF vars
  <1> QED BY <1>2, <1>3, <1>4, <1>5, <1>6, <1>7, CommitStore DEF Next

LEMMA SeenStep ==
  ASSUME IInv, [Next]_vars
  PROVE  SeenInv'
  <1>1. TypeOK /\ SeenInv /\ LockInv /\ NoFlockInv /\ StoreDisjoint /\ GrantsKept
        BY DEF IInv
  <1>2. CASE UNCHANGED vars
        BY <1>1, <1>2 DEF SeenInv, vars
  <1>3. ASSUME NEW p \in Proc, CallReserve(p) \/ CallHeartbeat(p) \/ CallRelease(p)
        PROVE  SeenInv'
        BY <1>1, <1>3 DEF SeenInv, TypeOK, CallReserve, CallHeartbeat, CallRelease, Start
  <1>4. ASSUME NEW p \in Proc, Probe(p) \/ Enter(p) \/ Leave(p) \/ Crash(p)
        PROVE  SeenInv'
        BY <1>1, <1>4 DEF SeenInv, TypeOK, Probe, Enter, Leave, Crash, End
  <1>5. ASSUME NEW p \in Proc, Read(p)
        PROVE  SeenInv'
    <2>1. CASE readable
          BY <1>1, <1>5, <2>1 DEF SeenInv, TypeOK, Read, StoreDisjoint, GrantsKept
    <2>2. CASE ~readable
          BY <1>1, <1>5, <2>2 DEF SeenInv, TypeOK, Read, End
    <2> QED BY <2>1, <2>2
  \* Nobody else is at its decision when p takes its own.
  <1>6. ASSUME NEW p \in Proc, Commit(p)
        PROVE  SeenInv'
    <2>1. CASE honest
      <3>1. \A q \in Proc : pc[q] = "write" => q = p
            BY <1>1, <1>6, <2>1, CommitFrame DEF LockInv
      <3> QED BY <1>1, <1>6, <3>1, CommitFrame DEF SeenInv, TypeOK
    <2>2. CASE ~honest
      <3>1. NoFlockInv' /\ granted' = {}
            BY <2>2, NoFlockStep, HonestFixed DEF NoFlockInv
      <3>2. LiveRecords(granted', now') = {}
            BY <3>1 DEF LiveRecords
      <3> QED BY <1>1, <1>6, <3>2, CommitFrame DEF SeenInv, TypeOK
    <2> QED BY <2>1, <2>2
  <1>7. CASE Tick
    <2>1. LiveRecords(granted', now') \subseteq LiveRecords(granted, now)
          BY <1>1, <1>7, LaterIsFewer DEF Tick, TypeOK
    <2> QED BY <1>1, <1>7, <2>1 DEF SeenInv, Tick
  <1>8. CASE Garble
        BY <1>1, <1>8 DEF SeenInv, Garble
  <1>9. CASE Repair
    <2>1. LiveRecords(granted', now') = {}
          BY <1>9 DEF Repair, LiveRecords
    <2> QED BY <1>1, <1>9, <2>1 DEF SeenInv, Repair
  <1> QED BY <1>2, <1>3, <1>4, <1>5, <1>6, <1>7, <1>8, <1>9 DEF Next, Step
-----------------------------------------------------------------------------
(* Theorems *)

LEMMA InitInv ==
  ASSUME ReservationAssumption, Init
  PROVE  IInv
  BY InitType DEF Init, IInv, LockInv, ClockInv, SeenInv, NoFlockInv,
     StoreDisjoint, GrantsKept, GrantsExclusive, LiveRecords, Disjoint

\* The inductive invariant: lock, clocks, reads and store fit together in every
\* state of reserve/heartbeat/release, crashes and damage included.
THEOREM Inductive == Spec => []IInv
  <1>1. Init => IInv
        BY InitInv, ReservationAssumption
  <1>2. IInv /\ [Next]_vars => IInv'
        BY StepType, LockStep, ClockStep, SeenStep, NoFlockStep, StoreStep,
           ClaimsAssumption, ReservationAssumption DEF IInv
  <1> QED BY <1>1, <1>2, PTL DEF Spec

\* Every variable keeps its type.
THEOREM TypeCorrect == Spec => []TypeOK
  <1>1. IInv => TypeOK
        BY DEF IInv
  <1> QED BY <1>1, Inductive, PTL

\* reservations.json never holds overlapping claims or two records of a window.
THEOREM StoreStaysDisjoint == Spec => []StoreDisjoint
  <1>1. IInv => StoreDisjoint
        BY DEF IInv
  <1> QED BY <1>1, Inductive, PTL

\* No call, prune or crash loses a grant that is neither expired nor released.
THEOREM NoGrantIsLost == Spec => []GrantsKept
  <1>1. IInv => GrantsKept
        BY DEF IInv
  <1> QED BY <1>1, Inductive, PTL

\* Unexpired grants of two windows never overlap.
THEOREM FirstWriterWins == Spec => []GrantsExclusive
  <1>1. IInv => GrantsExclusive
        BY DEF IInv
  <1> QED BY <1>1, Inductive, PTL

\* The instance's record operators are the ones of FleetClaims.
LEMMA SameRecords ==
  ASSUME NEW S, NEW w, NEW t, NEW a, NEW b
  PROVE  /\ Promise!Others(S, w) = Others(S, w)
         /\ Promise!LiveRecords(S, t) = LiveRecords(S, t)
         /\ Promise!OverlappingClaims(a, b) <=> OverlappingClaims(a, b)
  <1>1. Promise!Others(S, w) = Others(S, w)
        BY DEF Promise!Others, Others
  <1>2. Promise!LiveRecords(S, t) = LiveRecords(S, t)
        BY DEF Promise!LiveRecords, LiveRecords, Promise!IsExpired, IsExpired
  <1>3. Promise!OverlappingClaims(a, b) <=> OverlappingClaims(a, b)
        BY DEF Promise!OverlappingClaims, OverlappingClaims, Promise!PathsConflict, PathsConflict
  <1> QED BY <1>1, <1>2, <1>3

\* The decision of a call is one step, or none, of the abstract promise.
LEMMA CommitRefines ==
  ASSUME IInv, NEW p \in Proc, Commit(p)
  PROVE  Promise!Next \/ UNCHANGED <<now, granted>>
  <1>1. /\ now' = now /\ call[p] \in Call
        /\ LiveRecords(granted, now) \subseteq Alive(p)
        BY CommitFrame, AliveFacts
  <1>2. CASE ReserveGrant(p) \/ HeartbeatOwn(p)
    <2>1. PICK r \in Record :
            /\ granted' = Others(granted, r.window) \cup {r}
            /\ \A o \in Others(Alive(p), r.window) : ~OverlappingClaims(r.claim, o.claim)
          BY <1>2, GrantingFacts
    <2>2. LiveRecords(Others(granted, r.window), now) \subseteq Others(Alive(p), r.window)
          BY <1>1 DEF LiveRecords, Others
    <2>3. Promise!Free(r)
          BY <2>1, <2>2, SameRecords DEF Promise!Free
    <2>4. Promise!Take
          BY <1>1, <2>1, <2>3, SameRecords DEF Promise!Take
    <2> QED BY <2>4 DEF Promise!Next
  <1>3. CASE ReserveRefuse(p) \/ HeartbeatNone(p)
        BY <1>1, <1>3 DEF ReserveRefuse, HeartbeatNone
  <1>4. CASE Release(p)
    <2>1. Promise!Drop(call[p].window)
          BY <1>1, <1>4, SameRecords DEF Release, Promise!Drop
    <2> QED BY <1>1, <2>1 DEF Promise!Next, Call
  <1> QED BY <1>2, <1>3, <1>4 DEF Commit

\* Calls over the lock, the clock and the file, with crashes and damage,
\* implement the exclusive-claims promise the callers rely on.
THEOREM Refines == Spec => KeepsPromise
  <1>1. Init => Promise!Init
        BY DEF Init, Promise!Init
  <1>2. IInv /\ [Next]_vars => [Promise!Next]_<<now, granted>>
    <2> SUFFICES ASSUME IInv, [Next]_vars
                 PROVE  Promise!Next \/ UNCHANGED <<now, granted>>
        OBVIOUS
    <2>1. CASE UNCHANGED vars
          BY <2>1 DEF vars
    <2>2. ASSUME NEW p \in Proc, ~Commit(p),
                 CallReserve(p) \/ CallHeartbeat(p) \/ CallRelease(p) \/ Step(p) \/ Crash(p)
          PROVE  UNCHANGED <<now, granted>>
          BY <2>2 DEF CallReserve, CallHeartbeat, CallRelease, Start, Step, Probe, Enter, Read,
                      Leave, Crash
    <2>3. CASE Tick
          BY <2>3 DEF Tick, Promise!Next, Promise!Tick
    <2>4. CASE Garble
          BY <2>4 DEF Garble
    <2>5. CASE Repair
          BY <2>5 DEF Repair, Promise!Next, Promise!Wipe
    <2> QED BY <2>1, <2>2, <2>3, <2>4, <2>5, CommitRefines DEF Next
  <1> QED BY <1>1, <1>2, Inductive, PTL DEF Spec, KeepsPromise, Promise!Spec
-----------------------------------------------------------------------------
(* The liveness clock of a window *)

\* The deployment BeatForward is about: a window's calls come from one process.
OneProcessPerWindow == \A p, q \in Proc : Serves[p] \cap Serves[q] # {} => p = q

\* A window has one grant, whose clock is behind the wall clock and behind any
\* call under way for it.
BeatInv ==
  /\ \A r, s \in granted : r.window = s.window => r = s
  /\ \A p \in Proc : pc[p] # "idle" =>
       /\ call[p].window \in Serves[p]
       /\ \A r \in granted : r.window = call[p].window => r.beat <= call[p].at
  /\ \A r \in granted : r.beat <= now

ForwardStep == \A r \in granted, s \in granted' : r.window = s.window => r.beat <= s.beat

\* A step that grants nothing moves no clock.
LEMMA BeatUnmoved ==
  ASSUME IInv, BeatInv, granted' \subseteq granted
  PROVE  ForwardStep
  BY DEF ForwardStep, BeatInv, IInv, TypeOK, Record

LEMMA BeatStart ==
  ASSUME IInv, BeatInv, NEW p \in Proc, NEW op, NEW w, NEW c, NEW ttl, NEW first,
         Start(p, op, w, c, ttl, first)
  PROVE  BeatInv'
  <1>1. /\ w \in Serves[p] /\ pc' = [pc EXCEPT ![p] = first] /\ now' = now /\ granted' = granted
        /\ call' = [call EXCEPT ![p] = [op |-> op, window |-> w, claim |-> c,
                                        ttl |-> ttl, at |-> now]]
        BY DEF Start
  <1>2. /\ call'[p].window = w /\ call'[p].at = now
        /\ \A q \in Proc \ {p} : pc'[q] = pc[q] /\ call'[q] = call[q]
        BY <1>1 DEF IInv, TypeOK
  <1>3. ASSUME NEW q \in Proc, pc'[q] # "idle"
        PROVE  /\ call'[q].window \in Serves[q]
               /\ \A r \in granted : r.window = call'[q].window => r.beat <= call'[q].at
    <2>1. CASE q = p
          BY <1>1, <1>2, <2>1 DEF BeatInv
    <2>2. CASE q # p
          BY <1>2, <1>3, <2>2 DEF BeatInv
    <2>3. QED
          BY <2>1, <2>2
  <1>4. QED
        BY <1>1, <1>3 DEF BeatInv

\* A call that ends, or that goes on without granting.
LEMMA BeatQuiet ==
  ASSUME BeatInv, granted' \subseteq granted, now' = now,
         \A p \in Proc : pc'[p] # "idle" => pc[p] # "idle" /\ call'[p] = call[p]
  PROVE  BeatInv'
  BY DEF BeatInv

LEMMA BeatGrant ==
  ASSUME OneProcessPerWindow, IInv, BeatInv, NEW p \in Proc, ReserveGrant(p) \/ HeartbeatOwn(p)
  PROVE  BeatInv' /\ ForwardStep
  <1>1. PICK r \in Record : /\ r.window = call[p].window /\ r.beat = call[p].at
                            /\ granted' = Others(granted, r.window) \cup {r}
        BY GrantingFacts
  <1>2. /\ pc[p] = "write" /\ pc' = [pc EXCEPT ![p] = "leave"] /\ now' = now /\ call' = call
        BY DEF ReserveGrant, HeartbeatOwn, Decide
  <1>3. /\ call[p].at <= now /\ call[p].at \in Nat /\ call[p].window \in Serves[p]
        /\ \A s \in granted : s.window = call[p].window => s.beat <= call[p].at
        BY <1>2 DEF IInv, TypeOK, ClockInv, Call, BeatInv
  <1>4. /\ \A s \in granted' : s = r \/ (s \in granted /\ s.window # r.window)
        /\ \A s \in granted : s.beat \in Nat
    <2>1. \A s \in granted' : s = r \/ (s \in granted /\ s.window # r.window)
          BY <1>1 DEF Others
    <2>2. \A s \in granted : s.beat \in Nat
          BY DEF IInv, TypeOK, Record
    <2>3. QED
          BY <2>1, <2>2
  <1>5. ASSUME NEW q \in Proc, pc'[q] # "idle"
        PROVE  /\ call'[q].window \in Serves[q]
               /\ \A s \in granted' : s.window = call'[q].window => s.beat <= call'[q].at
    <2>1. pc[q] # "idle" /\ call'[q] = call[q]
          BY <1>2, <1>5 DEF IInv, TypeOK
    <2>2. call[q].window \in Serves[q]
          BY <2>1 DEF BeatInv
    <2>3. call[q].window = r.window => q = p
          BY <1>1, <1>3, <2>2 DEF OneProcessPerWindow
    <2>4. call[p].at <= call[p].at
          BY <1>3
    <2>5. QED
          BY <1>1, <1>4, <2>1, <2>2, <2>3, <2>4 DEF BeatInv
  <1>6. BeatInv'
        BY <1>1, <1>2, <1>3, <1>4, <1>5 DEF BeatInv
  <1>7. ForwardStep
    <2> SUFFICES ASSUME NEW x \in granted, NEW y \in granted', x.window = y.window
                 PROVE  x.beat <= y.beat
        BY DEF ForwardStep
    <2>1. CASE y = r
          BY <1>1, <1>3, <2>1
    <2>2. CASE y # r
      <3>1. x = y
            BY <1>4, <2>2 DEF BeatInv
      <3>2. QED
            BY <1>4, <3>1
    <2>3. QED
          BY <2>1, <2>2
  <1>8. QED
        BY <1>6, <1>7

LEMMA BeatStep ==
  ASSUME OneProcessPerWindow, IInv, BeatInv, [Next]_vars
  PROVE  BeatInv' /\ ForwardStep
  <1>1. CASE UNCHANGED vars
    <2>1. BeatInv'
          BY <1>1 DEF vars, BeatInv
    <2>2. QED
          BY <1>1, <2>1, BeatUnmoved DEF vars
  <1>2. ASSUME NEW p \in Proc, CallReserve(p) \/ CallHeartbeat(p) \/ CallRelease(p)
        PROVE  BeatInv' /\ ForwardStep
    <2>1. PICK op, w, c, ttl, first : Start(p, op, w, c, ttl, first)
          BY <1>2 DEF CallReserve, CallHeartbeat, CallRelease
    <2>2. granted' = granted
          BY <2>1 DEF Start
    <2>3. QED
          BY <2>1, <2>2, BeatStart, BeatUnmoved
  <1>3. ASSUME NEW p \in Proc, Probe(p) \/ Enter(p) \/ Read(p) \/ Leave(p) \/ Crash(p)
        PROVE  BeatInv' /\ ForwardStep
    <2>1. granted' = granted /\ now' = now
          BY <1>3 DEF Probe, Enter, Read, Leave, Crash
    <2>2. \A q \in Proc : pc'[q] # "idle" => pc[q] # "idle" /\ call'[q] = call[q]
          BY <1>3 DEF Probe, Enter, Read, Leave, Crash, End, IInv, TypeOK
    <2>3. QED
          BY <2>1, <2>2, BeatQuiet, BeatUnmoved
  <1>4. ASSUME NEW p \in Proc, ReserveRefuse(p) \/ HeartbeatNone(p) \/ Release(p)
        PROVE  BeatInv' /\ ForwardStep
    <2>1. /\ now' = now /\ call' = call /\ pc[p] = "write" /\ pc' = [pc EXCEPT ![p] = "leave"]
          /\ granted' \subseteq granted
          BY <1>4 DEF ReserveRefuse, HeartbeatNone, Release, Decide, Others
    <2>2. \A q \in Proc : pc'[q] # "idle" => pc[q] # "idle"
          BY <2>1 DEF IInv, TypeOK
    <2>3. QED
          BY <2>1, <2>2, BeatQuiet, BeatUnmoved
  <1>5. CASE Tick
    <2>1. now' = now + 1 /\ now \in Nat /\ UNCHANGED <<pc, call, granted>>
          BY <1>5 DEF Tick, IInv, TypeOK
    <2>2. \A r \in granted : r.beat <= now /\ r.beat \in Nat
          BY DEF BeatInv, IInv, TypeOK, Record
    <2>3. \A r \in granted : r.beat <= now'
          BY <2>1, <2>2
    <2>4. BeatInv'
          BY <2>1, <2>3 DEF BeatInv
    <2>5. QED
          BY <2>1, <2>4, BeatUnmoved
  <1>6. CASE Garble \/ Repair
    <2>1. granted' \subseteq granted /\ UNCHANGED <<now, pc, call>>
          BY <1>6 DEF Garble, Repair
    <2>2. QED
          BY <2>1, BeatQuiet, BeatUnmoved
  <1>7. QED
        BY <1>1, <1>2, <1>3, <1>4, <1>5, <1>6, BeatGrant DEF Next, Step, Commit

\* While one process serves a window, no call moves its liveness clock back,
\* however long it waited for the lock.
THEOREM BeatsMoveForward ==
  ASSUME OneProcessPerWindow
  PROVE  Spec => BeatForward
  <1>1. Init => BeatInv
        BY DEF Init, BeatInv
  <1>2. IInv /\ BeatInv /\ [Next]_vars => BeatInv' /\ ForwardStep
        BY BeatStep
  <1>3. IInv /\ BeatInv /\ [Next]_vars => [ForwardStep]_vars
        BY <1>2
  <1>4. BeatForward <=> [][ForwardStep]_vars
        BY DEF BeatForward, ForwardStep
  <1> QED BY <1>1, <1>2, <1>3, <1>4, Inductive, PTL DEF Spec
=============================================================================
