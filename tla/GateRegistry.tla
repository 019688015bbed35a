---------------------------- MODULE GateRegistry ----------------------------
(***************************************************************************)
(* session_registry.json of scripts/agent_loop.py and the Conservative Gate *)
(* that reads it.  Sessions record their verdicts as heartbeats; the active *)
(* loop ages them, and ships when every gating role has passed.  Each call  *)
(* reads the whole file, changes its part and writes the whole file back:   *)
(* without a lock, and by truncating it first.                              *)
(***************************************************************************)
EXTENDS Naturals, FiniteSets, Sequences

CONSTANTS
  Role,      \* the roles that gate a ship (_active_required_gate_roles)
  Loop,      \* the process of active-loop and of the omc runner
  Modes,     \* one call at a time (TRUE), as in a pool of one, or sessions of their own
  Ttl,       \* --lease-ttl-minutes
  MaxTime,   \* bound on the clock
  Turns,     \* Turns[mode]: bound on the turns of all sessions
  Calls,     \* Calls[mode]: bound on the calls of the loop
  Crashes    \* bound on the crashes

ASSUME GateAssumption ==
  /\ Role # {} /\ Loop \notin Role
  /\ Modes \subseteq BOOLEAN
  /\ Ttl \in Nat \ {0}
  /\ {Turns, Calls} \subseteq [Modes -> Nat]
  /\ MaxTime \in Nat \ {0} /\ Crashes \in Nat

VARIABLES
  file,      \* the registry, Empty or Garbled
  now,       \* the wall clock
  alone,     \* the mode of this system
  pc,        \* where each process is in its call
  snap,      \* the registry a call has read, changed as it will be written
  said,      \* the verdicts a turn has still to record ("none": an omc run takes back all)
  readAt,    \* the clock as the loop's call read it, before gh and the registry
  spoken,    \* history: when a role's heartbeats said that it passed
  last,      \* history: the verdict of a role's latest completed heartbeat (alone)
  left       \* turns and calls still to be made, crashes still to come

calls == <<pc, snap, said, readAt>>
history == <<spoken, last>>
vars == <<file, now, alone, calls, history, left>>

Process == Role \cup {Loop}
Time == 1..MaxTime

\* "approved" and "clear" pass; "needs-attention", "blocked" and "error" do not.
Verdict == {"passed", "blocked"}
Record == [status : Verdict \cup {"none", "idle", "stale", "pending-omc-review"},
           beat : 0..MaxTime]
Registry == [Role -> Record]
Unreadable(status) == [r \in Role |-> [status |-> status, beat |-> 0]]   \* no JSON
Empty == Unreadable("empty")
Garbled == Unreadable("garbled")
Broken == {Empty, Garbled}
NoRecord == [status |-> "none", beat |-> 0]
NoRegistry == [r \in Role |-> NoRecord]
Label == {"idle", "turn", "settle", "look", "shipping", "write", "fill"}

TypeOK ==
  /\ file \in Registry \cup Broken
  /\ now \in Time /\ alone \in Modes
  /\ pc \in [Process -> Label]
  /\ snap \in [Process -> Registry]
  /\ said \in [Process -> Seq(Verdict \cup {"none"})]
  /\ readAt \in Time
  /\ spoken \in [Role -> SUBSET Time]
  /\ last \in [Role -> Verdict \cup {"none"}]
  /\ left \in [turns : 0..Turns[alone], calls : 0..Calls[alone], crashes : 0..Crashes]
  \* The file is empty only while somebody writes it or after a crash, and
  \* garbled only where calls overlap.
  /\ file = Empty => left.crashes < Crashes \/ \E p \in Process : pc[p] = "fill"
  /\ file = Garbled => ~alone

Init ==
  /\ file = NoRegistry
  /\ now = 1
  /\ alone \in Modes
  /\ pc = [p \in Process |-> "idle"]
  /\ snap = [p \in Process |-> NoRegistry]
  /\ said = [p \in Process |-> <<>>]
  /\ readAt = 1
  /\ spoken = [r \in Role |-> {}]
  /\ last = [r \in Role |-> "none"]
  /\ left = [turns |-> Turns[alone], calls |-> Calls[alone], crashes |-> Crashes]
-----------------------------------------------------------------------------
(* Every call: read, change, truncate, fill *)

Goto(p, label) == pc' = [pc EXCEPT ![p] = label]
MayCall(p) == pc[p] = "idle" /\ (alone => \A q \in Process : pc[q] = "idle")

\* A call that fails or dies changes nothing any more.
GiveUp(p) ==
  /\ Goto(p, "idle")
  /\ snap' = [snap EXCEPT ![p] = NoRegistry]
  /\ said' = [said EXCEPT ![p] = <<>>]

\* write_text opens the file for writing, which empties it.
Truncate(p) ==
  /\ pc[p] = "write"
  /\ file' = Empty
  /\ Goto(p, "fill")
  /\ UNCHANGED <<now, alone, snap, said, readAt, history, left>>

\* It then writes from the start of the file.  Where another call has filled it
\* since, the tail of a longer text stays behind the shorter one, with no crash.
Written(p) == IF file = Empty THEN {snap[p]} ELSE {snap[p], Garbled}

\* With that the call is over; a dual turn goes on.
Fill(p) ==
  /\ pc[p] = "fill"
  /\ file' \in Written(p)
  /\ snap' = [snap EXCEPT ![p] = NoRegistry]
  /\ IF said[p] = <<>> THEN Goto(p, "idle") /\ UNCHANGED <<said, last>>
     ELSE /\ Goto(p, <<"idle", "settle", "turn">>[Len(said[p])])
          /\ said' = [said EXCEPT ![p] = Tail(@)]
          /\ last' = [r \in Role |-> IF alone /\ p \in {r, Loop} THEN Head(said[p]) ELSE last[r]]
  /\ UNCHANGED <<now, alone, readAt, spoken, left>>
-----------------------------------------------------------------------------
(* A session's turn *)

Stricter(u, v) == IF "blocked" \in {u, v} THEN "blocked" ELSE "passed"

\* write_dual_agent_turn records the verdict of each lane and then the stricter.
Dual(u, v) == <<u, v, Stricter(u, v)>>

\* A turn of one lane, or of two; two that agree count as one.  A lane that the
\* privacy audit rejects ends the turn as blocked.
Turn(r) ==
  /\ MayCall(r)
  /\ left.turns > 0
  /\ left' = [left EXCEPT !.turns = @ - 1]
  /\ \E u, v \in Verdict :
       said' = [said EXCEPT ![r] = IF u = v THEN <<u>> ELSE Dual(u, v)]
  /\ Goto(r, "turn")
  /\ UNCHANGED <<file, now, alone, snap, readAt, history>>

\* write_session_heartbeat changes the status and the time of its own session.
Set(registry, r, v) == [registry EXCEPT ![r] = [status |-> v, beat |-> now]]

Heartbeat(r) ==
  /\ pc[r] \in {"turn", "settle"}
  /\ file \notin Broken
  /\ LET v == Head(said[r]) IN
     /\ snap' = [snap EXCEPT ![r] = Set(file, r, v)]
     /\ spoken' = IF v = "passed" THEN [spoken EXCEPT ![r] = @ \cup {now}] ELSE spoken
  /\ Goto(r, "write")
  /\ UNCHANGED <<file, now, alone, said, readAt, last, left>>

\* A broken file cannot be read.
HeartbeatFails(r) ==
  /\ pc[r] \in {"turn", "settle"}
  /\ file \in Broken
  /\ GiveUp(r)
  /\ UNCHANGED <<file, now, alone, readAt, history, left>>
-----------------------------------------------------------------------------
(* The loop *)

\* Mutant: the state of the heartbeat is put down as the status.
AgedState(rec) ==
  [rec EXCEPT !.status = IF readAt > rec.beat + Ttl THEN "stale"
                         ELSE IF rec.status = "passed" THEN "fresh" ELSE rec.status]

\* Mutant: the age of a heartbeat does not matter.
AgedNever(rec) == IF rec.status = "none" THEN [status |-> "idle", beat |-> readAt] ELSE rec

\* _build_active_sessions: a role without a record gets an idle one, a
\* heartbeat older than the TTL makes its status "stale".
Aged(rec) ==
  IF rec.status = "none" THEN [status |-> "idle", beat |-> readAt]
  ELSE IF readAt > rec.beat + Ttl THEN [rec EXCEPT !.status = "stale"]
  ELSE rec

\* _active_role_status_ok of every required role.
Passes(registry) == \A r \in Role : registry[r].status = "passed"

\* What write_active_gate_evidence reports between two calls: it does not age
\* the records.
Ready == (\A p \in Process : pc[p] = "idle") /\ Passes(file)

LoopCall == MayCall(Loop) /\ left.calls > 0 /\ left' = [left EXCEPT !.calls = @ - 1]

\* write_active_loop, with or without --execute: it reads the clock and asks gh
\* for the pull request ...
Look ==
  /\ LoopCall
  /\ Goto(Loop, "look")
  /\ readAt' = now
  /\ UNCHANGED <<file, now, alone, snap, said, history>>

\* ... then reads the registry.  It ships when its snapshot passes and nothing
\* else blocks, and writes the snapshot back afterwards.
ActiveLoop ==
  /\ pc[Loop] = "look"
  /\ file \notin Broken
  /\ LET registry == [r \in Role |-> Aged(file[r])] IN
     /\ snap' = [snap EXCEPT ![Loop] = registry]
     /\ \/ Goto(Loop, "write") /\ readAt' = 1
        \/ Passes(registry) /\ Goto(Loop, "shipping") /\ UNCHANGED readAt
  /\ UNCHANGED <<file, now, alone, said, history, left>>

ActiveLoopFails ==
  /\ pc[Loop] = "look"
  /\ file \in Broken
  /\ GiveUp(Loop)
  /\ readAt' = 1
  /\ UNCHANGED <<file, now, alone, history, left>>

\* make ship-run has ended, one way or the other.
Shipped ==
  /\ pc[Loop] = "shipping"
  /\ Goto(Loop, "write")
  /\ readAt' = 1
  /\ UNCHANGED <<file, now, alone, snap, said, history, left>>

\* Mutant: the omc runner leaves the verdicts of earlier runs alone.
ResetNone(rec) == rec

\* _invalidate_omc_blocking_gate_heartbeats: after an omc run the records of
\* all gating roles say that no review has been made.
Reset(rec) == IF rec.status = "none" THEN rec ELSE [rec EXCEPT !.status = "pending-omc-review"]

Invalidate ==
  /\ LoopCall
  /\ file \notin Broken \cup {NoRegistry}
  /\ snap' = [snap EXCEPT ![Loop] = [r \in Role |-> Reset(file[r])]]
  /\ said' = [said EXCEPT ![Loop] = <<"none">>]
  /\ Goto(Loop, "write")
  /\ UNCHANGED <<file, now, alone, readAt, history>>

InvalidateFails ==
  /\ LoopCall
  /\ file \in Broken
  /\ UNCHANGED <<file, now, alone, calls, history>>
-----------------------------------------------------------------------------
(* The surroundings *)

\* A process dies anywhere, also between truncating the file and filling it.
Crash(p) ==
  /\ left.crashes > 0
  /\ pc[p] # "idle"
  /\ left' = [left EXCEPT !.crashes = @ - 1]
  /\ GiveUp(p)
  /\ readAt' = IF p = Loop THEN 1 ELSE readAt
  /\ UNCHANGED <<file, now, alone, history>>

Tick ==
  /\ now < MaxTime
  /\ now' = now + 1
  /\ UNCHANGED <<file, alone, calls, history, left>>

Session(r) == Turn(r) \/ Heartbeat(r) \/ HeartbeatFails(r)

Next ==
  \/ \E r \in Role : Session(r)
  \/ Look \/ ActiveLoop \/ ActiveLoopFails \/ Shipped \/ Invalidate \/ InvalidateFails
  \/ \E p \in Process : Truncate(p) \/ Fill(p) \/ Crash(p)
  \/ Tick

Spec == Init /\ [][Next]_vars
-----------------------------------------------------------------------------
(* Properties *)

\* Full Ship Gate: a ship runs only when every gating role's own session
\* spoke a pass, no more than the TTL before the gate read its clock.
ShipsOnFreshPasses ==
  pc[Loop] = "shipping" => \A r \in Role : \E beat \in spoken[r] : readAt <= beat + Ttl

\* Where calls do not overlap, a ship runs, and the gate evidence says ready,
\* only on the latest heartbeats: a later non-pass or an omc run takes an
\* earlier pass back, through any ageing, ship and crash in between.
LatestVerdictGates ==
  alone /\ (pc[Loop] = "shipping" \/ Ready) => \A r \in Role : last[r] = "passed"
=============================================================================
