---------------------------- MODULE RunnerSlots ----------------------------
(***************************************************************************)
(* The global concurrency limiter of scripts/agent_loop.py and the lanes   *)
(* that spawn under it.  A pool thread takes a permit to create its task's *)
(* worktree, one per CLI child of a runner call (write_active_codex_runner,*)
(* spawn_and_wait: all children are spawned first and waited for           *)
(* afterwards, a codex child keeps its permit in between) and one for the  *)
(* patch lane.  acquire() has no timeout.                                  *)
(***************************************************************************)
EXTENDS Naturals, FiniteSets, Sequences

CONSTANTS
  Worker,    \* threads of the task pool
  M,         \* permits of the limiter
  MaxBatch,  \* longest list of sessions of one runner call
  Batch,     \* the calls: the agent of every live session, in order
  Timed,     \* --timeout-seconds is set
  Capped,    \* --max-commands-per-session is set
  Tasks      \* bound on the cycles of all workers together

Agent == {"codex", "claude"}
Slot == 1..MaxBatch

ASSUME SlotsAssumption ==
  /\ IsFiniteSet(Worker) /\ Worker # {}
  /\ M \in Nat \ {0}
  /\ MaxBatch \in Nat \ {0}
  /\ Batch \subseteq {b \in Seq(Agent) : Len(b) <= MaxBatch}
  /\ {Timed, Capped} \subseteq BOOLEAN
  /\ Tasks \in Nat

VARIABLES
  free,      \* the semaphore's value
  held,      \* permits taken and not given back: <<worker, session>>, session 0 for slot()
  left,      \* cycles still to be started
  pc,        \* where each worker is
  batch,     \* the sessions of its runner call
  at,        \* the session its loop is at; in the patch lane, lanes tried
  spawned,   \* sessions in batch_spawned
  status,    \* item["status"] of every session
  child,     \* the CLI child of every session, 0 for the patch lane's
  over,      \* sessions whose reader set budget_exceeded
  blocked,   \* the call has a blocker
  raising,   \* an exception is on its way out
  strays     \* workers whose patch lane left a running child behind

limiter == <<free, held>>
call == <<left, batch, at, spawned, blocked, raising>>
vars == <<limiter, call, pc, status, child, over, strays>>

Label == {"idle", "create", "creating", "plan", "phase1", "turn", "pending", "phase2",
          "finally", "conclude", "patch", "patching", "patchwait"}
Status == {"planned", "running", "completed", "failed", "timeout", "budget-exceeded",
           "spawn-failed", "terminated"}
Child == {"none", "alive", "ok", "bad", "stopped"}

TypeOK ==
  /\ free \in 0..M
  /\ held \subseteq Worker \X (0..MaxBatch)
  /\ left \in 0..Tasks
  /\ pc \in [Worker -> Label]
  /\ batch \in [Worker -> Seq(Agent)]
  /\ \A w \in Worker : Len(batch[w]) <= MaxBatch
  /\ at \in [Worker -> 0..MaxBatch + 1]
  /\ spawned \in [Worker -> SUBSET Slot]
  /\ status \in [Worker -> [Slot -> Status]]
  /\ child \in [Worker -> [0..MaxBatch -> Child]]
  /\ over \in [Worker -> SUBSET Slot]
  /\ blocked \in [Worker -> BOOLEAN]
  /\ raising \in [Worker -> BOOLEAN]
  /\ strays \in SUBSET Worker

NoSession == [k \in Slot |-> "planned"]
NoChild == [k \in 0..MaxBatch |-> "none"]

Init ==
  /\ free = M
  /\ held = {}
  /\ left = Tasks
  /\ pc = [w \in Worker |-> "idle"]
  /\ batch = [w \in Worker |-> <<>>]
  /\ at = [w \in Worker |-> 0]
  /\ spawned = [w \in Worker |-> {}]
  /\ status = [w \in Worker |-> NoSession]
  /\ child = [w \in Worker |-> NoChild]
  /\ over = [w \in Worker |-> {}]
  /\ blocked = [w \in Worker |-> FALSE]
  /\ raising = [w \in Worker |-> FALSE]
  /\ strays = {}
-----------------------------------------------------------------------------
(* The limiter *)

\* acquire(): waits for as long as it takes.
Take(w, k) ==
  /\ free > 0
  /\ free' = free - 1
  /\ held' = held \cup {<<w, k>>}

\* Mutant: the release is not one-shot.
GiveAlways(w, k) ==
  /\ free' = IF free < M THEN free + 1 ELSE free
  /\ held' = held \ {<<w, k>>}

\* The one-shot release of a child, or the end of a slot(): giving back what
\* was already given back does nothing.
Give(w, k) ==
  /\ free' = IF <<w, k>> \in held THEN free + 1 ELSE free
  /\ held' = held \ {<<w, k>>}

Goto(w, label) == pc' = [pc EXCEPT ![w] = label]

\* _stop_codex_process: a child that has ended on its own stays as it is.
Stopped(c) == IF c = "alive" THEN "stopped" ELSE c
-----------------------------------------------------------------------------
(* A cycle up to its runner call *)

\* A pool of more than one gives every task a worktree.
StartCycle(w) ==
  /\ pc[w] = "idle"
  /\ left > 0
  /\ left' = left - 1
  /\ Goto(w, IF Cardinality(Worker) > 1 THEN "create" ELSE "plan")
  /\ UNCHANGED <<limiter, batch, at, spawned, blocked, raising, status, child, over, strays>>

CreateTree(w) ==
  /\ pc[w] = "create"
  /\ Take(w, 0)
  /\ Goto(w, "creating")
  /\ UNCHANGED <<call, status, child, over, strays>>

\* Mutant: the slot is held on into the cycle.
TreeCreatedHolding(w) ==
  /\ pc[w] = "creating"
  /\ \E label \in {"plan", "idle"} : Goto(w, label)
  /\ UNCHANGED <<limiter, call, status, child, over, strays>>

\* A worktree that cannot be created ends the cycle.
TreeCreated(w) ==
  /\ pc[w] = "creating"
  /\ Give(w, 0)
  /\ \E label \in {"plan", "idle"} : Goto(w, label)
  /\ UNCHANGED <<call, status, child, over, strays>>

\* A missing executable, login or assignment blocks the call before anything
\* is spawned.
PlanCall(w) ==
  /\ pc[w] = "plan"
  /\ batch' \in {[batch EXCEPT ![w] = b] : b \in Batch}
  /\ at' = [at EXCEPT ![w] = 1]
  /\ \E b \in BOOLEAN :
       /\ blocked' = [blocked EXCEPT ![w] = b]
       /\ Goto(w, IF b THEN "conclude" ELSE "phase1")
  /\ UNCHANGED <<limiter, left, spawned, raising, status, child, over, strays>>
-----------------------------------------------------------------------------
(* Phase 1: spawn every session *)

Here(w) == at[w]
InBatch(w, agent) ==
  /\ pc[w] = "phase1"
  /\ Here(w) \in 1..Len(batch[w])
  /\ batch[w][Here(w)] = agent

SetStatus(w, k, s) == status' = [status EXCEPT ![w][k] = s]
SetChild(w, k, c) == child' = [child EXCEPT ![w][k] = c]

\* A claude session is a whole turn under slot(), whatever codex children of
\* the batch are already running.
StartTurn(w) ==
  /\ InBatch(w, "claude")
  /\ Take(w, Here(w))
  /\ SetStatus(w, Here(w), "running")
  /\ SetChild(w, Here(w), "alive")
  /\ Goto(w, "turn")
  /\ UNCHANGED <<call, over, strays>>

\* It ends executed, or not executed, or by an exception: a blocker, and the
\* next session is spawned all the same.
EndTurn(w) ==
  /\ pc[w] = "turn"
  /\ \E ok \in BOOLEAN :
       /\ SetStatus(w, Here(w), IF ok THEN "completed" ELSE "failed")
       /\ SetChild(w, Here(w), IF ok THEN "ok" ELSE "stopped")
       /\ blocked' = [blocked EXCEPT ![w] = @ \/ ~ok]
  /\ Give(w, Here(w))
  /\ at' = [at EXCEPT ![w] = @ + 1]
  /\ Goto(w, "phase1")
  /\ UNCHANGED <<left, batch, spawned, raising, over, strays>>

Acquire(w) ==
  /\ InBatch(w, "codex")
  /\ Take(w, Here(w))
  /\ Goto(w, "pending")
  /\ UNCHANGED <<call, status, child, over, strays>>

Spawn(w) ==
  /\ pc[w] = "pending"
  /\ SetStatus(w, Here(w), "running")
  /\ SetChild(w, Here(w), "alive")
  /\ spawned' = [spawned EXCEPT ![w] = @ \cup {Here(w)}]
  /\ at' = [at EXCEPT ![w] = @ + 1]
  /\ Goto(w, "phase1")
  /\ UNCHANGED <<limiter, left, batch, blocked, raising, over, strays>>

\* OSError: the child could not be started, or it runs and its stdin broke.
SpawnFails(w) ==
  /\ pc[w] = "pending"
  /\ \E c \in {"none", "alive"} : SetChild(w, Here(w), c)
  /\ SetStatus(w, Here(w), "spawn-failed")
  /\ blocked' = [blocked EXCEPT ![w] = TRUE]
  /\ Goto(w, "finally")
  /\ UNCHANGED <<limiter, left, batch, at, spawned, raising, over, strays>>

\* Thread.start() of the reader raises after the child was started.
ReaderFails(w) ==
  /\ pc[w] = "pending"
  /\ SetStatus(w, Here(w), "running")
  /\ SetChild(w, Here(w), "alive")
  /\ raising' = [raising EXCEPT ![w] = TRUE]
  /\ Goto(w, "finally")
  /\ UNCHANGED <<limiter, left, batch, at, spawned, blocked, over, strays>>

EndPhase1(w) ==
  /\ pc[w] = "phase1"
  /\ Here(w) > Len(batch[w])
  /\ at' = [at EXCEPT ![w] = 1]
  /\ Goto(w, "phase2")
  /\ UNCHANGED <<limiter, left, batch, spawned, blocked, raising, status, child, over, strays>>
-----------------------------------------------------------------------------
(* Phase 2: wait for them in the same order *)

Remaining(w) == {k \in spawned[w] : k >= at[w]}
First(S) == CHOOSE k \in S : \A j \in S : k <= j
InTurn(w) == pc[w] = "phase2" /\ Remaining(w) # {}

\* A blocker, from whichever phase: this child is stopped and the rest is
\* left to the finally clause.
BreakOff(w) ==
  /\ InTurn(w)
  /\ blocked[w]
  /\ LET k == First(Remaining(w)) IN SetChild(w, k, Stopped(child[w][k])) /\ Give(w, k)
  /\ Goto(w, "finally")
  /\ UNCHANGED <<call, status, over, strays>>

\* What a child that has ended is recorded as, its reader joined.
Outcome(w, k) ==
  IF k \in over[w] THEN "budget-exceeded"
  ELSE IF child[w][k] = "ok" THEN "completed" ELSE "failed"

Reap(w) ==
  /\ InTurn(w)
  /\ ~blocked[w]
  /\ LET k == First(Remaining(w)) IN
       /\ child[w][k] # "alive"
       /\ SetStatus(w, k, Outcome(w, k))
       /\ blocked' = [blocked EXCEPT ![w] = Outcome(w, k) # "completed"]
       /\ Give(w, k)
       /\ at' = [at EXCEPT ![w] = k + 1]
  /\ UNCHANGED <<left, batch, spawned, raising, pc, child, over, strays>>

WaitTimesOut(w) ==
  /\ Timed
  /\ InTurn(w)
  /\ ~blocked[w]
  /\ LET k == First(Remaining(w)) IN
       /\ child[w][k] = "alive"
       /\ SetStatus(w, k, "timeout")
       /\ SetChild(w, k, "stopped")
       /\ Give(w, k)
       /\ at' = [at EXCEPT ![w] = k + 1]
  /\ blocked' = [blocked EXCEPT ![w] = TRUE]
  /\ UNCHANGED <<left, batch, spawned, raising, pc, over, strays>>

EndPhase2(w) ==
  /\ pc[w] = "phase2"
  /\ Remaining(w) = {}
  /\ Goto(w, "finally")
  /\ UNCHANGED <<limiter, call, status, child, over, strays>>
-----------------------------------------------------------------------------
(* The finally clause, on every way out of the two phases *)

Undrained(w) == {k \in spawned[w] : status[w][k] = "running" \/ <<w, k>> \in held}

\* Mutant: the permit is given back and the child runs on.
DrainUnstopped(w) ==
  /\ pc[w] = "finally"
  /\ Undrained(w) # {}
  /\ LET k == First(Undrained(w)) IN
       /\ IF status[w][k] = "running" THEN SetStatus(w, k, "terminated") ELSE UNCHANGED status
       /\ Give(w, k)
  /\ UNCHANGED <<call, pc, child, over, strays>>

\* Stop what still runs, then give its permit back.
Drain(w) ==
  /\ pc[w] = "finally"
  /\ Undrained(w) # {}
  /\ LET k == First(Undrained(w)) IN
       /\ IF status[w][k] = "running"
          THEN SetStatus(w, k, "terminated") /\ SetChild(w, k, Stopped(child[w][k]))
          ELSE UNCHANGED <<status, child>>
       /\ Give(w, k)
  /\ UNCHANGED <<call, pc, over, strays>>

\* The child that never reached batch_spawned, if there is one.
Straggler(w) == {k \in Slot : <<w, k>> \in held /\ k \notin spawned[w]}

\* Mutant: the finally clause sees batch_spawned only.
EndFinallyBlind(w) ==
  /\ pc[w] = "finally"
  /\ Undrained(w) = {}
  /\ Goto(w, "conclude")
  /\ UNCHANGED <<limiter, call, status, child, over, strays>>

\* Its process is stopped and its permit given back.
EndFinally(w) ==
  /\ pc[w] = "finally"
  /\ Undrained(w) = {}
  /\ IF Straggler(w) = {} THEN UNCHANGED <<limiter, child>>
     ELSE LET k == First(Straggler(w)) IN SetChild(w, k, Stopped(child[w][k])) /\ Give(w, k)
  /\ Goto(w, "conclude")
  /\ UNCHANGED <<call, status, over, strays>>

\* The call returns or raises and its locals are gone.  It may be followed by
\* the patch lane, after a blocked decision or a gate that is not ready.
Conclude(w) ==
  /\ pc[w] = "conclude"
  /\ \E label \in (IF raising[w] THEN {"idle"} ELSE {"idle", "patch"}) : Goto(w, label)
  /\ at' = [at EXCEPT ![w] = 0]
  /\ batch' = [batch EXCEPT ![w] = <<>>]
  /\ spawned' = [spawned EXCEPT ![w] = {}]
  /\ status' = [status EXCEPT ![w] = NoSession]
  /\ child' = [child EXCEPT ![w] = NoChild]
  /\ over' = [over EXCEPT ![w] = {}]
  /\ blocked' = [blocked EXCEPT ![w] = FALSE]
  /\ raising' = [raising EXCEPT ![w] = FALSE]
  /\ UNCHANGED <<limiter, left, strays>>
-----------------------------------------------------------------------------
(* The patch lane: one child under slot(), and one fall-back to the other agent *)

PatchSlot(w) ==
  /\ pc[w] = "patch"
  /\ Take(w, 0)
  /\ Goto(w, "patching")
  /\ UNCHANGED <<call, status, child, over, strays>>

\* Mutant: the fall-back may fall back in turn.
PatchOverAgain(w) ==
  /\ Give(w, 0)
  /\ \/ Goto(w, "idle") /\ UNCHANGED at
     \/ at' = [at EXCEPT ![w] = @ + 1] /\ Goto(w, "patch")
  /\ UNCHANGED <<left, batch, spawned, blocked, raising, status, over>>

\* A lane that did not complete may be tried once more by the other agent.
PatchOver(w) ==
  /\ Give(w, 0)
  /\ \/ Goto(w, "idle") /\ UNCHANGED at
     \/ at[w] = 0 /\ at' = [at EXCEPT ![w] = 1] /\ Goto(w, "patch")
  /\ UNCHANGED <<left, batch, spawned, blocked, raising, status, over>>

PatchSpawn(w) ==
  /\ pc[w] = "patching"
  /\ SetChild(w, 0, "alive")
  /\ Goto(w, "patchwait")
  /\ UNCHANGED <<limiter, call, status, over, strays>>

\* OSError: the child was not started; or its stdin broke, and then nothing
\* waits for it, stops it or keeps its permit.
PatchSpawnFails(w) ==
  /\ pc[w] = "patching"
  /\ PatchOver(w)
  /\ strays' \in {strays, strays \cup {w}}
  /\ UNCHANGED child

PatchEnds(w) ==
  /\ pc[w] = "patchwait"
  /\ child[w][0] \in {"ok", "bad"} \/ Timed
  /\ SetChild(w, 0, "none")
  /\ PatchOver(w)
  /\ UNCHANGED strays
-----------------------------------------------------------------------------
(* The children and their readers *)

ChildEnds(w, k) ==
  /\ child[w][k] = "alive"
  /\ pc[w] # "turn" \/ k # at[w]
  /\ \E c \in {"ok", "bad"} : SetChild(w, k, c)
  /\ UNCHANGED <<limiter, call, pc, status, over, strays>>

\* The reader counts one command too many, which it may find out only after
\* the child has ended, but before it is joined.
OverBudget(w, k) ==
  /\ Capped
  /\ k \in spawned[w] \ over[w]
  /\ status[w][k] = "running"
  /\ over' = [over EXCEPT ![w] = @ \cup {k}]
  /\ SetChild(w, k, Stopped(child[w][k]))
  /\ UNCHANGED <<limiter, call, pc, status, strays>>

StrayEnds(w) ==
  /\ w \in strays
  /\ strays' = strays \ {w}
  /\ UNCHANGED <<limiter, call, pc, status, child, over>>
-----------------------------------------------------------------------------
Cycle(w) ==
  \/ CreateTree(w) \/ TreeCreated(w) \/ PlanCall(w)
  \/ StartTurn(w) \/ EndTurn(w)
  \/ Acquire(w) \/ Spawn(w) \/ SpawnFails(w) \/ ReaderFails(w) \/ EndPhase1(w)
  \/ BreakOff(w) \/ Reap(w) \/ WaitTimesOut(w) \/ EndPhase2(w)
  \/ Drain(w) \/ EndFinally(w) \/ Conclude(w)
  \/ PatchSlot(w) \/ PatchSpawn(w) \/ PatchSpawnFails(w) \/ PatchEnds(w)

Next ==
  \E w \in Worker :
    \/ StartCycle(w) \/ Cycle(w) \/ StrayEnds(w)
    \/ \E k \in 0..MaxBatch : ChildEnds(w, k)
    \/ \E k \in Slot : OverBudget(w, k)

Spec == Init /\ [][Next]_vars

\* A thread that can go on does, and a CLI child ends: the cycles are as many
\* as the queue has tasks, so weak fairness is enough for a waiting acquire().
FairSpec ==
  /\ Spec
  /\ \A w \in Worker :
       /\ WF_vars(Cycle(w))
       /\ \A k \in 0..MaxBatch : WF_vars(ChildEnds(w, k))
-----------------------------------------------------------------------------
(* Properties *)

\* "The load-bearing invariant that no acquired slot is ever leaked": the
\* semaphore's value and the permits held add up on every path through the
\* two phases and the finally clause, and nothing is given back twice.
PermitsConserved == free + Cardinality(held) = M

\* A call that is over (blocked, aborted by a failed spawn, left by an
\* exception or completed) holds no permit and has left no child running.
NothingLeftBehind ==
  \A w \in Worker : pc[w] \in {"conclude", "idle", "patch"} =>
    \A k \in 0..MaxBatch : <<w, k>> \notin held /\ child[w][k] # "alive"

\* A running child is paid for by a permit of its own for as long as it runs:
\* with PermitsConserved this is the ceiling of M children, the patch lane's
\* strays aside.
ChildrenHavePermits ==
  \A w \in Worker : \A k \in 0..MaxBatch : child[w][k] = "alive" => <<w, k>> \in held

\* Every cycle that is started ends: no pool thread waits for a permit that
\* only threads in the same position could give back.
CycleEnds == \A w \in Worker : pc[w] # "idle" ~> pc[w] = "idle"
=============================================================================
