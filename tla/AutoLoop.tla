------------------------------ MODULE AutoLoop ------------------------------
(***************************************************************************)
(* The bounded / infinite auto loop of scripts/agent_loop.py               *)
(* (write_active_auto_loop): a driver thread claims tasks and submits them *)
(* to a thread pool; every task runs one cycle (in a worktree of its own   *)
(* when the pool is wider than one), ends completed, deferred or blocked,  *)
(* and writes a checkpoint.  A run may die anywhere; the next one loads    *)
(* the state file.                                                         *)
(***************************************************************************)
EXTENDS LoopLedger

CONSTANTS
  Pools,       \* the task pool sizes there may be in effect
  Args,        \* the command lines a run may be started with
  AttemptCap,  \* auto_max_iterations_cap
  MaxStreak,   \* max_consecutive_blockers
  MaxRuns      \* MaxRuns[n]: bound on the runs of the loop at pool size n

\* infinite: --max-iterations 0, else iterations; target: --target-completed-
\* count, 0 when not given; named: --task-id, empty when not given; clock: a
\* wall-clock budget is set; repair and ship: auto_repair and execute_ship;
\* timeout: a positive --timeout-seconds (the default 0 is no limit at all).
CommandLine ==
  [infinite : BOOLEAN, iterations : Nat, target : Nat, named : SUBSET Task,
   clock : BOOLEAN, repair : BOOLEAN, ship : BOOLEAN, timeout : BOOLEAN]

ASSUME LoopAssumption ==
  /\ Pools \subseteq Nat \ {0}
  /\ {AttemptCap, MaxStreak} \subseteq Nat
  /\ MaxRuns \in [Pools -> Nat]
  /\ Args \subseteq CommandLine
  /\ \A a \in Args : ~a.infinite => a.iterations > 0
  /\ IsFiniteSet(Task)

VARIABLES
  pool,       \* the task pool size: 1 where the kill switch is set or HEAD is not origin/main
  args,       \* the current run's command line
  dpc,        \* where the driver is; "idle" between runs
  inflight,   \* tasks whose future the driver has not joined
  iteration,  \* claims attempted in this run
  target,     \* target_completed_count, 0 for none
  stop,       \* stop_event
  wall,       \* wall_clock_exceeded
  decision,   \* what the last run reported
  runs,       \* runs started so far
  pc,         \* where each task's cycle is
  trees,      \* tasks whose cycle worktree is to be mirrored and torn down
  raising,    \* tasks whose cycle raised
  landed      \* tasks this run has completed

driver == <<pool, args, dpc, inflight, iteration, target, wall, decision, runs>>
vars == <<Facts, disk, driver, stop, pc, trees, raising, landed>>

Final == {"done", "raised", "cancelled"}
Label == Final \cup {"idle", "queued", "work", "gate", "apply", "mark", "save",
                     "repair", "unlanded", "block", "blockQuietly", "halt", "teardown"}

TypeOK ==
  /\ LedgerTypeOK
  /\ pool \in Pools
  /\ args \in Args
  /\ dpc \in {"idle", "top", "claim", "wait", "unwind", "join", "decide"}
  /\ inflight \in SUBSET Task
  /\ iteration \in Nat
  /\ target \in Nat
  /\ {stop, wall} \subseteq BOOLEAN
  /\ decision \in {"none", "crashed", "raised", "blocked", "limit-reached", "partial", "planned"}
  /\ runs \in 0..MaxRuns[pool]
  /\ pc \in [Task -> Label]
  /\ trees \in SUBSET Task
  /\ raising \in SUBSET Task
  /\ landed \in SUBSET completed

Attempted == {t \in Task : pc[t] # "idle"}

Init ==
  /\ LedgerInit
  /\ pool \in Pools
  /\ args \in Args
  /\ dpc = "idle"
  /\ inflight = {}
  /\ iteration = 0
  /\ target = 0
  /\ stop = FALSE
  /\ wall = FALSE
  /\ decision = "none"
  /\ runs = 0
  /\ pc = [t \in Task |-> "idle"]
  /\ trees = {}
  /\ raising = {}
  /\ landed = {}
-----------------------------------------------------------------------------
(* The driver *)

HasTarget == ~args.infinite \/ args.target > 0

\* The target of a run with command line a that loads n completed tasks; a
\* persisted target counts only while the loaded ledger is short of it.
TargetFrom(a, n) ==
  CASE a.target > 0 -> IF a.target >= n THEN a.target ELSE n
    [] a.target = 0 /\ a.infinite -> 0
    [] a.target = 0 /\ ~a.infinite /\ disk.target > n -> disk.target
    [] OTHER -> n + a.iterations

AttemptLimit == IF args.iterations >= AttemptCap THEN args.iterations ELSE AttemptCap

\* A fresh process has no threads, no claims and no verdict yet.
Fresh ==
  /\ Load
  /\ inflight' = {}
  /\ iteration' = 0
  /\ stop' = FALSE
  /\ wall' = FALSE
  /\ pc' = [t \in Task |-> "idle"]
  /\ trees' = {}
  /\ raising' = {}
  /\ landed' = {}

StartRun ==
  /\ dpc = "idle"
  /\ runs < MaxRuns[pool]
  /\ Fresh
  /\ dpc' = "top"
  /\ args' \in Args
  /\ target' = TargetFrom(args', Cardinality(disk.completed))
  /\ decision' = "none"
  /\ runs' = runs + 1
  /\ UNCHANGED <<pool, disk>>

ShouldContinue ==
  IF args.infinite
  THEN args.target = 0 \/ Cardinality(completed) < target
  ELSE Cardinality(completed) < target /\ iteration < AttemptLimit

\* Mutant: in-flight tasks are not counted.
NearTargetBlind == HasTarget /\ Cardinality(completed) >= target

\* The overrun guard: what is in flight might still reach the target.
NearTarget == HasTarget /\ Cardinality(completed) + Cardinality(inflight) >= target

\* Leaving the claim loop, for whatever reason, cancels the futures that no
\* worker has started.
LeaveLoop ==
  /\ dpc' = "join"
  /\ pc' = [t \in Task |-> IF t \in inflight /\ pc[t] = "queued" THEN "cancelled" ELSE pc[t]]
  /\ UNCHANGED <<pool, args, inflight, target, decision, runs, stop, disk, trees, raising, landed>>

StopSeen ==
  /\ dpc = "top"
  /\ stop \/ ~ShouldContinue
  /\ LeaveLoop
  /\ UNCHANGED <<Facts, iteration, wall>>

MayClaim == dpc = "top" /\ ~stop /\ ShouldContinue

WallClockTripped ==
  /\ MayClaim
  /\ args.infinite /\ args.clock
  /\ wall' = TRUE
  /\ blocked' = TRUE
  /\ LeaveLoop
  /\ UNCHANGED <<completed, deferred, streak, since, iteration>>

\* With nothing in flight the guard is ShouldContinue's own condition.
PauseOrClaim ==
  /\ MayClaim
  /\ dpc' = IF NearTarget THEN "wait" ELSE "claim"
  /\ UNCHANGED <<Facts, disk, pool, args, inflight, iteration, target, wall, decision, runs,
                 stop, pc, trees, raising, landed>>

\* Mutant: a task already taken in this run may be selected again.
NewTasksAgain == Task \ (completed \cup deferred)

NewTasks == Task \ (completed \cup deferred \cup Attempted)
Retries == IF args.repair THEN deferred \ (completed \cup Attempted) ELSE {}

\* --task-id names the first task whatever its state; then fresh tasks, and
\* with auto repair the deferred ones once nothing fresh is left.
Selectable ==
  IF iteration = 0 /\ args.named # {} THEN args.named
  ELSE IF NewTasks # {} THEN NewTasks ELSE Retries

\* claim_next_task and submit; a full pool waits for its first completion.
Claim ==
  /\ dpc = "claim"
  /\ \E t \in Selectable :
       /\ pc' = [pc EXCEPT ![t] = "queued"]
       /\ inflight' = inflight \cup {t}
  /\ iteration' = iteration + 1
  /\ dpc' = IF Cardinality(inflight) + 1 >= pool THEN "wait" ELSE "top"
  /\ UNCHANGED <<Facts, disk, pool, args, target, wall, decision, runs, stop, trees, raising, landed>>

\* Nothing to do at the very first claim is a blocker, except in an open-ended
\* infinite run.
ClaimNone ==
  /\ dpc = "claim"
  /\ Selectable = {}
  /\ iteration' = iteration + 1
  /\ blocked' = (blocked \/ (iteration = 0 /\ HasTarget))
  /\ LeaveLoop
  /\ UNCHANGED <<completed, deferred, streak, since, wall>>

Over(t) == pc[t] \in Final

\* Mutant: joined futures are not taken off the in-flight set.
WaitForgets ==
  /\ dpc = "wait"
  /\ \E t \in inflight : Over(t)
  /\ dpc' = IF \E t \in inflight : pc[t] = "raised" THEN "unwind" ELSE "top"
  /\ UNCHANGED <<Facts, disk, pool, args, inflight, iteration, target, wall, decision, runs,
                 stop, pc, trees, raising, landed>>

\* wait(FIRST_COMPLETED), then result() of every finished future: an exception
\* of the cycle escapes here, and only the pool's own shutdown is left.
Wait ==
  /\ dpc = "wait"
  /\ \E t \in inflight : Over(t)
  /\ inflight' = {t \in inflight : ~Over(t)}
  /\ dpc' = IF \E t \in inflight : pc[t] = "raised" THEN "unwind" ELSE "top"
  /\ UNCHANGED <<Facts, disk, pool, args, iteration, target, wall, decision, runs,
                 stop, pc, trees, raising, landed>>

\* The pool's shutdown joins every worker.  After an exception nothing more is
\* decided nor written.
Join ==
  /\ dpc \in {"join", "unwind"}
  /\ \A t \in inflight : Over(t)
  /\ IF dpc = "unwind" \/ \E t \in inflight : pc[t] = "raised"
     THEN dpc' = "idle" /\ decision' = "raised"
     ELSE dpc' = "decide" /\ UNCHANGED decision
  /\ inflight' = {}
  /\ UNCHANGED <<Facts, disk, pool, args, iteration, target, wall, runs, stop, pc, trees, raising, landed>>

\* Mutant: an open-ended run always counts as finished.
TargetReachedAlways == HasTarget => Cardinality(completed) >= target

TargetReached ==
  IF HasTarget THEN Cardinality(completed) >= target ELSE deferred = {}

\* A bounded run short of its target with nothing left to select is blocked.
Unmet == ~args.infinite /\ ~TargetReached /\ Task \subseteq completed \cup deferred

Verdict ==
  CASE blocked \/ Unmet -> "blocked"
    [] ~(blocked \/ Unmet) /\ TargetReached -> "limit-reached"
    [] ~(blocked \/ Unmet) /\ ~TargetReached /\ landed # {} -> "partial"
    [] ~(blocked \/ Unmet) /\ ~TargetReached /\ landed = {} /\ ~HasTarget -> "blocked"
    [] OTHER -> "planned"

Decide ==
  /\ dpc = "decide"
  /\ decision' = Verdict
  /\ blocked' = (blocked \/ Unmet)
  /\ Checkpoint(target)
  /\ dpc' = "idle"
  /\ UNCHANGED <<completed, deferred, streak, since, pool, args, inflight, iteration, target, wall, runs,
                 stop, pc, trees, raising, landed>>

\* The process dies: its threads with it, and all but the file.
Crash ==
  /\ dpc # "idle"
  /\ Fresh
  /\ dpc' = "idle"
  /\ decision' = "crashed"
  /\ UNCHANGED <<disk, pool, args, target, runs>>
-----------------------------------------------------------------------------
(* One task's cycle, on a pool thread *)

Goto(t, label) == pc' = [pc EXCEPT ![t] = label]

\* Where a cycle goes when it has nothing more to record.
AfterCycle(t) ==
  IF t \in trees THEN "teardown" ELSE IF t \in raising THEN "raised" ELSE "done"

\* A serial pool runs in the parent checkout.  Otherwise the cycle gets its
\* worktree: creating it may fail (a blocker, and nothing to tear down), and so
\* may confining it (a blocker, and the tree is torn down).
Begin(t) ==
  /\ pc[t] = "queued"
  /\ IF pool = 1
     THEN Goto(t, "work") /\ UNCHANGED trees
     ELSE \/ Goto(t, "block") /\ UNCHANGED trees
          \/ /\ trees' = trees \cup {t}
             /\ \E label \in {"block", "work"} : Goto(t, label)
  /\ UNCHANGED <<Facts, disk, driver, stop, raising, landed>>

\* active-start, the runner, the gate and the ship step, minutes long, in one
\* of the ways they can end: a completion site, a blocker, the repair lane, a
\* dry run that cannot complete, or an exception.
Work(t) ==
  /\ pc[t] = "work"
  /\ \/ \E label \in {"gate", "block"} : Goto(t, label) /\ UNCHANGED raising
     \/ args.repair /\ Goto(t, "repair") /\ UNCHANGED raising
     \/ /\ ~args.ship
        /\ Goto(t, IF args.infinite THEN "blockQuietly" ELSE "halt")
        /\ UNCHANGED raising
     \/ /\ raising' = raising \cup {t}
        /\ Goto(t, IF t \in trees THEN "teardown" ELSE "raised")
  /\ UNCHANGED <<Facts, disk, driver, stop, trees, landed>>

\* The repair lane: the patch applies, or the task is deferred.
Repair(t) ==
  /\ pc[t] = "repair"
  /\ \/ Goto(t, "apply") /\ UNCHANGED Facts
     \/ Goto(t, "unlanded") /\ RecordDeferred(t)
  /\ UNCHANGED <<disk, driver, stop, trees, raising, landed>>

\* complete_if_not_stopped, its test ...
CheckStop(t) ==
  /\ pc[t] \in {"gate", "apply"}
  /\ Goto(t, IF ~stop THEN "mark" ELSE IF pc[t] = "apply" THEN "unlanded" ELSE AfterCycle(t))
  /\ UNCHANGED <<Facts, disk, driver, stop, trees, raising, landed>>

\* Mutant: the cycle goes on without a checkpoint of its completion.
MarkUnsaved(t) ==
  /\ pc[t] = "mark"
  /\ RecordCompleted(t)
  /\ landed' = landed \cup {t}
  /\ Goto(t, AfterCycle(t))
  /\ UNCHANGED <<disk, driver, stop, trees, raising>>

\* ... and its mark, a separate step.
Mark(t) ==
  /\ pc[t] = "mark"
  /\ RecordCompleted(t)
  /\ landed' = landed \cup {t}
  /\ Goto(t, "save")
  /\ UNCHANGED <<disk, driver, stop, trees, raising>>

Save(t) ==
  /\ pc[t] = "save"
  /\ Checkpoint(target)
  /\ Goto(t, AfterCycle(t))
  /\ UNCHANGED <<Facts, driver, stop, trees, raising, landed>>

\* A repair that did not land is saved; infinite mode also counts it.
SaveUnlanded(t) ==
  /\ pc[t] = "unlanded"
  /\ Checkpoint(target)
  /\ Goto(t, IF args.infinite THEN "blockQuietly" ELSE AfterCycle(t))
  /\ UNCHANGED <<Facts, driver, stop, trees, raising, landed>>

\* register_task_blocker, with messages ("block") or without.
Block(t) ==
  /\ pc[t] \in {"block", "blockQuietly"}
  /\ IF args.infinite
     THEN /\ Register(t, pc[t] = "block", MaxStreak)
          /\ Goto(t, IF streak + 1 >= MaxStreak THEN "halt" ELSE "save")
     ELSE /\ blocked' = TRUE
          /\ Goto(t, "halt")
          /\ UNCHANGED <<completed, deferred, streak, since>>
  /\ UNCHANGED <<disk, driver, stop, trees, raising, landed>>

Halt(t) ==
  /\ pc[t] = "halt"
  /\ stop' = TRUE
  /\ Goto(t, AfterCycle(t))
  /\ UNCHANGED <<Facts, disk, driver, trees, raising, landed>>

\* The finally clause of the worktree: mirror the artifacts and tear down; a
\* failed mirror keeps the tree and is one more blocker of the task.
Teardown(t) ==
  /\ pc[t] = "teardown"
  /\ trees' = trees \ {t}
  /\ \E label \in {IF t \in raising THEN "raised" ELSE "done", "block"} : Goto(t, label)
  /\ UNCHANGED <<Facts, disk, driver, stop, raising, landed>>

\* The two steps that wait for an agent CLI ...
Agent(t) == Work(t) \/ Repair(t)

\* ... and those in which the thread runs code of its own.
Bookkeeping(t) ==
  \/ Begin(t) \/ CheckStop(t) \/ Mark(t) \/ Save(t)
  \/ SaveUnlanded(t) \/ Block(t) \/ Halt(t) \/ Teardown(t)

Cycle(t) == Agent(t) \/ Bookkeeping(t)

Drive ==
  \/ StopSeen \/ WallClockTripped \/ PauseOrClaim \/ Claim \/ ClaimNone
  \/ Wait \/ Join \/ Decide

Next == StartRun \/ Drive \/ Crash \/ \E t \in Task : Cycle(t)

Spec == Init /\ [][Next]_vars

\* effective_subprocess_timeout: whether a hung agent is killed.  Without a
\* timeout only what is left of an infinite run's wall-clock budget limits it.
Timed == args.timeout \/ (args.infinite /\ args.clock)

\* The driver and every worker thread keep running; the agent of a cycle is
\* certain to return only where a timeout applies.  Of the environment this
\* assumes that a cycle gets its runner permits (acquire() has no timeout) and
\* that the git, gh and `make` commands of a cycle, run without one, end.
FairSpec ==
  /\ Spec
  /\ WF_vars(Drive)
  /\ \A t \in Task : WF_vars(Bookkeeping(t)) /\ WF_vars(Timed /\ Agent(t))
-----------------------------------------------------------------------------
(* Properties *)

Unfinished == {t \in inflight : ~Over(t)}

\* The pool never takes on more than the target can absorb: even if every task
\* in flight completed, the run would not overshoot it.
NoOverrun ==
  dpc # "idle" /\ HasTarget => Cardinality(completed \cup Unfinished) <= target

\* A run takes a task at most once, and never one that the state file records
\* as completed (by an earlier run that may have crashed), unless --task-id
\* names it.
NoRework ==
  [][\A t \in Task :
       pc'[t] = "queued" /\ pc[t] # "queued" =>
         pc[t] = "idle" /\ (t \in disk.completed => t \in args.named)]_vars

\* No checkpoint of a slow thread, no final write and no restart takes a
\* completion back off the state file.
DurableCompletion == [][disk.completed \subseteq disk'.completed]_vars

\* Seen from the queue and the state file, the driver with its pool, its cycles
\* and their checkpoints is a durable queue: no task is taken twice or without
\* room for it, none is put down with a completion that a crash could still
\* take back, and a run resumes from what is on file.
Goal == IF HasTarget THEN target ELSE 0
Queue == INSTANCE DurableQueue WITH
  filed <- disk.completed, done <- completed, taken <- Attempted, hand <- Unfinished, goal <- Goal
ServesQueue == Queue!Spec

\* A completed task is not also deferred: the deferred list is the work left
\* behind, and one stale entry makes every later open-ended run unclean.
CompletedNotDeferred == completed \cap deferred = {}

\* The consecutive-blocker guard counts tasks: on a pool of one, no task can
\* advance it twice.
StreakCountsTasks == pool = 1 => streak = Cardinality(since)

\* A safety-guard abort of an infinite run (blocked streak, wall clock) is
\* always reported as blocked, whatever its threads were doing meanwhile.
AbortIsBlocked ==
  args.infinite /\ (stop \/ wall) /\ decision \notin {"none", "raised", "crashed"}
    => decision = "blocked"

\* On a pool of one, an open-ended run that reports a clean finish has completed
\* every task it took and left none unresolved.
CleanFinish ==
  pool = 1 /\ ~HasTarget /\ decision = "limit-reached" => Attempted \subseteq completed

\* A run whose agents are timed ends: no claim loop that never leaves, no drain
\* that never joins.  Of a run without a timeout nothing is promised: one hung
\* agent holds it up for ever.
RunEnds == dpc # "idle" /\ Timed ~> dpc = "idle"
=============================================================================
