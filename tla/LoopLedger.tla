----------------------------- MODULE LoopLedger -----------------------------
(***************************************************************************)
(* The ledger of the auto loop (class LedgerState of scripts/agent_loop.py)*)
(* and its state file auto_loop_state.json.  Every operation runs under    *)
(* the ledger's own lock, so each is atomic; what the loop does between    *)
(* two of them is not.  Only the facts that decide something are kept: of  *)
(* the blocker messages, whether there are any; of the file, the two task  *)
(* lists and the target that the next run loads.                           *)
(***************************************************************************)
EXTENDS Naturals, FiniteSets

CONSTANT Task   \* the selectable tasks of tasks/queue.md

VARIABLES
  completed,  \* task ids recorded as completed, in this run or a loaded one
  deferred,   \* task ids put aside
  streak,     \* consecutive_blockers
  blocked,    \* is there any blocker message?
  since,      \* history: tasks blocked since the last completion of the run
  disk        \* what the state file holds

Facts == <<completed, deferred, streak, blocked, since>>

\* An absent file is an empty ledger without a target (0).
EmptyFile == [completed |-> {}, deferred |-> {}, target |-> 0]

LedgerTypeOK ==
  /\ completed \in SUBSET Task
  /\ deferred \in SUBSET Task
  /\ streak \in Nat
  /\ blocked \in BOOLEAN
  /\ since \in SUBSET Task
  /\ disk \in [completed : SUBSET Task, deferred : SUBSET Task, target : Nat]

LedgerInit ==
  /\ completed = {}
  /\ deferred = {}
  /\ streak = 0
  /\ blocked = FALSE
  /\ since = {}
  /\ disk = EmptyFile
-----------------------------------------------------------------------------
\* A new process: the task lists come from the file, the rest starts afresh.
Load ==
  /\ completed' = disk.completed
  /\ deferred' = disk.deferred
  /\ streak' = 0
  /\ blocked' = FALSE
  /\ since' = {}

\* Mutant: the completion itself is not entered.
RecordCompletedLost(t) ==
  /\ deferred' = deferred \ {t}
  /\ streak' = 0
  /\ since' = {}
  /\ UNCHANGED <<completed, blocked>>

\* Mutant: the streak survives the completion.
RecordCompletedKeepsStreak(t) ==
  /\ completed' = completed \cup {t}
  /\ deferred' = deferred \ {t}
  /\ since' = {}
  /\ UNCHANGED <<streak, blocked>>

RecordCompleted(t) ==
  /\ completed' = completed \cup {t}
  /\ deferred' = deferred \ {t}
  /\ streak' = 0
  /\ since' = {}
  /\ UNCHANGED blocked

RecordDeferred(t) ==
  /\ deferred' = deferred \cup {t}
  /\ UNCHANGED <<completed, streak, blocked, since>>

\* Mutant: tripping the streak guard leaves no blocker message of its own.
RegisterQuietly(t, spoken, limit) ==
  /\ streak' = streak + 1
  /\ since' = since \cup {t}
  /\ deferred' = deferred \cup {t}
  /\ blocked' = (blocked \/ spoken)
  /\ UNCHANGED completed

\* register_task_blocker in infinite mode: bump the streak, defer the task,
\* and leave a blocker message when the caller gave one or the guard trips.
\* Its ledger calls take the lock one by one; nothing between them depends on
\* their being apart.
Register(t, spoken, limit) ==
  /\ streak' = streak + 1
  /\ since' = since \cup {t}
  /\ deferred' = deferred \cup {t}
  /\ blocked' = (blocked \/ spoken \/ streak + 1 >= limit)
  /\ UNCHANGED completed

\* persist_checkpoint: snapshot, merge and os.replace under one lock.
Checkpoint(goal) ==
  disk' = [completed |-> completed, deferred |-> deferred, target |-> goal]
=============================================================================
