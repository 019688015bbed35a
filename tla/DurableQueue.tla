---------------------------- MODULE DurableQueue ----------------------------
(***************************************************************************)
(* What a run of the auto loop promises whoever resumes it, with no pool,  *)
(* thread, worktree or checkpoint in sight: tasks are taken from a queue,  *)
(* each at most once, as long as the goal leaves room for one more; a task *)
(* is put down only when its completion, if it has one, is on file; and a  *)
(* new run starts from the file.                                           *)
(***************************************************************************)
EXTENDS Naturals, FiniteSets

CONSTANT Task

VARIABLES
  filed,  \* the completions on file
  done,   \* the completions the run knows of
  taken,  \* the tasks this run has taken
  hand,   \* those of them it is at work on
  goal    \* how many completions it is to reach, 0 for no such limit

Room(S) == goal > 0 => Cardinality(S) <= goal

\* A run starts, or the one at work dies: what is known is what is on file.
Begin ==
  /\ done' = filed
  /\ taken' = {}
  /\ hand' = {}
  /\ goal' \in Nat
  /\ Room(filed)'
  /\ UNCHANGED filed

\* Room is kept for every task in hand to be completed.  Only the first task
\* of a run, which may have been asked for by name, may be on file already.
Take(t) ==
  /\ t \notin taken
  /\ t \in done => taken = {}
  /\ Room(done \cup hand \cup {t})
  /\ taken' = taken \cup {t}
  /\ hand' = hand \cup {t}
  /\ UNCHANGED <<filed, done, goal>>

Complete(t) ==
  /\ t \in hand
  /\ done' = done \cup {t}
  /\ UNCHANGED <<filed, taken, hand, goal>>

\* Tasks are put down, all that is known being filed in the same step or not.
PutDown ==
  /\ hand' \in SUBSET hand
  /\ filed' \in {filed, done}
  /\ (hand \ hand') \cap done \subseteq filed'
  /\ UNCHANGED <<done, taken, goal>>

Init == filed = {} /\ done = {} /\ taken = {} /\ hand = {} /\ goal = 0

Next ==
  \/ Begin
  \/ \E t \in Task : Take(t) \/ Complete(t)
  \/ PutDown

Spec == Init /\ [][Next]_<<filed, done, taken, hand, goal>>
=============================================================================
