---------------------------- MODULE FleetReview ----------------------------
(***************************************************************************)
(* The cross-family review of scripts/fleet_coordination.py (`review`).    *)
(* A review reads the clock, works out who wrote the change (the --runtime *)
(* argument, else the window's live reservation), spends minutes in the    *)
(* other family's model WITHOUT the lock, and only then takes the flock,   *)
(* reads reviews.json strictly, replaces its window's verdict and writes.  *)
(***************************************************************************)
EXTENDS Naturals

CONSTANTS
  Window,   \* window ids
  Proc,     \* processes that issue `review` calls
  Answer,   \* what a reviewer may answer
  MaxTime   \* bound of the clock

ASSUME ReviewAssumption ==
  /\ Answer \subseteq {"approved", "clear", "blocked", "private", "other"}
  /\ MaxTime \in Nat

VARIABLES
  now,       \* wall clock
  reviews,   \* records in reviews.json
  readable,  \* FALSE once the file is garbled
  holders,   \* processes inside the flock
  pc,        \* where each review is
  job,       \* what it reviews, and the clock value it started with
  seen,      \* the records its strict read returned
  latest     \* history: the verdict filed last for each window

vars == <<now, reviews, readable, holders, pc, job, seen, latest>>

Family == {"cc", "codex"}
Opposite == [f \in Family |-> IF f = "cc" THEN "codex" ELSE "cc"]
Verdict == {"approved", "clear", "blocked", "needs-attention", "error"}
Review == [window : Window, candidate : Family, reviewer : Family,
           verdict : Verdict, at : Nat]

Begun == [window : Window, at : Nat]
NoJob == [window |-> "none"]
NoReview == [window |-> "none"]
NoFamily == "none"

TypeOK ==
  /\ now \in 0..MaxTime
  /\ reviews \in SUBSET Review
  /\ latest \in [Window -> {NoReview} \cup Review]
  /\ readable \in BOOLEAN
  /\ holders \in SUBSET Proc
  /\ pc \in [Proc -> {"idle", "run", "enter", "read", "write", "leave"}]
  /\ job \in [Proc -> {NoJob} \cup Begun \cup Review]
  /\ \A p \in Proc : pc[p] \in {"enter", "read", "write", "leave"} => job[p] \in Review
  /\ seen \in [Proc -> SUBSET Review]
  /\ \A r \in reviews : r.candidate # r.reviewer

Init ==
  /\ now = 0
  /\ reviews = {}
  /\ readable = TRUE
  /\ holders = {}
  /\ pc = [p \in Proc |-> "idle"]
  /\ job = [p \in Proc |-> NoJob]
  /\ seen = [p \in Proc |-> {}]
  /\ latest = [w \in Window |-> NoReview]
-----------------------------------------------------------------------------
Goto(p, label) == pc' = [pc EXCEPT ![p] = label]

\* The call is over, with or without a verdict; the finally clause unlocks.
End(p) ==
  /\ Goto(p, "idle")
  /\ job' = [job EXCEPT ![p] = NoJob]
  /\ seen' = [seen EXCEPT ![p] = {}]
  /\ holders' = holders \ {p}

\* Any coupling but "adversarial" declines, which leaves no trace: only armed
\* calls are started.  reviewed_at is fixed here.
Start(p) ==
  /\ pc[p] = "idle"
  /\ \E w \in Window : job' = [job EXCEPT ![p] = [window |-> w, at |-> now]]
  /\ Goto(p, "run")
  /\ UNCHANGED <<now, reviews, readable, holders, seen, latest>>

\* The family that wrote the change: --runtime, or what a lockless read of the
\* reservations finds.  Other processes change that file at any time, so it may
\* name either family, or none, which refuses the review.
Candidate == Family \cup {NoFamily}

\* A private span collapses the answer to "error", and anything outside the
\* enum becomes "needs-attention".
VerdictOf(answer) ==
  CASE answer = "private" -> "error"
    [] answer = "other" -> "needs-attention"
    [] OTHER -> answer

Run(p) ==
  /\ pc[p] = "run"
  /\ \E family \in Candidate, answer \in Answer :
       IF family = NoFamily
       THEN End(p)
       ELSE /\ job' = [job EXCEPT ![p] =
                         [window |-> job[p].window, candidate |-> family,
                          reviewer |-> Opposite[family],
                          verdict |-> VerdictOf(answer), at |-> job[p].at]]
            /\ Goto(p, "enter")
            /\ UNCHANGED <<holders, seen>>
  /\ UNCHANGED <<now, reviews, readable, latest>>

\* Mutant: the read-modify-write is not locked.
EnterUnlocked(p) ==
  /\ pc[p] = "enter"
  /\ holders' = holders \cup {p}
  /\ Goto(p, "read")
  /\ UNCHANGED <<now, reviews, readable, job, seen, latest>>

Enter(p) ==
  /\ pc[p] = "enter"
  /\ holders = {}
  /\ holders' = {p}
  /\ Goto(p, "read")
  /\ UNCHANGED <<now, reviews, readable, job, seen, latest>>

Read(p) ==
  /\ pc[p] = "read"
  /\ IF readable
     THEN /\ seen' = [seen EXCEPT ![p] = reviews]
          /\ Goto(p, "write")
          /\ UNCHANGED <<job, holders>>
     ELSE End(p)
  /\ UNCHANGED <<now, reviews, readable, latest>>

\* Mutant: the window's earlier verdicts are kept beside the new one.
KeptAll(S, w) == S

Kept(S, w) == {r \in S : r.window # w}

\* Mutant: the reviewer is recorded as the family that wrote the change.
WriteSameFamily(p) ==
  /\ pc[p] = "write"
  /\ reviews' = Kept(seen[p], job[p].window)
                  \cup {[job[p] EXCEPT !.reviewer = job[p].candidate]}
  /\ readable' = TRUE
  /\ latest' = [latest EXCEPT ![job[p].window] = job[p]]
  /\ Goto(p, "leave")
  /\ UNCHANGED <<now, holders, job, seen>>

Write(p) ==
  /\ pc[p] = "write"
  /\ reviews' = Kept(seen[p], job[p].window) \cup {job[p]}
  /\ readable' = TRUE
  /\ latest' = [latest EXCEPT ![job[p].window] = job[p]]
  /\ Goto(p, "leave")
  /\ UNCHANGED <<now, holders, job, seen>>

Leave(p) ==
  /\ pc[p] = "leave"
  /\ End(p)
  /\ UNCHANGED <<now, reviews, readable, latest>>
-----------------------------------------------------------------------------
\* The process dies, the reviewer's subprocess fails, or an OSError escapes.
Crash(p) ==
  /\ pc[p] # "idle"
  /\ End(p)
  /\ UNCHANGED <<now, reviews, readable, latest>>

Tick ==
  /\ now < MaxTime
  /\ now' = now + 1
  /\ UNCHANGED <<reviews, readable, holders, pc, job, seen, latest>>

Garble ==
  /\ readable
  /\ readable' = FALSE
  /\ reviews' = {}
  /\ UNCHANGED <<now, holders, pc, job, seen, latest>>

\* The operator removes the damaged file; its verdicts are knowingly lost.
Repair ==
  /\ ~readable
  /\ readable' = TRUE
  /\ latest' = [w \in Window |-> NoReview]
  /\ UNCHANGED <<now, reviews, holders, pc, job, seen>>

Next ==
  \/ \E p \in Proc :
       \/ Start(p) \/ Run(p) \/ Enter(p)
       \/ Read(p) \/ Write(p) \/ Leave(p) \/ Crash(p)
  \/ Tick \/ Garble \/ Repair

Spec == Init /\ [][Next]_vars
-----------------------------------------------------------------------------
Filed == {w \in Window : latest[w] # NoReview}

\* A window that a verdict was filed for has one record, and no other review,
\* of this window or of another, concurrent or dying half-way, removes or
\* duplicates it.
OneVerdict ==
  readable => \A w \in Filed : \E r \in reviews :
    /\ r.window = w
    /\ \A s \in reviews : s.window = w => s = r

\* "A window's verdict is its current one": the record on file is the verdict
\* filed last, as its review left it, also where reviews of one window overlap.
\* No review, dying half-way or not, brings an earlier verdict back, of whatever
\* window.  Last is the order of the writes, which the starts need not follow.
LastVerdict == readable => \A w \in Filed : latest[w] \in reviews
=============================================================================
