-------------------------- MODULE FleetReviewProofs --------------------------
(***************************************************************************)
(* The review file keeps one verdict per window for every set of windows    *)
(* and processes, the one filed last, also where reviews overlap.           *)
(***************************************************************************)
EXTENDS FleetReview, TLAPS

Locked == {"read", "write", "leave"}
Judged == {"enter"} \cup Locked

\* The flock admits one process.
LockInv ==
  /\ \A p \in Proc : pc[p] \in Locked => p \in holders
  /\ \A p, q \in holders : p = q

\* A review knows its window and its start, and is made by the other family.
JobInv ==
  \A p \in Proc :
    /\ pc[p] \in {"run"} \cup Judged =>
         /\ job[p].window \in Window
         /\ job[p].at \in 0..now
    /\ pc[p] \in Judged => job[p].candidate # job[p].reviewer
    /\ \A r \in seen[p] : r.candidate # r.reviewer

\* A set of records that has, for every window filed so far, the verdict filed
\* last and no other.
Covers(S) ==
  \A w \in Filed : /\ latest[w] \in S
                   /\ \A s \in S : s.window = w => s = latest[w]

LatestInv == \A w \in Filed : latest[w].window = w

\* What is about to be written back covers what has been filed: nobody else
\* files anything meanwhile, and damage forgets more than it.
SeenInv == \A p \in Proc : pc[p] = "write" => Covers(seen[p])

FileInv == readable => Covers(reviews)

IInv == TypeOK /\ LockInv /\ JobInv /\ LatestInv /\ SeenInv /\ FileInv
-----------------------------------------------------------------------------
LEMMA InitHolds == Init => IInv
  <1> SUFFICES ASSUME Init PROVE IInv
      OBVIOUS
  <1>1. TypeOK
    <2>1. 0 \in 0..MaxTime
          BY ReviewAssumption
    <2>2. job \in [Proc -> {NoJob}] /\ seen \in [Proc -> {{}}] /\ pc \in [Proc -> {"idle"}]
          BY DEF Init
    <2> QED BY <2>1, <2>2 DEF Init, TypeOK
  <1>2. LockInv /\ JobInv /\ LatestInv /\ SeenInv /\ FileInv
        BY DEF Init, LockInv, JobInv, LatestInv, SeenInv, FileInv, Covers, Filed, Locked, Judged
  <1> QED BY <1>1, <1>2 DEF IInv

-----------------------------------------------------------------------------
(* The steps *)

LEMMA EndKeeps ==
  ASSUME IInv, NEW p \in Proc, End(p), UNCHANGED <<now, reviews, readable, latest>>
  PROVE  IInv'
  <1> USE DEF IInv, End, Goto, Locked, Judged
  <1>1. TypeOK'
        BY DEF TypeOK
  <1>2. LockInv'
        BY DEF TypeOK, LockInv
  <1>3. JobInv'
        BY DEF TypeOK, JobInv
  <1>4. LatestInv' /\ SeenInv' /\ FileInv'
        BY DEF TypeOK, LatestInv, SeenInv, FileInv, Covers, Filed
  <1> QED BY <1>1, <1>2, <1>3, <1>4

LEMMA StartKeeps ==
  ASSUME IInv, NEW p \in Proc, Start(p)
  PROVE  IInv'
  <1> PICK w \in Window : job' = [job EXCEPT ![p] = [window |-> w, at |-> now]]
      BY DEF Start
  <1>b. [window |-> w, at |-> now] \in Begun
        BY DEF IInv, TypeOK, Begun
  <1> USE DEF IInv, Start, Goto, Locked, Judged
  <1>1. TypeOK'
        BY <1>b DEF TypeOK
  <1>2. LockInv'
        BY DEF TypeOK, LockInv
  <1>3. JobInv'
        BY <1>b DEF TypeOK, JobInv
  <1>4. LatestInv' /\ SeenInv' /\ FileInv'
        BY DEF TypeOK, LatestInv, SeenInv, FileInv, Covers, Filed
  <1> QED BY <1>1, <1>2, <1>3, <1>4

\* The reviewer is of the other family, and its answer is in the enum.
LEMMA RunKeeps ==
  ASSUME IInv, NEW p \in Proc, Run(p)
  PROVE  IInv'
  <1> DEFINE filled(family, answer) ==
        [window |-> job[p].window, candidate |-> family, reviewer |-> Opposite[family],
         verdict |-> VerdictOf(answer), at |-> job[p].at]
  <1> PICK family \in Candidate, answer \in Answer :
        IF family = NoFamily
        THEN End(p)
        ELSE /\ job' = [job EXCEPT ![p] = filled(family, answer)]
             /\ Goto(p, "enter")
             /\ UNCHANGED <<holders, seen>>
      BY DEF Run
  <1>1. CASE family = NoFamily
        BY <1>1, EndKeeps DEF Run
  <1>2. CASE family # NoFamily
    <2> DEFINE f == filled(family, answer)
    <2>1. /\ pc[p] = "run" /\ pc' = [pc EXCEPT ![p] = "enter"]
          /\ job' = [job EXCEPT ![p] = f]
          /\ UNCHANGED <<now, reviews, readable, latest, holders, seen>>
          BY <1>2 DEF Run, Goto
    <2>2. /\ family \in Family /\ Opposite[family] \in Family /\ family # Opposite[family]
          BY <1>2 DEF Candidate, Family, Opposite, NoFamily
    <2>3. VerdictOf(answer) \in Verdict
          BY ReviewAssumption DEF VerdictOf, Verdict
    <2>4. job[p].window \in Window /\ job[p].at \in 0..now
          BY <2>1 DEF IInv, JobInv
    <2>5. f \in Review
          BY <2>2, <2>3, <2>4, ReviewAssumption DEF Review, IInv, TypeOK
    <2>6. f.candidate # f.reviewer /\ f.window = job[p].window /\ f.at = job[p].at
          BY <2>2
    <2> HIDE DEF f
    <2> USE DEF IInv, Locked, Judged
    <2>7. TypeOK'
          BY <2>1, <2>5 DEF TypeOK
    <2>8. LockInv'
          BY <2>1 DEF TypeOK, LockInv
    <2>9. JobInv'
          BY <2>1, <2>4, <2>6 DEF TypeOK, JobInv
    <2>10. LatestInv' /\ SeenInv' /\ FileInv'
          BY <2>1 DEF TypeOK, LatestInv, SeenInv, FileInv, Covers, Filed
    <2> QED BY <2>7, <2>8, <2>9, <2>10
  <1> QED BY <1>1, <1>2

LEMMA EnterKeeps ==
  ASSUME IInv, NEW p \in Proc, Enter(p)
  PROVE  IInv'
  <1> USE DEF IInv, Enter, Goto, Locked, Judged
  <1>1. TypeOK'
        BY DEF TypeOK
  <1>2. LockInv'
        BY DEF TypeOK, LockInv
  <1>3. JobInv'
        BY DEF TypeOK, JobInv
  <1>4. LatestInv' /\ SeenInv' /\ FileInv'
        BY DEF TypeOK, LatestInv, SeenInv, FileInv, Covers, Filed
  <1> QED BY <1>1, <1>2, <1>3, <1>4

LEMMA ReadKeeps ==
  ASSUME IInv, NEW p \in Proc, Read(p)
  PROVE  IInv'
  <1>1. CASE ~readable
        BY <1>1, EndKeeps DEF Read
  <1>2. CASE readable
    <2> USE <1>2 DEF IInv, Read, Goto, Locked, Judged
    <2>1. TypeOK'
          BY DEF TypeOK
    <2>2. LockInv'
          BY DEF TypeOK, LockInv
    <2>3. JobInv'
          BY DEF TypeOK, JobInv
    <2>4. LatestInv' /\ SeenInv' /\ FileInv'
          BY DEF TypeOK, LatestInv, SeenInv, FileInv, Covers, Filed
    <2> QED BY <2>1, <2>2, <2>3, <2>4
  <1> QED BY <1>1, <1>2

LEMMA WriteKeeps ==
  ASSUME IInv, NEW p \in Proc, Write(p)
  PROVE  IInv'
  <1> DEFINE r == job[p]
  <1>0. r \in Review /\ r.window \in Window /\ r.candidate # r.reviewer
        BY DEF Write, IInv, TypeOK, JobInv, Judged, Locked, Review
  <1>1. TypeOK'
        BY <1>0 DEF IInv, TypeOK, JobInv, Write, Goto, Kept
  <1>2. LockInv'
        BY DEF IInv, TypeOK, LockInv, Write, Goto, Locked
  <1>3. JobInv'
        BY DEF IInv, TypeOK, JobInv, Write, Goto, Locked, Judged
  <1>4. \A q \in Proc : pc'[q] # "write"
        BY DEF IInv, TypeOK, LockInv, Write, Goto, Locked
  <1>5. SeenInv'
        BY <1>4 DEF SeenInv
  <1>6. /\ latest'[r.window] = r
        /\ \A w \in Window \ {r.window} : latest'[w] = latest[w] /\ (w \in Filed' => w \in Filed)
        BY <1>0 DEF IInv, TypeOK, Write, Filed
  <1>7. LatestInv'
        BY <1>6 DEF IInv, LatestInv, Filed
  <1>8. FileInv'
    <2>1. Covers(seen[p]) /\ reviews' = Kept(seen[p], r.window) \cup {r}
          BY DEF IInv, SeenInv, Write
    <2> SUFFICES ASSUME NEW w \in Filed'
                 PROVE  /\ latest'[w] \in reviews'
                        /\ \A s \in reviews' : s.window = w => s = latest'[w]
        BY DEF FileInv, Covers
    <2>2. CASE w = r.window
          BY <1>6, <2>1, <2>2 DEF Kept
    <2>3. CASE w # r.window
      <3>1. w \in Filed /\ latest'[w] = latest[w] /\ latest[w].window = w
            BY <1>6, <2>3 DEF IInv, LatestInv, Filed
      <3> QED BY <2>1, <2>3, <3>1 DEF Covers, Kept
    <2> QED BY <2>2, <2>3
  <1> QED BY <1>1, <1>2, <1>3, <1>5, <1>7, <1>8 DEF IInv

LEMMA OthersKeep ==
  ASSUME IInv, Tick \/ Garble \/ Repair \/ UNCHANGED vars
  PROVE  IInv'
  <1>0. now' \in 0..MaxTime
        BY ReviewAssumption DEF IInv, TypeOK, Tick, Garble, Repair, vars
  <1> USE DEF IInv, Tick, Garble, Repair, vars
  <1>1. TypeOK'
        BY <1>0 DEF TypeOK
  <1>2. LockInv'
        BY DEF TypeOK, LockInv
  <1>3. JobInv'
        BY DEF TypeOK, JobInv
  <1>4. LatestInv' /\ SeenInv' /\ FileInv'
        BY DEF TypeOK, LatestInv, SeenInv, FileInv, Covers, Filed
  <1> QED BY <1>1, <1>2, <1>3, <1>4

LEMMA StepKeeps == IInv /\ [Next]_vars => IInv'
  <1> SUFFICES ASSUME IInv, [Next]_vars PROVE IInv'
      OBVIOUS
  <1>1. ASSUME NEW p \in Proc, Start(p) PROVE IInv'
        BY <1>1, StartKeeps
  <1>2. ASSUME NEW p \in Proc, Run(p) PROVE IInv'
        BY <1>2, RunKeeps
  <1>3. ASSUME NEW p \in Proc, Enter(p) PROVE IInv'
        BY <1>3, EnterKeeps
  <1>4. ASSUME NEW p \in Proc, Read(p) PROVE IInv'
        BY <1>4, ReadKeeps
  <1>5. ASSUME NEW p \in Proc, Write(p) PROVE IInv'
        BY <1>5, WriteKeeps
  <1>6. ASSUME NEW p \in Proc, Leave(p) \/ Crash(p) PROVE IInv'
        BY <1>6, EndKeeps DEF Leave, Crash
  <1> QED BY <1>1, <1>2, <1>3, <1>4, <1>5, <1>6, OthersKeep DEF Next

\* Every reachable state satisfies the inductive invariant.
THEOREM Inductive == Spec => []IInv
  BY InitHolds, StepKeeps, PTL DEF Spec

\* The records and the progress of every review are of their types, and no
\* review on file was made by the family that wrote the change.
THEOREM TypeCorrect == Spec => []TypeOK
  BY Inductive, PTL DEF IInv

\* Whatever reviews of this and other windows do meanwhile, wherever they die
\* and whatever is damaged, a readable file has exactly one verdict for every
\* window that one was filed for.
THEOREM OneVerdictHolds == Spec => []OneVerdict
  <1>1. IInv => OneVerdict
        BY DEF IInv, LatestInv, FileInv, Covers, OneVerdict
  <1> QED BY Inductive, <1>1, PTL

\* That verdict is the one filed last for the window, however many reviews of
\* the window overlap.
THEOREM LastVerdictHolds == Spec => []LastVerdict
  <1>1. IInv => LastVerdict
        BY DEF IInv, FileInv, Covers, LastVerdict
  <1> QED BY Inductive, <1>1, PTL
=============================================================================
