--------------------------- MODULE AutoLoopProofs ---------------------------
(***************************************************************************)
(* The auto loop for any tasks, command lines, pool sizes and limits: what  *)
(* is durable stays so, no target is overrun, no task is redone, an abort   *)
(* is reported; and on a pool of one, the streak counts tasks and a clean   *)
(* finish is clean.                                                         *)
(***************************************************************************)
EXTENDS AutoLoop, FiniteSetTheorems, TLAPS

\* What the tasks at work can still bring the completed list to.
Potential == completed \cup Unfinished

\* A cycle at work is in flight, and a run that is over has none.
Tracked == \A t \in Task : pc[t] \notin Final \cup {"idle"} => t \in inflight
Joined == dpc \in {"idle", "decide"} => inflight = {}
FirstClaim == iteration = 0 => \A t \in Task : pc[t] = "idle"

\* The file is never ahead of the memory it was written from.
DiskBehind == disk.completed \subseteq completed

\* Whoever stops an infinite run has left a blocker first.
AbortsSpeak ==
  /\ args.infinite /\ stop => blocked
  /\ wall => blocked
  /\ args.infinite => \A t \in Task : pc[t] = "halt" => blocked
  /\ dpc # "idle" => decision = "none"

\* Room for one more task while the driver claims it.
RoomToClaim == dpc = "claim" /\ HasTarget => Cardinality(Potential) < target

\* On a pool of one: no worktrees, one task at a time, none blocked twice, and
\* one that raises ends the run.
Alone ==
  pool = 1 =>
    /\ trees = {}
    /\ \A t \in since : pc[t] \in Final \cup {"halt", "save"}
    /\ dpc \in {"top", "claim", "join", "decide"} => inflight = {}
    /\ \A t, u \in inflight : t = u
    /\ \A t \in Task : pc[t] \notin {"cancelled", "teardown"}
    /\ dpc \notin {"idle", "unwind"} => \A t \in Task : pc[t] = "raised" => t \in inflight

\* A cycle of an infinite run on a pool of one ends with its task accounted for.
Accounted ==
  pool = 1 /\ args.infinite => \A t \in Task :
    pc[t] \in {"save", "halt", "done"} => t \in completed \cup deferred \/ blocked

Flight == Tracked /\ Joined /\ FirstClaim
Reports == AbortsSpeak /\ AbortIsBlocked
Room == NoOverrun /\ RoomToClaim
Serial == Alone /\ StreakCountsTasks /\ Accounted /\ CleanFinish
IInv == TypeOK /\ Flight /\ DiskBehind /\ Reports /\ Room /\ Serial
-----------------------------------------------------------------------------
LEMMA Sizes ==
  /\ \A S \in SUBSET Task : IsFiniteSet(S) /\ Cardinality(S) \in Nat
  /\ \A S, T \in SUBSET Task : S \subseteq T => Cardinality(S) <= Cardinality(T)
  /\ \A S \in SUBSET Task, t \in Task :
       /\ t \notin S => Cardinality(S \cup {t}) = Cardinality(S) + 1
       /\ Cardinality(S \cup {t}) <= Cardinality(S) + 1
  /\ \A S, T \in SUBSET Task : Cardinality(S \cup T) <= Cardinality(S) + Cardinality(T)
  <1>1. ASSUME NEW S \in SUBSET Task PROVE IsFiniteSet(S) /\ Cardinality(S) \in Nat
        BY LoopAssumption, FS_Subset, FS_CardinalityType
  <1>2. ASSUME NEW S \in SUBSET Task, NEW T \in SUBSET Task, S \subseteq T
        PROVE  Cardinality(S) <= Cardinality(T)
        BY <1>1, <1>2, FS_Subset
  <1>3. ASSUME NEW S \in SUBSET Task, NEW t \in Task
        PROVE  /\ t \notin S => Cardinality(S \cup {t}) = Cardinality(S) + 1
               /\ Cardinality(S \cup {t}) <= Cardinality(S) + 1
    <2>1. IsFiniteSet(S) /\ Cardinality(S) \in Nat
          BY <1>1
    <2>2. CASE t \in S
      <3>1. S \cup {t} = S
            BY <2>2
      <3>2. Cardinality(S \cup {t}) = Cardinality(S)
            BY <3>1
      <3> QED BY <2>1, <2>2, <3>2
    <2>3. CASE t \notin S
          BY <2>1, <2>3, FS_AddElement
    <2> QED BY <2>2, <2>3
  <1>4. ASSUME NEW S \in SUBSET Task, NEW T \in SUBSET Task
        PROVE  Cardinality(S \cup T) <= Cardinality(S) + Cardinality(T)
    <2>1. /\ IsFiniteSet(S) /\ IsFiniteSet(T)
          /\ Cardinality(S) \in Nat /\ Cardinality(T) \in Nat /\ Cardinality(S \cap T) \in Nat
          BY <1>1
    <2>2. Cardinality(S \cup T) = Cardinality(S) + Cardinality(T) - Cardinality(S \cap T)
          BY <2>1, FS_Union
    <2> QED BY <2>1, <2>2
  <1> QED BY <1>1, <1>2, <1>3, <1>4

LEMMA Constants ==
  /\ pool \in Pools => pool \in Nat \ {0} /\ MaxRuns[pool] \in Nat
  /\ MaxStreak \in Nat /\ AttemptCap \in Nat
  /\ \A a \in Args : /\ a.infinite \in BOOLEAN /\ a.iterations \in Nat /\ a.target \in Nat
                     /\ a.named \in SUBSET Task
                     /\ ~a.infinite => a.iterations > 0
  BY LoopAssumption DEF CommandLine

\* The driver's variables, one by one.
LEMMA DriverStands ==
  ASSUME UNCHANGED driver
  PROVE  UNCHANGED <<pool, args, dpc, inflight, iteration, target, wall, decision, runs>>
  BY DEF driver

LEMMA InitHolds == Init => IInv
  <1> SUFFICES ASSUME Init PROVE IInv
      OBVIOUS
  <1>1. TypeOK
    <2>1. pool \in Pools /\ args \in Args /\ runs \in 0..MaxRuns[pool]
          BY Constants DEF Init
    <2> QED BY <2>1 DEF Init, TypeOK, LedgerInit, LedgerTypeOK, EmptyFile, Label, Final
  <1>2. Flight /\ DiskBehind /\ Reports /\ Room
        BY DEF Init, LedgerInit, EmptyFile, Flight, Tracked, Joined, FirstClaim, DiskBehind, Reports,
               AbortsSpeak, AbortIsBlocked, Room, NoOverrun, RoomToClaim
  <1>3. Serial
        BY FS_EmptySet DEF Init, LedgerInit, Serial, Alone, StreakCountsTasks, Accounted, CleanFinish
  <1> QED BY <1>1, <1>2, <1>3 DEF IInv
-----------------------------------------------------------------------------
(* The cycles *)

\* What every step of a cycle has in common.
CycleStep(t) ==
  /\ pc[t] \notin Final \cup {"idle"}
  /\ \E label \in Label \ {"idle", "queued", "cancelled"} : pc' = [pc EXCEPT ![t] = label]
  /\ UNCHANGED <<pool, args, dpc, inflight, iteration, target, wall, decision, runs>>
  /\ disk' \in {disk, [completed |-> completed, deferred |-> deferred, target |-> target]}
  /\ \/ completed' = completed
     \/ /\ pc[t] = "mark" /\ completed' = completed \cup {t}
        /\ disk' = disk /\ pc' = [pc EXCEPT ![t] = "save"]
  /\ pc[t] = "save" => disk'.completed = completed /\ completed' = completed
  /\ LedgerTypeOK' /\ stop' \in BOOLEAN
  /\ trees' \in SUBSET Task /\ raising' \in SUBSET Task /\ landed' \in SUBSET completed'

LEMMA CycleSteps ==
  ASSUME TypeOK, NEW t \in Task, Cycle(t)
  PROVE  CycleStep(t)
  <1> USE DEF TypeOK, LedgerTypeOK, Facts, Goto, Label, Final
  <1>1. CASE Begin(t)
        BY <1>1, DriverStands DEF Begin, CycleStep
  <1>2. CASE Work(t)
        BY <1>2, DriverStands DEF Work, CycleStep
  <1>3. CASE Repair(t)
        BY <1>3, DriverStands DEF Repair, RecordDeferred, CycleStep
  <1>4. CASE CheckStop(t)
        BY <1>4, DriverStands DEF CheckStop, AfterCycle, CycleStep
  <1>5. CASE Mark(t)
        BY <1>5, DriverStands DEF Mark, RecordCompleted, CycleStep
  <1>6. CASE Save(t)
        BY <1>6, DriverStands DEF Save, Checkpoint, AfterCycle, CycleStep
  <1>7. CASE SaveUnlanded(t)
        BY <1>7, DriverStands DEF SaveUnlanded, Checkpoint, AfterCycle, CycleStep
  <1>8. CASE Block(t)
    <2>1. args.infinite \in BOOLEAN /\ streak + 1 \in Nat
          BY Constants
    <2>2. CASE args.infinite
      <3>1. /\ Register(t, pc[t] = "block", MaxStreak) /\ pc[t] \in {"block", "blockQuietly"}
            /\ pc' = [pc EXCEPT ![t] = IF streak + 1 >= MaxStreak THEN "halt" ELSE "save"]
            /\ UNCHANGED <<disk, driver, stop, trees, raising, landed>>
            BY <1>8, <2>2 DEF Block
      <3>2. blocked' \in BOOLEAN
            BY <3>1 DEF Register
      <3> QED BY <2>1, <3>1, <3>2, DriverStands DEF Register, CycleStep
    <2>3. CASE ~args.infinite
          BY <1>8, <2>3, DriverStands DEF Block, CycleStep
    <2> QED BY <2>2, <2>3
  <1>9. CASE Halt(t)
        BY <1>9, DriverStands DEF Halt, AfterCycle, CycleStep
  <1>10. CASE Teardown(t)
        BY <1>10, DriverStands DEF Teardown, CycleStep
  <1> QED BY <1>1, <1>2, <1>3, <1>4, <1>5, <1>6, <1>7, <1>8, <1>9, <1>10 DEF Cycle, Agent, Bookkeeping

LEMMA CycleKeepsRoom ==
  ASSUME IInv, NEW t \in Task, CycleStep(t)
  PROVE  TypeOK' /\ Flight' /\ DiskBehind' /\ Room'
  <1>i. TypeOK /\ Flight /\ DiskBehind /\ Room
        BY DEF IInv
  <1>1. PICK label \in Label \ {"idle", "queued", "cancelled"} : pc' = [pc EXCEPT ![t] = label]
        BY DEF CycleStep
  <1>2. pc' \in [Task -> Label] /\ pc'[t] = label /\ \A u \in Task : u # t => pc'[u] = pc[u]
        BY <1>i, <1>1 DEF TypeOK
  <1>3. TypeOK'
        BY <1>i, <1>2 DEF TypeOK, CycleStep
  <1>4. Flight'
    <2>1. t \in inflight
          BY <1>i DEF Flight, Tracked, CycleStep
    <2>2. dpc \notin {"idle", "decide"} /\ iteration # 0
          BY <1>i, <2>1 DEF Flight, Joined, FirstClaim, CycleStep
    <2> QED BY <1>i, <1>2, <2>1, <2>2 DEF Flight, Tracked, Joined, FirstClaim, CycleStep
  <1>5. DiskBehind'
        BY <1>i DEF DiskBehind, CycleStep
  <1>6. Room'
    <2>1. t \in Unfinished
          BY <1>i DEF Unfinished, Over, Flight, Tracked, CycleStep, Final
    <2>2. Unfinished' \subseteq Unfinished
          BY <1>2, <2>1 DEF Unfinished, Over, CycleStep
    <2>3. Potential' \subseteq Potential
          BY <2>1, <2>2 DEF Potential, CycleStep
    <2>4. Potential \in SUBSET Task /\ Potential' \in SUBSET Task
          BY <1>i, <1>3 DEF Potential, Unfinished, TypeOK, LedgerTypeOK
    <2>5. Cardinality(Potential') <= Cardinality(Potential)
          BY <2>3, <2>4, Sizes
    <2>6. Cardinality(Potential') \in Nat /\ Cardinality(Potential) \in Nat /\ target \in Nat
          BY <1>i, <2>4, Sizes DEF TypeOK
    <2>7. UNCHANGED <<dpc, target, HasTarget>>
          BY DEF CycleStep, HasTarget
    <2> QED BY <1>i, <2>5, <2>6, <2>7 DEF Room, NoOverrun, RoomToClaim, Potential
  <1> QED BY <1>3, <1>4, <1>5, <1>6

\* While a cycle is at work its run has reported nothing yet.
LEMMA CycleBusy ==
  ASSUME IInv, NEW t \in Task, CycleStep(t)
  PROVE  /\ t \in inflight /\ dpc \notin {"idle", "decide"} /\ decision = "none"
         /\ AbortIsBlocked' /\ CleanFinish'
  <1>1. t \in inflight
        BY DEF IInv, Flight, Tracked, CycleStep
  <1>2. dpc \notin {"idle", "decide"} /\ decision = "none"
        BY <1>1 DEF IInv, Flight, Joined, Reports, AbortsSpeak
  <1> QED BY <1>1, <1>2 DEF CycleStep, AbortIsBlocked, CleanFinish

LEMMA CycleKeepsReports ==
  ASSUME IInv, NEW t \in Task, Cycle(t)
  PROVE  Reports'
  <1>i. TypeOK /\ AbortsSpeak /\ CycleStep(t) /\ pc \in [Task -> Label]
        BY CycleSteps DEF IInv, Reports, TypeOK
  <1>1. AbortIsBlocked' /\ decision = "none"
        BY <1>i, CycleBusy
  <1>2. UNCHANGED <<args, dpc, wall, decision>>
        BY <1>i DEF CycleStep
  <1>3. AbortsSpeak'
    <2> USE DEF AbortsSpeak, Goto, Facts
    <2>1. CASE Begin(t)
          BY <1>i, <1>1, <1>2, <2>1 DEF Begin
    <2>2. CASE Work(t)
          BY <1>i, <1>1, <1>2, <2>2 DEF Work
    <2>3. CASE Repair(t)
          BY <1>i, <1>1, <1>2, <2>3 DEF Repair, RecordDeferred
    <2>4. CASE CheckStop(t)
          BY <1>i, <1>1, <1>2, <2>4 DEF CheckStop, AfterCycle
    <2>5. CASE Mark(t)
          BY <1>i, <1>1, <1>2, <2>5 DEF Mark, RecordCompleted
    <2>6. CASE Save(t)
          BY <1>i, <1>1, <1>2, <2>6 DEF Save, AfterCycle
    <2>7. CASE SaveUnlanded(t)
          BY <1>i, <1>1, <1>2, <2>7 DEF SaveUnlanded, AfterCycle
    <2>8. CASE Block(t)
      <3>1. CASE args.infinite
        <4>1. /\ blocked' = (blocked \/ pc[t] = "block" \/ streak + 1 >= MaxStreak)
              /\ pc' = [pc EXCEPT ![t] = IF streak + 1 >= MaxStreak THEN "halt" ELSE "save"]
              /\ stop' = stop
              BY <2>8, <3>1 DEF Block, Register
        <4>2. pc'[t] = "halt" => blocked'
              BY <1>i, <4>1
        <4>3. \A u \in Task : u # t => pc'[u] = pc[u]
              BY <1>i, <4>1
        <4>4. blocked => blocked'
              BY <4>1
        <4> QED BY <1>i, <1>1, <1>2, <4>1, <4>2, <4>3, <4>4
      <3>2. CASE ~args.infinite
            BY <1>i, <1>1, <1>2, <2>8, <3>2 DEF Block
      <3> QED BY <3>1, <3>2
    <2>9. CASE Halt(t)
          BY <1>i, <1>1, <1>2, <2>9 DEF Halt, AfterCycle
    <2>10. CASE Teardown(t)
          BY <1>i, <1>1, <1>2, <2>10 DEF Teardown
    <2> QED BY <2>1, <2>2, <2>3, <2>4, <2>5, <2>6, <2>7, <2>8, <2>9, <2>10 DEF Cycle, Agent, Bookkeeping
  <1> QED BY <1>1, <1>3 DEF Reports

\* On a pool of one a cycle has no worktree to tear down.
LEMMA CycleKeepsSerial ==
  ASSUME IInv, NEW t \in Task, Cycle(t)
  PROVE  Serial'
  <1>i. TypeOK /\ Alone /\ StreakCountsTasks /\ Accounted /\ CycleStep(t) /\ AbortsSpeak
        BY CycleSteps DEF IInv, Serial, Reports
  <1>1. CleanFinish' /\ t \in inflight
        BY <1>i, CycleBusy
  <1>2. UNCHANGED <<pool, args, dpc, inflight>>
        BY <1>i DEF CycleStep
  <1> SUFFICES ASSUME pool = 1 PROVE Alone' /\ StreakCountsTasks' /\ Accounted'
      BY <1>1, <1>2 DEF Serial, Alone, StreakCountsTasks, Accounted
  <1>3. /\ trees = {} /\ pc \in [Task -> Label] /\ since \in SUBSET Task
        /\ streak = Cardinality(since)
        /\ \A u \in since : pc[u] \in Final \cup {"halt", "save"}
        /\ dpc \notin {"top", "claim", "join", "decide"} /\ pc[t] # "teardown"
        BY <1>i, <1>1 DEF Alone, StreakCountsTasks, TypeOK, LedgerTypeOK
  <1> DEFINE Facts1 == trees' = {} /\ pc'[t] # "teardown" /\ \A u \in since' : pc'[u] \in Final \cup {"halt", "save"}
             Facts2 == streak' = Cardinality(since')
             Facts3 == args.infinite => \A u \in Task :
                         pc'[u] \in {"save", "halt", "done"} => u \in completed' \cup deferred' \/ blocked'
  <1>4. Facts1 /\ Facts2 /\ Facts3
    <2> USE DEF Goto, Facts, Accounted, Final
    <2>1. CASE Begin(t)
          BY <1>i, <1>3, <2>1 DEF Begin
    <2>2. CASE Work(t)
          BY <1>i, <1>3, <2>2 DEF Work
    <2>3. CASE Repair(t)
          BY <1>i, <1>3, <2>3 DEF Repair, RecordDeferred
    <2>4. CASE CheckStop(t)
          BY <1>i, <1>3, <2>4 DEF CheckStop, AfterCycle, AbortsSpeak
    <2>5. CASE Mark(t)
          BY <1>i, <1>3, <2>5, FS_EmptySet DEF Mark, RecordCompleted
    <2>6. CASE Save(t)
          BY <1>i, <1>3, <2>6 DEF Save, AfterCycle
    <2>7. CASE SaveUnlanded(t)
          BY <1>i, <1>3, <2>7 DEF SaveUnlanded, AfterCycle
    <2>8. CASE Block(t)
      <3>1. CASE args.infinite
        <4>1. /\ since' = since \cup {t} /\ streak' = streak + 1 /\ deferred' = deferred \cup {t}
              /\ completed' = completed /\ trees' = trees
              /\ blocked => blocked'
              /\ pc[t] \notin Final \cup {"halt", "save"}
              /\ pc' = [pc EXCEPT ![t] = IF streak + 1 >= MaxStreak THEN "halt" ELSE "save"]
              BY <2>8, <3>1 DEF Block, Register
        <4>2. t \notin since /\ Cardinality(since \cup {t}) = Cardinality(since) + 1
              BY <1>3, <4>1, Sizes
        <4> QED BY <1>i, <1>3, <4>1, <4>2
      <3>2. CASE ~args.infinite
            BY <1>i, <1>3, <2>8, <3>2 DEF Block
      <3> QED BY <3>1, <3>2
    <2>9. CASE Halt(t)
          BY <1>i, <1>3, <2>9 DEF Halt, AfterCycle
    <2>10. CASE Teardown(t)
          BY <1>i, <1>3, <2>10 DEF Teardown
    <2> QED BY <2>1, <2>2, <2>3, <2>4, <2>5, <2>6, <2>7, <2>8, <2>9, <2>10 DEF Cycle, Agent, Bookkeeping
  <1>5. Alone'
    <2>1. \A u \in Task : u # t => pc'[u] = pc[u]
          BY <1>i, <1>3 DEF CycleStep
    <2>2. \A u \in Task : pc'[u] \notin {"cancelled", "teardown"}
          BY <1>i, <1>3, <1>4, <2>1 DEF Alone, CycleStep
    <2> QED BY <1>i, <1>1, <1>2, <1>3, <1>4, <2>1, <2>2 DEF Alone
  <1> QED BY <1>2, <1>4, <1>5 DEF StreakCountsTasks, Accounted

LEMMA CycleKeeps ==
  ASSUME IInv, NEW t \in Task, Cycle(t)
  PROVE  IInv'
  BY CycleSteps, CycleKeepsRoom, CycleKeepsReports, CycleKeepsSerial DEF IInv
-----------------------------------------------------------------------------
(* The driver *)

\* Leaving the claim loop adds nothing and, on a pool of one, cancels nothing.
LEMMA LeaveKeeps ==
  ASSUME IInv, dpc \in {"top", "claim"}, LeaveLoop,
         UNCHANGED <<completed, deferred, streak, since>>,
         iteration' \in Nat, iteration' = 0 => iteration = 0,
         wall' \in BOOLEAN, blocked' \in BOOLEAN, blocked => blocked', wall' => blocked'
  PROVE  IInv'
  <1>i. TypeOK /\ Flight /\ DiskBehind /\ Reports /\ Room /\ Serial
        BY DEF IInv
  <1>1. /\ dpc' = "join" /\ pc' \in [Task -> Label]
        /\ \A t \in Task : pc'[t] = IF t \in inflight /\ pc[t] = "queued" THEN "cancelled" ELSE pc[t]
        /\ UNCHANGED <<pool, args, inflight, target, decision, runs, stop, disk, trees, raising, landed>>
        BY <1>i DEF LeaveLoop, TypeOK, Label, Final
  <1>2. TypeOK'
        BY <1>i, <1>1 DEF TypeOK, LedgerTypeOK
  <1>3. Flight'
        BY <1>i, <1>1 DEF Flight, Tracked, Joined, FirstClaim, Final
  <1>4. DiskBehind'
        BY <1>i, <1>1 DEF DiskBehind
  <1>5. Reports'
        BY <1>i, <1>1 DEF Reports, AbortsSpeak, AbortIsBlocked
  <1>6. Room'
    <2>1. Potential' \subseteq Potential
      <3>1. inflight \subseteq Task
            BY <1>i DEF TypeOK
      <3> QED BY <1>1, <3>1 DEF Potential, Unfinished, Over, Final
    <2>2. Potential \in SUBSET Task /\ Potential' \in SUBSET Task
          BY <1>i, <1>2 DEF Potential, Unfinished, TypeOK, LedgerTypeOK
    <2>3. /\ Cardinality(Potential') <= Cardinality(Potential)
          /\ Cardinality(Potential') \in Nat /\ Cardinality(Potential) \in Nat /\ target \in Nat
          BY <1>i, <2>1, <2>2, Sizes DEF TypeOK
    <2>4. UNCHANGED <<target, HasTarget>>
          BY <1>1 DEF HasTarget
    <2> QED BY <1>i, <1>1, <2>3, <2>4 DEF Room, NoOverrun, RoomToClaim, Potential
  <1>7. Serial'
    <2>1. pool = 1 => inflight = {} /\ \A t \in Task : pc'[t] = pc[t]
          BY <1>i, <1>1 DEF Serial, Alone
    <2>2. Alone' /\ StreakCountsTasks'
          BY <1>i, <1>1, <2>1 DEF TypeOK, LedgerTypeOK, Serial, Alone, StreakCountsTasks
    <2>3. Accounted' /\ CleanFinish'
          BY <1>i, <1>1, <2>1 DEF Serial, Accounted, CleanFinish, Reports, AbortsSpeak
    <2> QED BY <2>2, <2>3 DEF Serial
  <1> QED BY <1>2, <1>3, <1>4, <1>5, <1>6, <1>7 DEF IInv

LEMMA StopSeenKeeps ==
  ASSUME IInv, StopSeen
  PROVE  IInv'
  BY LeaveKeeps DEF StopSeen, Facts, IInv, TypeOK, LedgerTypeOK, Reports, AbortsSpeak

LEMMA WallClockKeeps ==
  ASSUME IInv, WallClockTripped
  PROVE  IInv'
  BY LeaveKeeps DEF WallClockTripped, MayClaim, IInv, TypeOK

LEMMA ClaimNoneKeeps ==
  ASSUME IInv, ClaimNone
  PROVE  IInv'
  <1>1. /\ dpc = "claim" /\ LeaveLoop /\ wall' = wall /\ iteration' = iteration + 1
        /\ UNCHANGED <<completed, deferred, streak, since>>
        BY DEF ClaimNone
  <1>2. iteration \in Nat /\ wall \in BOOLEAN /\ (wall => blocked)
        BY DEF IInv, TypeOK, Reports, AbortsSpeak
  <1>3. blocked' \in BOOLEAN /\ (blocked => blocked')
        BY DEF ClaimNone, IInv, TypeOK, LedgerTypeOK
  <1>4. iteration' \in Nat /\ iteration' # 0
        BY <1>1, <1>2
  <1>5. wall' \in BOOLEAN /\ (wall' => blocked')
    <2>1. wall' => blocked
          BY <1>1, <1>2
    <2> QED BY <1>1, <1>2, <1>3, <2>1
  <1> QED BY <1>1, <1>3, <1>4, <1>5, LeaveKeeps

LEMMA PauseOrClaimKeeps ==
  ASSUME IInv, PauseOrClaim
  PROVE  IInv'
  <1>i. TypeOK /\ Flight /\ DiskBehind /\ Reports /\ Room /\ Serial
        BY DEF IInv
  <1>1. /\ dpc = "top" /\ dpc' \in {"wait", "claim"} /\ (dpc' = "claim" => ~NearTarget)
        /\ UNCHANGED <<completed, deferred, streak, blocked, since, disk, pool, args, inflight, iteration,
                       target, wall, decision, runs, stop, pc, trees, raising, landed>>
        BY DEF PauseOrClaim, MayClaim, Facts
  <1>2. TypeOK'
        BY <1>i, <1>1 DEF TypeOK, LedgerTypeOK
  <1>3. Flight' /\ DiskBehind' /\ Reports'
        BY <1>i, <1>1 DEF Flight, Tracked, Joined, FirstClaim, DiskBehind, Reports, AbortsSpeak, AbortIsBlocked
  <1>4. Room'
    <2>1. UNCHANGED <<Potential, Unfinished, HasTarget, target, completed, inflight>>
          BY <1>1 DEF Potential, Unfinished, Over, HasTarget
    <2>2. ASSUME dpc' = "claim", HasTarget PROVE Cardinality(Potential) < target
      <3>1. /\ completed \in SUBSET Task /\ inflight \in SUBSET Task /\ Potential \in SUBSET Task
            /\ Potential \subseteq completed \cup inflight
            BY <1>i DEF TypeOK, LedgerTypeOK, Potential, Unfinished
      <3>2. completed \cup inflight \in SUBSET Task
            BY <3>1
      <3>3. /\ Cardinality(Potential) <= Cardinality(completed \cup inflight)
            /\ Cardinality(completed \cup inflight) <= Cardinality(completed) + Cardinality(inflight)
            BY <3>1, <3>2, Sizes
      <3>4. /\ Cardinality(Potential) \in Nat /\ Cardinality(completed \cup inflight) \in Nat
            /\ Cardinality(completed) \in Nat /\ Cardinality(inflight) \in Nat /\ target \in Nat
            BY <1>i, <3>1, <3>2, Sizes DEF TypeOK
      <3>5. ~(Cardinality(completed) + Cardinality(inflight) >= target)
            BY <1>1, <2>2 DEF NearTarget
      <3> QED BY <3>3, <3>4, <3>5
    <2>3. HasTarget => Cardinality(Potential) <= target
          BY <1>i, <1>1 DEF Room, NoOverrun, Potential
    <2> QED BY <2>1, <2>2, <2>3 DEF Room, NoOverrun, RoomToClaim, Potential
  <1>5. Serial'
        BY <1>i, <1>1 DEF Serial, Alone, StreakCountsTasks, Accounted, CleanFinish, Reports, AbortsSpeak
  <1> QED BY <1>2, <1>3, <1>4, <1>5 DEF IInv

\* Only an idle task is claimed, and one on file only by name.
LEMMA SelectableIsNew ==
  ASSUME IInv, dpc = "claim", NEW t \in Selectable
  PROVE  t \in Task /\ pc[t] = "idle" /\ (t \in disk.completed => t \in args.named)
  <1>i. TypeOK /\ FirstClaim /\ DiskBehind
        BY DEF IInv, Flight
  <1>1. CASE iteration = 0 /\ args.named # {}
        BY <1>i, <1>1, Constants DEF Selectable, FirstClaim, TypeOK
  <1>2. CASE ~(iteration = 0 /\ args.named # {})
    <2>1. t \in NewTasks \/ t \in Retries
          BY <1>2 DEF Selectable
    <2>2. t \in Task /\ t \notin completed /\ t \notin Attempted
          BY <1>i, <2>1 DEF NewTasks, Retries, TypeOK, LedgerTypeOK
    <2> QED BY <1>i, <2>2 DEF Attempted, DiskBehind
  <1> QED BY <1>1, <1>2

LEMMA ClaimKeeps ==
  ASSUME IInv, Claim
  PROVE  IInv'
  <1>i. TypeOK /\ Flight /\ DiskBehind /\ Reports /\ Room /\ Serial
        BY DEF IInv
  <1>1. PICK t \in Selectable : pc' = [pc EXCEPT ![t] = "queued"] /\ inflight' = inflight \cup {t}
        BY DEF Claim
  <1>2. t \in Task /\ pc[t] = "idle" /\ dpc = "claim"
        BY <1>1, SelectableIsNew DEF Claim
  <1>3. /\ pc' \in [Task -> Label] /\ pc'[t] = "queued" /\ \A u \in Task : u # t => pc'[u] = pc[u]
        /\ iteration' = iteration + 1 /\ iteration \in Nat /\ dpc' \in {"wait", "top"}
        /\ dpc' = IF Cardinality(inflight) + 1 >= pool THEN "wait" ELSE "top"
        /\ UNCHANGED <<completed, deferred, streak, blocked, since, disk, pool, args, target, wall, decision,
                       runs, stop, trees, raising, landed>>
        BY <1>i, <1>1, <1>2 DEF TypeOK, Claim, Facts, Label
  <1>4. TypeOK'
        BY <1>i, <1>1, <1>2, <1>3 DEF TypeOK, LedgerTypeOK
  <1>5. Flight' /\ DiskBehind'
        BY <1>i, <1>1, <1>2, <1>3 DEF Flight, Tracked, Joined, FirstClaim, DiskBehind
  <1>6. Reports'
        BY <1>i, <1>2, <1>3 DEF Reports, AbortsSpeak, AbortIsBlocked
  <1>7. Room'
    <2>1. Potential' \subseteq Potential \cup {t}
          BY <1>1, <1>3 DEF Potential, Unfinished, Over
    <2>2. Potential \in SUBSET Task /\ Potential' \in SUBSET Task /\ Potential \cup {t} \in SUBSET Task
          BY <1>i, <1>2, <1>4 DEF Potential, Unfinished, TypeOK, LedgerTypeOK
    <2>3. /\ Cardinality(Potential') <= Cardinality(Potential \cup {t})
          /\ Cardinality(Potential \cup {t}) <= Cardinality(Potential) + 1
          BY <1>2, <2>1, <2>2, Sizes
    <2>4. /\ Cardinality(Potential') \in Nat /\ Cardinality(Potential) \in Nat
          /\ Cardinality(Potential \cup {t}) \in Nat /\ target \in Nat
          BY <1>i, <2>2, Sizes DEF TypeOK
    <2>5. HasTarget => Cardinality(Potential) < target
          BY <1>i, <1>2 DEF Room, RoomToClaim
    <2>6. UNCHANGED <<target, HasTarget>>
          BY <1>3 DEF HasTarget
    <2> QED BY <1>3, <2>3, <2>4, <2>5, <2>6 DEF Room, NoOverrun, RoomToClaim, Potential
  <1>8. Serial'
    <2>1. pool = 1 => inflight = {} /\ dpc' = "wait"
      <3>1. Cardinality({}) = 0
            BY FS_EmptySet
      <3> QED BY <1>i, <1>2, <1>3, <3>1 DEF Serial, Alone
    <2>2. Alone'
          BY <1>i, <1>1, <1>2, <1>3, <2>1 DEF Serial, Alone, Final
    <2>3. StreakCountsTasks' /\ Accounted' /\ CleanFinish'
          BY <1>i, <1>2, <1>3 DEF Serial, StreakCountsTasks, Accounted, CleanFinish, Reports, AbortsSpeak
    <2> QED BY <2>2, <2>3 DEF Serial
  <1> QED BY <1>4, <1>5, <1>6, <1>7, <1>8 DEF IInv

LEMMA WaitKeeps ==
  ASSUME IInv, Wait
  PROVE  IInv'
  <1>i. TypeOK /\ Flight /\ DiskBehind /\ Reports /\ Room /\ Serial
        BY DEF IInv
  <1>1. /\ dpc = "wait" /\ inflight' = {t \in inflight : pc[t] \notin Final}
        /\ dpc' = IF \E t \in inflight : pc[t] = "raised" THEN "unwind" ELSE "top"
        /\ \E t \in inflight : pc[t] \in Final
        /\ UNCHANGED <<completed, deferred, streak, blocked, since, disk, pool, args, iteration,
                       target, wall, decision, runs, stop, pc, trees, raising, landed>>
        BY DEF Wait, Over, Facts
  <1>2. TypeOK'
        BY <1>i, <1>1 DEF TypeOK, LedgerTypeOK
  <1>3. Flight' /\ DiskBehind' /\ Reports'
        BY <1>i, <1>1 DEF Flight, Tracked, Joined, FirstClaim, DiskBehind, Reports, AbortsSpeak, AbortIsBlocked, Final
  <1>4. Room'
    <2>1. UNCHANGED <<Potential, HasTarget, target>>
          BY <1>1 DEF Potential, Unfinished, Over, HasTarget
    <2> QED BY <1>i, <1>1, <2>1 DEF Room, NoOverrun, RoomToClaim, Potential
  <1>5. Serial'
    <2>1. pool = 1 => inflight' = {}
          BY <1>i, <1>1 DEF Serial, Alone
    <2>2. Alone'
          BY <1>i, <1>1, <2>1 DEF Serial, Alone
    <2> QED BY <1>i, <1>1, <2>2 DEF Serial, StreakCountsTasks, Accounted, CleanFinish, Reports, AbortsSpeak
  <1> QED BY <1>2, <1>3, <1>4, <1>5 DEF IInv

LEMMA JoinKeeps ==
  ASSUME IInv, Join
  PROVE  IInv'
  <1>i. TypeOK /\ Flight /\ DiskBehind /\ Reports /\ Room /\ Serial
        BY DEF IInv
  <1>1. /\ dpc \in {"join", "unwind"} /\ \A t \in inflight : pc[t] \in Final
        /\ inflight' = {}
        /\ \/ dpc' = "idle" /\ decision' = "raised"
           \/ dpc = "join" /\ dpc' = "decide" /\ decision' = decision
        /\ UNCHANGED <<completed, deferred, streak, blocked, since, disk, pool, args, iteration,
                       target, wall, runs, stop, pc, trees, raising, landed>>
        BY DEF Join, Over, Facts
  <1>2. TypeOK'
        BY <1>i, <1>1 DEF TypeOK, LedgerTypeOK
  <1>3. Flight' /\ DiskBehind' /\ Reports'
        BY <1>i, <1>1 DEF Flight, Tracked, Joined, FirstClaim, DiskBehind, Reports, AbortsSpeak, AbortIsBlocked, Final
  <1>4. Room'
    <2>1. UNCHANGED <<Potential, HasTarget, target>>
          BY <1>1 DEF Potential, Unfinished, Over, HasTarget
    <2> QED BY <1>i, <1>1, <2>1 DEF Room, NoOverrun, RoomToClaim, Potential
  <1>5. Serial'
    <2>1. Alone'
          BY <1>i, <1>1 DEF Serial, Alone
    <2> QED BY <1>i, <1>1, <2>1 DEF Serial, StreakCountsTasks, Accounted, CleanFinish, Reports, AbortsSpeak
  <1> QED BY <1>2, <1>3, <1>4, <1>5 DEF IInv

\* The verdict: blocked if anything is, and a clean one only with nothing deferred.
LEMMA VerdictFacts ==
  ASSUME blocked \in BOOLEAN
  PROVE  /\ Verdict \in {"blocked", "limit-reached", "partial", "planned"}
         /\ blocked => Verdict = "blocked"
         /\ Verdict = "limit-reached" /\ ~HasTarget => ~blocked /\ deferred = {}
  <1>1. CASE blocked \/ Unmet
        BY <1>1 DEF Verdict
  <1>2. CASE ~(blocked \/ Unmet) /\ TargetReached
        BY <1>2 DEF Verdict, TargetReached
  <1>3. CASE ~(blocked \/ Unmet) /\ ~TargetReached /\ landed # {}
        BY <1>3 DEF Verdict
  <1>4. CASE ~(blocked \/ Unmet) /\ ~TargetReached /\ landed = {} /\ ~HasTarget
        BY <1>4 DEF Verdict
  <1>5. CASE ~(blocked \/ Unmet) /\ ~TargetReached /\ landed = {} /\ HasTarget
        BY <1>5 DEF Verdict
  <1> QED BY <1>1, <1>2, <1>3, <1>4, <1>5

LEMMA DecideKeeps ==
  ASSUME IInv, Decide
  PROVE  IInv'
  <1>i. TypeOK /\ Flight /\ DiskBehind /\ Reports /\ Room /\ Serial
        BY DEF IInv
  <1>1. /\ dpc = "decide" /\ dpc' = "idle" /\ decision' = Verdict
        /\ blocked' = (blocked \/ Unmet)
        /\ disk' = [completed |-> completed, deferred |-> deferred, target |-> target]
        /\ UNCHANGED <<completed, deferred, streak, since, pool, args, inflight, iteration, target, wall,
                       runs, stop, pc, trees, raising, landed>>
        BY DEF Decide, Checkpoint
  <1>2. /\ Verdict \in {"blocked", "limit-reached", "partial", "planned"}
        /\ blocked => Verdict = "blocked"
        /\ Verdict = "limit-reached" /\ ~HasTarget => ~blocked /\ deferred = {}
        BY <1>i, VerdictFacts DEF TypeOK, LedgerTypeOK
  <1>3. TypeOK'
    <2>1. blocked' \in BOOLEAN
          BY <1>1
    <2> QED BY <1>i, <1>1, <1>2, <2>1 DEF TypeOK, LedgerTypeOK
  <1>4. Flight' /\ DiskBehind'
        BY <1>i, <1>1 DEF Flight, Tracked, Joined, FirstClaim, DiskBehind
  <1>5. Reports'
    <2>1. blocked => blocked'
          BY <1>1
    <2> QED BY <1>i, <1>1, <1>2, <2>1 DEF Reports, AbortsSpeak, AbortIsBlocked
  <1>6. Room'
        BY <1>1 DEF Room, NoOverrun, RoomToClaim
  <1>7. Serial'
    <2>1. Alone'
          BY <1>i, <1>1 DEF Serial, Alone
    <2>2. StreakCountsTasks' /\ Accounted'
      <3>1. blocked => blocked'
            BY <1>1
      <3> QED BY <1>i, <1>1, <3>1 DEF Serial, StreakCountsTasks, Accounted
    <2>3. CleanFinish'
      <3> SUFFICES ASSUME pool' = 1, ~HasTarget', decision' = "limit-reached", NEW t \in Task, pc'[t] # "idle"
                   PROVE  t \in completed'
          BY DEF CleanFinish, Attempted
      <3>1. ~blocked /\ deferred = {} /\ pool = 1 /\ args.infinite /\ pc[t] # "idle"
            BY <1>1, <1>2 DEF HasTarget
      <3>2. pc[t] \in Final \ {"raised", "cancelled"}
            BY <1>i, <1>1, <3>1 DEF Flight, Tracked, Joined, Serial, Alone
      <3> QED BY <1>i, <1>1, <3>1, <3>2 DEF Serial, Accounted, Final
    <2> QED BY <2>1, <2>2, <2>3 DEF Serial
  <1> QED BY <1>3, <1>4, <1>5, <1>6, <1>7 DEF IInv
-----------------------------------------------------------------------------
(* A new process, and one that dies *)

\* A run never starts beyond its target.
LEMMA TargetAhead ==
  ASSUME NEW a \in Args, NEW n \in Nat, disk.target \in Nat
  PROVE  /\ TargetFrom(a, n) \in Nat
         /\ ~a.infinite \/ a.target > 0 => n <= TargetFrom(a, n)
  <1>0. a.infinite \in BOOLEAN /\ a.iterations \in Nat /\ a.target \in Nat
        BY Constants
  <1>1. CASE a.target > 0
        BY <1>0, <1>1 DEF TargetFrom
  <1>2. CASE a.target = 0 /\ a.infinite
        BY <1>0, <1>2 DEF TargetFrom
  <1>3. CASE a.target = 0 /\ ~a.infinite /\ disk.target > n
        BY <1>0, <1>3 DEF TargetFrom
  <1>4. CASE a.target = 0 /\ ~a.infinite /\ ~(disk.target > n)
        BY <1>0, <1>4 DEF TargetFrom
  <1> QED BY <1>0, <1>1, <1>2, <1>3, <1>4

\* Whatever a process left, a fresh one starts from the file alone.
LEMMA FreshKeeps ==
  ASSUME IInv, Fresh, UNCHANGED <<pool, disk>>, args' \in Args, target' \in Nat,
         runs' \in 0..MaxRuns[pool],
         \/ dpc' = "idle" /\ decision' = "crashed"
         \/ /\ dpc' = "top" /\ decision' = "none"
            /\ HasTarget' => Cardinality(disk.completed) <= target'
  PROVE  IInv'
  <1>i. TypeOK
        BY DEF IInv
  <1>1. /\ completed' = disk.completed /\ deferred' = disk.deferred /\ streak' = 0 /\ blocked' = FALSE
        /\ since' = {} /\ inflight' = {} /\ iteration' = 0 /\ stop' = FALSE /\ wall' = FALSE
        /\ pc' = [t \in Task |-> "idle"] /\ trees' = {} /\ raising' = {} /\ landed' = {}
        BY DEF Fresh, Load
  <1>2. TypeOK'
        BY <1>i, <1>1 DEF TypeOK, LedgerTypeOK, Label
  <1>3. Flight' /\ DiskBehind'
        BY <1>1 DEF Flight, Tracked, Joined, FirstClaim, DiskBehind
  <1>4. Reports'
        BY <1>1 DEF Reports, AbortsSpeak, AbortIsBlocked
  <1>5. Room'
    <2>1. (completed \cup Unfinished)' = disk.completed
          BY <1>1 DEF Unfinished
    <2> QED BY <2>1 DEF Room, NoOverrun, RoomToClaim
  <1>6. Serial'
        BY <1>1, FS_EmptySet DEF Serial, Alone, StreakCountsTasks, Accounted, CleanFinish
  <1> QED BY <1>2, <1>3, <1>4, <1>5, <1>6 DEF IInv

LEMMA StartRunKeeps ==
  ASSUME IInv, StartRun
  PROVE  IInv'
  <1>1. /\ disk.completed \in SUBSET Task /\ disk.target \in Nat
        /\ runs \in Nat /\ MaxRuns[pool] \in Nat /\ runs < MaxRuns[pool] /\ runs' = runs + 1
        BY Constants DEF IInv, TypeOK, LedgerTypeOK, StartRun
  <1>2. Cardinality(disk.completed) \in Nat
        BY <1>1, Sizes
  <1>3. /\ args' \in Args /\ target' = TargetFrom(args', Cardinality(disk.completed))
        /\ Fresh /\ dpc' = "top" /\ decision' = "none" /\ UNCHANGED <<pool, disk>>
        BY DEF StartRun
  <1>4. target' \in Nat /\ (HasTarget' => Cardinality(disk.completed) <= target')
        BY <1>1, <1>2, <1>3, TargetAhead DEF HasTarget
  <1>5. runs' \in 0..MaxRuns[pool]
        BY <1>1
  <1> QED BY <1>3, <1>4, <1>5, FreshKeeps

LEMMA CrashKeeps ==
  ASSUME IInv, Crash
  PROVE  IInv'
  BY FreshKeeps DEF Crash, IInv, TypeOK

LEMMA StutterKeeps ==
  ASSUME IInv, UNCHANGED vars
  PROVE  IInv'
  <1>1. UNCHANGED <<completed, deferred, streak, blocked, since, disk, pool, args, dpc, inflight, iteration,
                    target, wall, decision, runs, stop, pc, trees, raising, landed>>
        BY DEF vars, driver, Facts
  <1>2. TypeOK'
        BY <1>1 DEF IInv, TypeOK, LedgerTypeOK
  <1>3. Flight' /\ DiskBehind' /\ Reports'
        BY <1>1 DEF IInv, Flight, Tracked, Joined, FirstClaim, DiskBehind, Reports, AbortsSpeak, AbortIsBlocked
  <1>4. Room'
        BY <1>1 DEF IInv, Room, NoOverrun, RoomToClaim, Potential, Unfinished, Over, HasTarget
  <1>5. Serial'
        BY <1>1 DEF IInv, Serial, Alone, StreakCountsTasks, Accounted, CleanFinish, HasTarget, Attempted
  <1> QED BY <1>2, <1>3, <1>4, <1>5 DEF IInv
-----------------------------------------------------------------------------
(* The theorems *)

LEMMA NextKeeps == IInv /\ [Next]_vars => IInv'
  <1> SUFFICES ASSUME IInv, [Next]_vars PROVE IInv'
      OBVIOUS
  <1>1. CASE StartRun
        BY <1>1, StartRunKeeps
  <1>2. CASE Drive
        BY <1>2, StopSeenKeeps, WallClockKeeps, PauseOrClaimKeeps, ClaimKeeps, ClaimNoneKeeps,
           WaitKeeps, JoinKeeps, DecideKeeps DEF Drive
  <1>3. CASE Crash
        BY <1>3, CrashKeeps
  <1>4. ASSUME NEW t \in Task, Cycle(t) PROVE IInv'
        BY <1>4, CycleKeeps
  <1>5. CASE UNCHANGED vars
        BY <1>5, StutterKeeps
  <1> QED BY <1>1, <1>2, <1>3, <1>4, <1>5 DEF Next

\* The inductive invariant holds in every state a loop can reach, crashed and
\* resumed as often as may be.
THEOREM Inductive == Spec => []IInv
  BY InitHolds, NextKeeps, PTL DEF Spec

\* The variables of the loop and its ledger keep their types; what a run counts
\* as landed is on its completed list.
THEOREM TypeCorrect == Spec => []TypeOK
  <1>1. IInv => TypeOK
        BY DEF IInv
  <1> QED BY Inductive, <1>1, PTL

\* The overrun guard of the claim loop: even if every task in flight completed,
\* the run would not overshoot its target.
THEOREM TargetIsNotOverrun == Spec => []NoOverrun
  <1>1. IInv => NoOverrun
        BY DEF IInv, Room
  <1> QED BY Inductive, <1>1, PTL

\* register_task_blocker and the wall clock: an infinite run that was stopped
\* by a guard reports that it is blocked.
THEOREM AbortsAreBlocked == Spec => []AbortIsBlocked
  <1>1. IInv => AbortIsBlocked
        BY DEF IInv, Reports
  <1> QED BY Inductive, <1>1, PTL

\* On a pool of one the consecutive-blocker streak is the number of different
\* tasks blocked since the last completion.
THEOREM StreakIsTasks == Spec => []StreakCountsTasks
  <1>1. IInv => StreakCountsTasks
        BY DEF IInv, Serial
  <1> QED BY Inductive, <1>1, PTL

\* On a pool of one an open-ended run that reports a clean finish has completed
\* every task it took.
THEOREM CleanIsClean == Spec => []CleanFinish
  <1>1. IInv => CleanFinish
        BY DEF IInv, Serial
  <1> QED BY Inductive, <1>1, PTL

\* claim_next_task: a run takes a task at most once, and none that is on file
\* as completed unless --task-id names it.
THEOREM NothingIsRedone == Spec => NoRework
  <1> DEFINE Taken(t) == pc'[t] = "queued" /\ pc[t] # "queued" =>
                           pc[t] = "idle" /\ (t \in disk.completed => t \in args.named)
  <1>1. IInv /\ [Next]_vars => [\A t \in Task : Taken(t)]_vars
    <2> SUFFICES ASSUME IInv, Next, NEW t \in Task, pc'[t] = "queued", pc[t] # "queued"
                 PROVE  pc[t] = "idle" /\ (t \in disk.completed => t \in args.named)
        OBVIOUS
    <2>1. pc \in [Task -> Label]
          BY DEF IInv, TypeOK
    <2>2. CASE StartRun \/ Crash
          BY <2>2 DEF StartRun, Crash, Fresh
    <2>3. CASE StopSeen \/ WallClockTripped \/ ClaimNone
          BY <2>1, <2>3 DEF StopSeen, WallClockTripped, ClaimNone, LeaveLoop
    <2>4. CASE PauseOrClaim \/ Wait \/ Join \/ Decide
          BY <2>4 DEF PauseOrClaim, Wait, Join, Decide
    <2>5. CASE Claim
          BY <2>1, <2>5, SelectableIsNew DEF Claim
    <2>6. ASSUME NEW u \in Task, Cycle(u) PROVE FALSE
      <3>1. CycleStep(u)
            BY <2>6, CycleSteps DEF IInv
      <3> QED BY <2>1, <3>1 DEF CycleStep
    <2> QED BY <2>2, <2>3, <2>4, <2>5, <2>6 DEF Next, Drive
  <1> QED BY Inductive, <1>1, PTL DEF Spec, NoRework
-----------------------------------------------------------------------------
(* The loop as a durable queue *)

\* A completion that is not yet on file is being written: its cycle has marked
\* it and not gone on.
Saved == \A t \in completed : t \in disk.completed \/ pc[t] = "save"

\* The state of the queue, as ServesQueue reads it off the loop.
QueueVars == <<disk.completed, completed, Attempted, Unfinished, Goal>>

\* The queue counts as the loop does.
LEMMA SameSize == \A S : Queue!Cardinality(S) = Cardinality(S)
  BY Zenon DEF Queue!Cardinality, Cardinality, Queue!IsFiniteSet, IsFiniteSet

LEMMA SavedKeeps == IInv /\ Saved /\ [Next]_vars => Saved'
  <1> SUFFICES ASSUME IInv, Saved, [Next]_vars PROVE Saved'
      OBVIOUS
  <1>i. completed \in SUBSET Task /\ pc \in [Task -> Label]
        BY DEF IInv, TypeOK, LedgerTypeOK
  <1>1. CASE UNCHANGED vars
        BY <1>1 DEF vars, Facts, Saved
  <1>2. CASE StartRun \/ Crash
        BY <1>2 DEF StartRun, Crash, Fresh, Load, Saved
  <1>3. CASE StopSeen \/ WallClockTripped \/ ClaimNone
    <2>1. /\ completed' = completed /\ disk' = disk
          /\ \A t \in Task : pc[t] = "save" => pc'[t] = "save"
          BY <1>3 DEF StopSeen, WallClockTripped, ClaimNone, LeaveLoop, Facts
    <2> QED BY <1>i, <2>1 DEF Saved
  <1>4. CASE PauseOrClaim \/ Wait \/ Join
        BY <1>4 DEF PauseOrClaim, Wait, Join, Facts, Saved
  <1>5. CASE Claim
    <2>1. /\ completed' = completed /\ disk' = disk
          /\ \A t \in Task : pc[t] = "save" => pc'[t] = "save"
          BY <1>i, <1>5, SelectableIsNew DEF Claim, Facts
    <2> QED BY <1>i, <2>1 DEF Saved
  <1>6. CASE Decide
        BY <1>6 DEF Decide, Checkpoint, Saved
  <1>7. ASSUME NEW t \in Task, Cycle(t) PROVE Saved'
    <2>1. CycleStep(t)
          BY <1>7, CycleSteps DEF IInv
    <2>2. \A u \in Task \ {t} : pc'[u] = pc[u]
          BY <1>i, <2>1 DEF CycleStep
    <2>3. CASE completed' = completed
          BY <1>i, <2>1, <2>2, <2>3 DEF CycleStep, Saved
    <2>4. CASE completed' # completed
          BY <1>i, <2>1, <2>2, <2>4 DEF CycleStep, Saved
    <2> QED BY <2>3, <2>4
  <1> QED BY <1>1, <1>2, <1>3, <1>4, <1>5, <1>6, <1>7 DEF Next, Drive

\* Tasks that end, cancelled or through their cycle, are put down.
LEMMA PutsDown ==
  ASSUME completed' = completed, Attempted' = Attempted, Goal' = Goal,
         Unfinished' \subseteq Unfinished, disk'.completed \in {disk.completed, completed},
         \A t \in Unfinished \ Unfinished' : t \in completed => t \in disk'.completed
  PROVE  Queue!PutDown
  BY DEF Queue!PutDown

LEMMA CycleRefines ==
  ASSUME IInv, Saved, NEW t \in Task, Cycle(t)
  PROVE  Queue!Complete(t) \/ Queue!PutDown
  <1>i. completed \in SUBSET Task /\ pc \in [Task -> Label] /\ Tracked
        BY DEF IInv, TypeOK, LedgerTypeOK, Flight
  <1>1. CycleStep(t)
        BY CycleSteps DEF IInv
  <1>2. Goal' = Goal
        BY <1>1 DEF CycleStep, Goal, HasTarget
  <1>3. Attempted' = Attempted
        BY <1>i, <1>1 DEF CycleStep, Attempted
  <1>4. t \in Unfinished /\ Unfinished' \subseteq Unfinished /\ Unfinished \ {t} \subseteq Unfinished'
        BY <1>i, <1>1 DEF CycleStep, Unfinished, Over, Tracked, Final
  <1>5. CASE completed' = completed
    <2>1. t \in completed => t \in disk.completed \/ disk'.completed = completed
          BY <1>1 DEF CycleStep, Saved
    <2>2. disk'.completed \in {disk.completed, completed}
          BY <1>1 DEF CycleStep
    <2> QED BY <1>2, <1>3, <1>4, <1>5, <2>1, <2>2, PutsDown
  <1>6. CASE completed' # completed
    <2>1. /\ completed' = completed \cup {t} /\ disk' = disk
          /\ pc' = [pc EXCEPT ![t] = "save"] /\ inflight' = inflight
          BY <1>1, <1>6 DEF CycleStep
    <2>2. Unfinished' = Unfinished
          BY <1>i, <1>4, <2>1 DEF Unfinished, Over, Final
    <2> QED BY <1>2, <1>3, <1>4, <2>1, <2>2 DEF Queue!Complete
  <1> QED BY <1>5, <1>6

LEMMA LeaveRefines ==
  ASSUME IInv, Saved, StopSeen \/ WallClockTripped \/ ClaimNone
  PROVE  Queue!PutDown
  <1>i. completed \in SUBSET Task /\ pc \in [Task -> Label] /\ inflight \in SUBSET Task
        BY DEF IInv, TypeOK, LedgerTypeOK
  <1>1. LeaveLoop /\ completed' = completed
        BY DEF StopSeen, WallClockTripped, ClaimNone, Facts
  <1>2. Goal' = Goal
        BY <1>1 DEF LeaveLoop, Goal, HasTarget
  <1>3. Attempted' = Attempted
        BY <1>i, <1>1 DEF LeaveLoop, Attempted
  <1>4. /\ Unfinished' \subseteq Unfinished
        /\ \A t \in Unfinished \ Unfinished' : pc[t] = "queued"
        BY <1>i, <1>1 DEF LeaveLoop, Unfinished, Over, Final
  <1>5. disk' = disk
        BY <1>1 DEF LeaveLoop
  <1> QED BY <1>1, <1>2, <1>3, <1>4, <1>5, PutsDown DEF Saved

LEMMA ClaimRefines ==
  ASSUME IInv, Claim
  PROVE  \E t \in Task : Queue!Take(t)
  <1>i. /\ completed \in SUBSET Task /\ pc \in [Task -> Label] /\ inflight \in SUBSET Task
        /\ target \in Nat /\ FirstClaim /\ RoomToClaim
        BY DEF IInv, TypeOK, LedgerTypeOK, Flight, Room
  <1>1. PICK t \in Selectable : pc' = [pc EXCEPT ![t] = "queued"] /\ inflight' = inflight \cup {t}
        BY DEF Claim
  <1>2. t \in Task /\ pc[t] = "idle" /\ dpc = "claim"
        BY <1>1, SelectableIsNew DEF Claim
  <1>3. completed' = completed /\ disk' = disk /\ Goal' = Goal
        BY DEF Claim, Facts, Goal, HasTarget
  <1>4. t \notin Attempted /\ Attempted' = Attempted \cup {t}
        BY <1>i, <1>1, <1>2 DEF Attempted
  <1>5. Unfinished' = Unfinished \cup {t}
        BY <1>i, <1>1, <1>2 DEF Unfinished, Over, Final
  <1>6. t \in completed => Attempted = {}
    <2>1. CASE iteration = 0
          BY <1>i, <2>1 DEF FirstClaim, Attempted
    <2>2. CASE iteration # 0
          BY <2>2 DEF Selectable, NewTasks, Retries
    <2> QED BY <2>1, <2>2
  <1>7. Goal > 0 => Cardinality(completed \cup Unfinished \cup {t}) <= Goal
    <2> SUFFICES ASSUME Goal > 0 PROVE Cardinality(completed \cup Unfinished \cup {t}) <= Goal
        OBVIOUS
    <2>1. HasTarget /\ Goal = target
          BY DEF Goal
    <2>2. Cardinality(Potential) < target
          BY <1>i, <1>2, <2>1 DEF RoomToClaim
    <2>3. Potential \in SUBSET Task
          BY <1>i DEF Potential, Unfinished
    <2>4. /\ Cardinality(Potential) \in Nat /\ Cardinality(Potential \cup {t}) \in Nat
          /\ Cardinality(Potential \cup {t}) <= Cardinality(Potential) + 1
          BY <1>2, <2>3, Sizes
    <2> QED BY <1>i, <2>1, <2>2, <2>4 DEF Potential
  <1>8. Queue!Take(t)
        BY <1>3, <1>4, <1>5, <1>6, <1>7, SameSize DEF Queue!Take, Queue!Room
  <1> QED BY <1>2, <1>8

LEMMA BeginRefines ==
  ASSUME IInv, StartRun \/ Crash
  PROVE  Queue!Begin
  <1>i. /\ disk.completed \in SUBSET Task /\ disk.target \in Nat /\ completed \in SUBSET Task
        /\ inflight \in SUBSET Task
        /\ target \in Nat /\ DiskBehind /\ NoOverrun /\ args \in Args
        BY DEF IInv, TypeOK, LedgerTypeOK, Room
  <1>1. Fresh /\ disk' = disk
        BY DEF StartRun, Crash
  <1>2. completed' = disk.completed /\ Attempted' = {} /\ Unfinished' = {}
        BY <1>1 DEF Fresh, Load, Attempted, Unfinished
  <1>3. Cardinality(disk.completed) \in Nat
        BY <1>i, Sizes
  <1>4. Goal' \in Nat /\ (Goal' > 0 => Cardinality(disk.completed) <= Goal')
    <2>1. CASE StartRun
      <3>1. args' \in Args /\ target' = TargetFrom(args', Cardinality(disk.completed))
            BY <2>1 DEF StartRun
      <3>2. /\ target' \in Nat
            /\ ~args'.infinite \/ args'.target > 0 => Cardinality(disk.completed) <= target'
            BY <1>i, <1>3, <3>1, TargetAhead
      <3> QED BY <3>2 DEF Goal, HasTarget
    <2>2. CASE Crash
      <3>1. dpc # "idle" /\ target' = target /\ args' = args
            BY <2>2 DEF Crash
      <3>2. HasTarget => Cardinality(completed \cup Unfinished) <= target
            BY <1>i, <3>1 DEF NoOverrun
      <3>3. /\ Cardinality(completed \cup Unfinished) \in Nat
            /\ Cardinality(disk.completed) <= Cardinality(completed \cup Unfinished)
            BY <1>i, Sizes DEF DiskBehind, Unfinished
      <3> QED BY <1>i, <1>3, <3>1, <3>2, <3>3 DEF Goal, HasTarget
    <2> QED BY <2>1, <2>2
  <1> QED BY <1>1, <1>2, <1>4, SameSize DEF Queue!Begin, Queue!Room

\* The last write of a run files what it knows, with nothing in hand.
LEMMA DecideRefines ==
  ASSUME IInv, Decide
  PROVE  Queue!PutDown
  <1>1. /\ completed' = completed /\ disk'.completed = completed
        /\ Attempted' = Attempted /\ Unfinished' = Unfinished /\ Goal' = Goal
        BY DEF Decide, Checkpoint, Attempted, Unfinished, Over, Goal, HasTarget
  <1> QED BY <1>1, PutsDown

\* Waiting and joining take the ended tasks off a list the queue does not have.
LEMMA WaitRefines ==
  ASSUME PauseOrClaim \/ Wait \/ Join
  PROVE  UNCHANGED QueueVars
  <1>1. /\ completed' = completed /\ disk' = disk /\ pc' = pc /\ args' = args /\ target' = target
        BY DEF PauseOrClaim, Wait, Join, Facts
  <1>2. Unfinished' = Unfinished
        BY <1>1 DEF PauseOrClaim, Wait, Join, Unfinished, Over
  <1> QED BY <1>1, <1>2 DEF QueueVars, Attempted, Goal, HasTarget

\* Driver, pool, cycles, checkpoints and crashes implement the durable queue.
THEOREM ServesAsQueue == Spec => ServesQueue
  <1>1. Init => Queue!Init /\ Saved
        BY DEF Init, LedgerInit, EmptyFile, Queue!Init, Attempted, Unfinished, Saved, Goal
  <1>2. IInv /\ Saved /\ [Next]_vars => [Queue!Next]_QueueVars
    <2> SUFFICES ASSUME IInv, Saved, [Next]_vars
                 PROVE  Queue!Next \/ UNCHANGED QueueVars
        OBVIOUS
    <2>1. CASE UNCHANGED vars
          BY <2>1 DEF vars, Facts, driver, QueueVars, Attempted, Unfinished, Over, Goal, HasTarget
    <2>2. CASE StartRun \/ Crash
          BY <2>2, BeginRefines DEF Queue!Next
    <2>3. CASE StopSeen \/ WallClockTripped \/ ClaimNone
          BY <2>3, LeaveRefines DEF Queue!Next
    <2>4. CASE PauseOrClaim \/ Wait \/ Join
          BY <2>4, WaitRefines
    <2>5. CASE Claim
          BY <2>5, ClaimRefines DEF Queue!Next
    <2>6. CASE Decide
          BY <2>6, DecideRefines DEF Queue!Next
    <2>7. ASSUME NEW t \in Task, Cycle(t) PROVE Queue!Next
          BY <2>7, CycleRefines DEF Queue!Next
    <2> QED BY <2>1, <2>2, <2>3, <2>4, <2>5, <2>6, <2>7 DEF Next, Drive
  <1> QED BY <1>1, <1>2, SavedKeeps, Inductive, PTL DEF Spec, ServesQueue, Queue!Spec, QueueVars

\* persist_checkpoint: no write and no restart takes a completion back off the
\* state file; the queue promises as much.
THEOREM CompletionsAreDurable == Spec => DurableCompletion
  <1>1. Queue!Init => DiskBehind
        BY DEF Queue!Init, DiskBehind
  <1>2. DiskBehind /\ [Queue!Next]_QueueVars =>
          DiskBehind' /\ disk.completed \subseteq disk'.completed
        BY DEF Queue!Next, Queue!Begin, Queue!Take, Queue!Complete, Queue!PutDown, QueueVars,
               DiskBehind
  <1> QED BY <1>1, <1>2, ServesAsQueue, PTL
          DEF ServesQueue, Queue!Spec, QueueVars, DurableCompletion
=============================================================================
