--------------------------- MODULE AutoShipProofs ---------------------------
(***************************************************************************)
(* The auto-ship pipeline for every set of hook processes and every budget: *)
(* what reaches main is green, no work is lost with the branch, and the two *)
(* ship surfaces exclude each other.                                        *)
(***************************************************************************)
EXTENDS AutoShip, TLAPS

Counted == tree + left.edits <= Budget[alone].edits

\* Nobody starts a run next to another one.
Single == alone => \A p, q \in Run : InStages(p) /\ InStages(q) => p = q

Pushed == {"pr", "ci", "review", "merge", "settle"}
After == {"push", "tidy", "leave"} \cup Pushed

\* What the stages a run has behind it have established, and nobody undoes.
Behind ==
  alone => \A p \in Run :
    /\ pc[p] \in After => head = tree
    /\ pc[p] \in Pushed => remote = head
    /\ pc[p] \in {"ci", "review", "merge"} => pr \in Open
    /\ pc[p] \in {"review", "merge"} => ci[remote] = "green"
    /\ pc[p] = "settle" => pr \in Open \/ tree \in merged
    /\ pc[p] \in {"tidy", "leave"} => tree \in merged

\* Off the branch, all of the work is on main.
Landed == alone /\ place # "branch" => tree \in merged

\* No run gets past its commit with a private file the helper was not given.
Offered ==
  alone => /\ \A p \in Run : pc[p] \in After => private # "untracked"
           /\ place = "gone" => private # "untracked"

\* Calls that did not cross: one surface at a time is between its check and its
\* write, and what it has checked still holds.
Uncrossed ==
  ~crossed => /\ arming = "idle" \/ entering = "idle"
              /\ arming # "idle" => ~InUse
              /\ entering # "idle" => /\ arm = None
                                      /\ alone => ~ \E p \in Run : InStages(p)

Safe == Single /\ Behind /\ MergedIsGreen /\ Landed /\ Offered /\ Uncrossed /\ OneSurface
IInv == TypeOK /\ Counted /\ Safe
-----------------------------------------------------------------------------
LEMMA InitHolds == Init => IInv
  <1> SUFFICES ASSUME Init PROVE IInv
      OBVIOUS
  <1>1. Budget[alone] \in [edits : Nat, arms : Nat, skills : Nat, crashes : Nat]
        BY ShipAssumption DEF Init
  <1>2. now \in Time /\ 0 \in Version /\ alone \in Modes
        BY <1>1, ShipAssumption DEF Init, Time, Version
  <1>3. /\ pc \in [Run -> Stage \cup {"idle"}] /\ draft \in [Run -> BOOLEAN]
        /\ ci \in [Version -> {"pending", "green", "red"}]
        BY DEF Init, Version
  <1>4. TypeOK
    <2>1. left \in [edits : Nat, arms : Nat, skills : Nat, crashes : Nat]
          BY <1>1 DEF Init
    <2>2. {tree, head, remote} \subseteq Version /\ head <= tree /\ remote <= head
          BY <1>2 DEF Init
    <2> QED BY <1>2, <1>3, <2>1, <2>2 DEF Init, TypeOK
  <1>5. Counted /\ Safe
        BY <1>1, <1>3 DEF Init, Counted, Safe, Single, Behind, MergedIsGreen, Landed, Offered, Uncrossed, OneSurface,
                 InUse, InStages, After, Pushed
  <1> QED BY <1>4, <1>5 DEF IInv
-----------------------------------------------------------------------------
(* The steps *)

LEMMA Bounds ==
  ASSUME IInv
  PROVE  /\ Budget[alone].edits \in Nat
         /\ Version = 0..Budget[alone].edits
         /\ Ttl \in Nat /\ MaxTime \in Nat /\ Time = 1..MaxTime
         /\ None \notin Run
  <1>1. Budget[alone] \in [edits : Nat, arms : Nat, skills : Nat, crashes : Nat]
        <2>1. alone \in Modes
              BY DEF IInv, TypeOK
        <2> QED BY <2>1, ShipAssumption
  <1> QED BY <1>1, ShipAssumption DEF Version, Time

LEMMA Versions ==
  ASSUME IInv
  PROVE  /\ {0, tree, head, remote} \subseteq Version /\ Version \subseteq Nat
         /\ tree <= tree /\ head <= head /\ 0 <= head /\ remote <= tree
  <1>1. {tree, head, remote} \subseteq Version /\ head <= tree /\ remote <= head
        BY DEF IInv, TypeOK
  <1> QED BY <1>1, Bounds

LEMMA ArmChecksKeeps ==
  ASSUME IInv, ArmChecks
  PROVE  IInv'
  <1> USE DEF IInv, ArmChecks, Free, Goto, files, work, github, calls
  <1>1. TypeOK' /\ Counted'
    <2>1. /\ left' \in [edits : Nat, arms : Nat, skills : Nat, crashes : Nat]
          /\ left'.edits = left.edits
          BY DEF TypeOK
    <2>2. alone' = alone /\ Version' = Version
          BY DEF Version
    <2>3. TypeOK'
          BY <2>1, <2>2 DEF TypeOK
    <2> QED BY <2>1, <2>2, <2>3 DEF Counted
  <1>2. Single' /\ Behind'
        BY Bounds DEF TypeOK, Safe, Single, Behind, Quiet, InStages, After, Pushed, Open
  <1>3. MergedIsGreen' /\ Landed' /\ Offered'
        BY Bounds DEF TypeOK, Safe, Single, Behind, MergedIsGreen, Landed, Offered, Quiet, InStages, After, Pushed, Open
  <1>4. Uncrossed' /\ OneSurface'
        BY Bounds DEF TypeOK, Safe, Uncrossed, OneSurface, InUse, LeftBehind, Quiet, InStages, Stage
  <1> QED BY <1>1, <1>2, <1>3, <1>4 DEF Safe

LEMMA ArmClearsKeeps ==
  ASSUME IInv, ArmClears
  PROVE  IInv'
  <1> USE DEF IInv, ArmClears, Goto, files, work, github, calls
  <1>1. TypeOK' /\ Counted'
    <2>1. alone' = alone /\ Version' = Version
          BY DEF Version
    <2>2. TypeOK'
          BY <2>1 DEF TypeOK, Stage, Open
    <2> QED BY <2>1, <2>2 DEF Counted
  <1>2. Single' /\ Behind'
        BY Bounds DEF TypeOK, Safe, Single, Behind, Quiet, InStages, After, Pushed, Open
  <1>3. MergedIsGreen' /\ Landed' /\ Offered'
        BY Bounds DEF TypeOK, Safe, Single, Behind, MergedIsGreen, Landed, Offered, Quiet, InStages, After, Pushed, Open
  <1>4. Uncrossed' /\ OneSurface'
        BY Bounds DEF TypeOK, Safe, Uncrossed, OneSurface, InUse, LeftBehind, Quiet, InStages, Stage
  <1> QED BY <1>1, <1>2, <1>3, <1>4 DEF Safe

LEMMA ArmWritesKeeps ==
  ASSUME IInv, ArmWrites
  PROVE  IInv'
  <1> USE DEF IInv, ArmWrites, Expiry, Goto, files, work, github, calls
  <1>1. TypeOK' /\ Counted'
    <2>1. /\ left' \in [edits : Nat, arms : Nat, skills : Nat, crashes : Nat]
          /\ left'.edits = left.edits
          BY DEF TypeOK
    <2>2. now \in Nat /\ now + Ttl \in 1..MaxTime + Ttl
      <3>1. now \in Time
            BY DEF TypeOK
      <3> QED BY <3>1, Bounds
    <2>3. PICK d \in BOOLEAN : arm' = [expires |-> now + Ttl, draft |-> d]
          OBVIOUS
    <2>4. /\ arm' \in [expires : 1..MaxTime + Ttl, draft : BOOLEAN] \cup {None}
          /\ arm'.expires <= now + Ttl
          BY <2>2, <2>3
    <2>5. alone' = alone /\ Version' = Version
          BY DEF Version
    <2>6. TypeOK'
          BY <2>1, <2>4, <2>5 DEF TypeOK
    <2> QED BY <2>5, <2>6 DEF Counted
  <1>2. Single' /\ Behind'
        BY Bounds DEF TypeOK, Safe, Single, Behind, Quiet, InStages, After, Pushed, Open
  <1>3. MergedIsGreen' /\ Landed' /\ Offered'
        BY Bounds DEF TypeOK, Safe, Single, Behind, MergedIsGreen, Landed, Offered, Quiet, InStages, After, Pushed, Open
  <1>4. Uncrossed' /\ OneSurface'
        BY Bounds DEF TypeOK, Safe, Uncrossed, OneSurface, InUse, LeftBehind, Quiet, InStages, Stage
  <1> QED BY <1>1, <1>2, <1>3, <1>4 DEF Safe

LEMMA DisarmKeeps ==
  ASSUME IInv, Disarm
  PROVE  IInv'
  <1> USE DEF IInv, Disarm, Goto, files, work, github, calls
  <1>1. TypeOK' /\ Counted'
    <2>1. alone' = alone /\ Version' = Version
          BY DEF Version
    <2>2. TypeOK'
          BY <2>1 DEF TypeOK, Stage, Open
    <2> QED BY <2>1, <2>2 DEF Counted
  <1>2. Single' /\ Behind'
        BY Bounds DEF TypeOK, Safe, Single, Behind, Quiet, InStages, After, Pushed, Open
  <1>3. MergedIsGreen' /\ Landed' /\ Offered'
        BY Bounds DEF TypeOK, Safe, Single, Behind, MergedIsGreen, Landed, Offered, Quiet, InStages, After, Pushed, Open
  <1>4. Uncrossed' /\ OneSurface'
        BY Bounds DEF TypeOK, Safe, Uncrossed, OneSurface, InUse, LeftBehind, Quiet, InStages, Stage
  <1> QED BY <1>1, <1>2, <1>3, <1>4 DEF Safe

LEMMA EnterChecksKeeps ==
  ASSUME IInv, EnterChecks
  PROVE  IInv'
  <1> USE DEF IInv, EnterChecks, Goto, files, work, github, calls
  <1>1. TypeOK' /\ Counted'
    <2>1. /\ left' \in [edits : Nat, arms : Nat, skills : Nat, crashes : Nat]
          /\ left'.edits = left.edits
          BY DEF TypeOK
    <2>2. alone' = alone /\ Version' = Version
          BY DEF Version
    <2>3. TypeOK'
          BY <2>1, <2>2 DEF TypeOK
    <2> QED BY <2>1, <2>2, <2>3 DEF Counted
  <1>2. Single' /\ Behind'
        BY Bounds DEF TypeOK, Safe, Single, Behind, Quiet, InStages, After, Pushed, Open
  <1>3. MergedIsGreen' /\ Landed' /\ Offered'
        BY Bounds DEF TypeOK, Safe, Single, Behind, MergedIsGreen, Landed, Offered, Quiet, InStages, After, Pushed, Open
  <1>4. Uncrossed' /\ OneSurface'
        BY Bounds DEF TypeOK, Safe, Uncrossed, OneSurface, InUse, LeftBehind, Quiet, InStages, Stage
  <1> QED BY <1>1, <1>2, <1>3, <1>4 DEF Safe

LEMMA EnterWritesKeeps ==
  ASSUME IInv, EnterWrites
  PROVE  IInv'
  <1> USE DEF IInv, EnterWrites, Goto, files, work, github, calls
  <1>1. TypeOK' /\ Counted'
    <2>1. alone' = alone /\ Version' = Version
          BY DEF Version
    <2>2. TypeOK'
          BY <2>1 DEF TypeOK, Stage, Open
    <2> QED BY <2>1, <2>2 DEF Counted
  <1>2. Single' /\ Behind'
        BY Bounds DEF TypeOK, Safe, Single, Behind, Quiet, InStages, After, Pushed, Open
  <1>3. MergedIsGreen' /\ Landed' /\ Offered'
        BY Bounds DEF TypeOK, Safe, Single, Behind, MergedIsGreen, Landed, Offered, Quiet, InStages, After, Pushed, Open
  <1>4. Uncrossed' /\ OneSurface'
    <2>1. Uncrossed'
          BY DEF Safe, Uncrossed
    <2>2. ASSUME ~crossed PROVE arm = None /\ (alone => ~ \E p \in Run : InStages(p))
          BY <2>2 DEF TypeOK, Safe, Uncrossed, InStages
    <2>3. OneSurface'
          BY <2>2 DEF OneSurface, InStages
    <2> QED BY <2>1, <2>3
  <1> QED BY <1>1, <1>2, <1>3, <1>4 DEF Safe

LEMMA GivesUpKeeps ==
  ASSUME IInv, GivesUp
  PROVE  IInv'
  <1> USE DEF IInv, GivesUp, Goto, files, work, github, calls
  <1>1. TypeOK' /\ Counted'
    <2>1. alone' = alone /\ Version' = Version
          BY DEF Version
    <2>2. TypeOK'
          BY <2>1 DEF TypeOK, Stage, Open
    <2> QED BY <2>1, <2>2 DEF Counted
  <1>2. Single' /\ Behind'
        BY Bounds DEF TypeOK, Safe, Single, Behind, Quiet, InStages, After, Pushed, Open
  <1>3. MergedIsGreen' /\ Landed' /\ Offered'
        BY Bounds DEF TypeOK, Safe, Single, Behind, MergedIsGreen, Landed, Offered, Quiet, InStages, After, Pushed, Open
  <1>4. Uncrossed' /\ OneSurface'
        BY Bounds DEF TypeOK, Safe, Uncrossed, OneSurface, InUse, LeftBehind, Quiet, InStages, Stage
  <1> QED BY <1>1, <1>2, <1>3, <1>4 DEF Safe

LEMMA ExitShipPrKeeps ==
  ASSUME IInv, ExitShipPr
  PROVE  IInv'
  <1> USE DEF IInv, ExitShipPr, Goto, files, work, github, calls
  <1>1. TypeOK' /\ Counted'
    <2>1. alone' = alone /\ Version' = Version
          BY DEF Version
    <2>2. TypeOK'
          BY <2>1 DEF TypeOK, Stage, Open
    <2> QED BY <2>1, <2>2 DEF Counted
  <1>2. Single' /\ Behind'
        BY Bounds DEF TypeOK, Safe, Single, Behind, Quiet, InStages, After, Pushed, Open
  <1>3. MergedIsGreen' /\ Landed' /\ Offered'
        BY Bounds DEF TypeOK, Safe, Single, Behind, MergedIsGreen, Landed, Offered, Quiet, InStages, After, Pushed, Open
  <1>4. Uncrossed' /\ OneSurface'
        BY Bounds DEF TypeOK, Safe, Uncrossed, OneSurface, InUse, LeftBehind, Quiet, InStages, Stage
  <1> QED BY <1>1, <1>2, <1>3, <1>4 DEF Safe

LEMMA StopEndsKeeps ==
  ASSUME IInv, NEW p \in Run, StopEnds(p)
  PROVE  IInv'
  <1> USE DEF IInv, StopEnds, Goto, files, work, github, calls
  <1>1. TypeOK' /\ Counted'
    <2>1. arm' = arm \/ arm' = None
          OBVIOUS
    <2>2. /\ arm' \in [expires : 1..MaxTime + Ttl, draft : BOOLEAN] \cup {None}
          /\ arm' # None => arm'.expires <= now' + Ttl
          BY <2>1 DEF TypeOK
    <2>3. pid' \in Run \cup {None} /\ marker' \in Time \cup {None} /\ alone' = alone
          BY DEF TypeOK
    <2>4. Version' = Version /\ Counted'
          BY <2>3 DEF Counted, Version
    <2> QED BY <2>2, <2>3, <2>4 DEF TypeOK
  <1>2. Single' /\ Behind'
        BY Bounds DEF TypeOK, Safe, Single, Behind, Quiet, InStages, After, Pushed, Open
  <1>3. MergedIsGreen' /\ Landed' /\ Offered'
        BY Bounds DEF TypeOK, Safe, Single, Behind, MergedIsGreen, Landed, Offered, Quiet, InStages, After, Pushed, Open
  <1>4. Uncrossed' /\ OneSurface'
        BY Bounds DEF TypeOK, Safe, Uncrossed, OneSurface, InUse, LeftBehind, Quiet, InStages, Stage
  <1> QED BY <1>1, <1>2, <1>3, <1>4 DEF Safe

LEMMA StopStartsKeeps ==
  ASSUME IInv, NEW p \in Run, StopStarts(p)
  PROVE  IInv'
  <1> USE DEF IInv, StopStarts, Over, Goto, files, work, github, calls
  <1>1. TypeOK' /\ Counted'
    <2>1. alone' = alone /\ Version' = Version
          BY DEF Version
    <2>2. TypeOK'
          BY <2>1 DEF TypeOK, Stage, Open
    <2> QED BY <2>1, <2>2 DEF Counted
  <1>2. Single' /\ Behind'
        BY Bounds DEF TypeOK, Safe, Single, Behind, Quiet, InStages, After, Pushed, Open
  <1>3. MergedIsGreen' /\ Landed' /\ Offered'
        BY Bounds DEF TypeOK, Safe, Single, Behind, MergedIsGreen, Landed, Offered, Quiet, InStages, After, Pushed, Open
  <1>4. Uncrossed' /\ OneSurface'
        BY Bounds DEF TypeOK, Safe, Uncrossed, OneSurface, InUse, LeftBehind, Quiet, InStages, Stage
  <1> QED BY <1>1, <1>2, <1>3, <1>4 DEF Safe

LEMMA FailsKeeps ==
  ASSUME IInv, NEW p \in Run, Fails(p)
  PROVE  IInv'
  <1> USE DEF IInv, Fails, Abort, Ends, Goto, files, work, github, calls
  <1>1. TypeOK' /\ Counted'
    <2>1. alone' = alone /\ Version' = Version
          BY DEF Version
    <2>2. TypeOK'
          BY <2>1 DEF TypeOK, Stage, Open
    <2> QED BY <2>1, <2>2 DEF Counted
  <1>2. Single' /\ Behind'
        BY Bounds DEF TypeOK, Safe, Single, Behind, Quiet, InStages, After, Pushed, Open
  <1>3. MergedIsGreen' /\ Landed' /\ Offered'
        BY Bounds DEF TypeOK, Safe, Single, Behind, MergedIsGreen, Landed, Offered, Quiet, InStages, After, Pushed, Open
  <1>4. Uncrossed' /\ OneSurface'
    <2>1. \A q \in Run : InStages(q)' => InStages(q)
          BY DEF TypeOK, InStages
    <2>2. alone' = alone /\ crossed' = crossed /\ (InUse' => InUse) /\ (arm' # None => arm # None)
          BY DEF InUse, LeftBehind
    <2>3. arming' = arming /\ entering' = entering
          OBVIOUS
    <2> QED BY <2>1, <2>2, <2>3 DEF TypeOK, Safe, Uncrossed, OneSurface, InStages
  <1> QED BY <1>1, <1>2, <1>3, <1>4 DEF Safe

LEMMA CommitKeeps ==
  ASSUME IInv, NEW p \in Run, Commit(p)
  PROVE  IInv'
  <1> USE DEF IInv, Commit, Preserved, Passes, Goto, files, work, github, calls
  <1>1. TypeOK' /\ Counted'
    <2>1. alone' = alone /\ Version' = Version
          BY DEF Version
    <2>2. /\ tree' \in Version /\ head' \in Version /\ remote' \in Version
          /\ head' <= tree' /\ remote' <= head'
          BY Versions DEF TypeOK
    <2>3. TypeOK'
          BY <2>1, <2>2 DEF TypeOK, Stage, Open
    <2> QED BY <2>1, <2>3 DEF Counted
  <1>2. Single' /\ Behind'
        BY Bounds DEF TypeOK, Safe, Single, Behind, Quiet, InStages, After, Pushed, Open
  <1>3. MergedIsGreen' /\ Landed' /\ Offered'
        BY Bounds DEF TypeOK, Safe, Single, Behind, MergedIsGreen, Landed, Offered, Quiet, InStages, After, Pushed, Open
  <1>4. Uncrossed' /\ OneSurface'
        BY Bounds DEF TypeOK, Safe, Uncrossed, OneSurface, InUse, LeftBehind, Quiet, InStages, Stage
  <1> QED BY <1>1, <1>2, <1>3, <1>4 DEF Safe

LEMMA CommitFailsKeeps ==
  ASSUME IInv, NEW p \in Run, CommitFails(p)
  PROVE  IInv'
  <1> USE DEF IInv, CommitFails, Preserved, Abort, Ends, Goto, files, work, github, calls
  <1>1. TypeOK' /\ Counted'
    <2>1. alone' = alone /\ Version' = Version
          BY DEF Version
    <2>2. TypeOK'
          BY <2>1 DEF TypeOK, Stage, Open
    <2> QED BY <2>1, <2>2 DEF Counted
  <1>2. Single' /\ Behind'
        BY Bounds DEF TypeOK, Safe, Single, Behind, Quiet, InStages, After, Pushed, Open
  <1>3. MergedIsGreen' /\ Landed' /\ Offered'
        BY Bounds DEF TypeOK, Safe, Single, Behind, MergedIsGreen, Landed, Offered, Quiet, InStages, After, Pushed, Open
  <1>4. Uncrossed' /\ OneSurface'
    <2>1. \A q \in Run : InStages(q)' => InStages(q)
          BY DEF TypeOK, InStages
    <2>2. alone' = alone /\ crossed' = crossed /\ (InUse' => InUse) /\ (arm' # None => arm # None)
          BY DEF InUse, LeftBehind
    <2>3. arming' = arming /\ entering' = entering
          OBVIOUS
    <2> QED BY <2>1, <2>2, <2>3 DEF TypeOK, Safe, Uncrossed, OneSurface, InStages
  <1> QED BY <1>1, <1>2, <1>3, <1>4 DEF Safe

LEMMA PushKeeps ==
  ASSUME IInv, NEW p \in Run, Push(p)
  PROVE  IInv'
  <1> USE DEF IInv, Push, Passes, Goto, files, work, github, calls
  <1>1. TypeOK' /\ Counted'
    <2>1. alone' = alone /\ Version' = Version
          BY DEF Version
    <2>2. /\ tree' \in Version /\ head' \in Version /\ remote' \in Version
          /\ head' <= tree' /\ remote' <= head'
          BY Versions DEF TypeOK
    <2>3. TypeOK'
          BY <2>1, <2>2 DEF TypeOK, Stage, Open
    <2> QED BY <2>1, <2>3 DEF Counted
  <1>2. Single' /\ Behind'
        BY Bounds DEF TypeOK, Safe, Single, Behind, Quiet, InStages, After, Pushed, Open
  <1>3. MergedIsGreen' /\ Landed' /\ Offered'
        BY Bounds DEF TypeOK, Safe, Single, Behind, MergedIsGreen, Landed, Offered, Quiet, InStages, After, Pushed, Open
  <1>4. Uncrossed' /\ OneSurface'
        BY Bounds DEF TypeOK, Safe, Uncrossed, OneSurface, InUse, LeftBehind, Quiet, InStages, Stage
  <1> QED BY <1>1, <1>2, <1>3, <1>4 DEF Safe

LEMMA PullRequestKeeps ==
  ASSUME IInv, NEW p \in Run, PullRequest(p)
  PROVE  IInv'
  <1> USE DEF IInv, PullRequest, Passes, Goto, files, work, github, calls
  <1>1. TypeOK' /\ Counted'
    <2>1. alone' = alone /\ Version' = Version
          BY DEF Version
    <2>2. TypeOK'
          BY <2>1 DEF TypeOK, Stage, Open
    <2> QED BY <2>1, <2>2 DEF Counted
  <1>2. Single' /\ Behind'
        BY Bounds DEF TypeOK, Safe, Single, Behind, Quiet, InStages, After, Pushed, Open
  <1>3. MergedIsGreen' /\ Landed' /\ Offered'
        BY Bounds DEF TypeOK, Safe, Single, Behind, MergedIsGreen, Landed, Offered, Quiet, InStages, After, Pushed, Open
  <1>4. Uncrossed' /\ OneSurface'
        BY Bounds DEF TypeOK, Safe, Uncrossed, OneSurface, InUse, LeftBehind, Quiet, InStages, Stage
  <1> QED BY <1>1, <1>2, <1>3, <1>4 DEF Safe

LEMMA ChecksKeeps ==
  ASSUME IInv, NEW p \in Run, Checks(p)
  PROVE  IInv'
  <1> USE DEF IInv, Checks, Passes, Green, Goto, files, work, github, calls
  <1>1. TypeOK' /\ Counted'
    <2>1. alone' = alone /\ Version' = Version
          BY DEF Version
    <2>2. TypeOK'
          BY <2>1 DEF TypeOK, Stage, Open
    <2> QED BY <2>1, <2>2 DEF Counted
  <1>2. Single' /\ Behind'
        BY Bounds DEF TypeOK, Safe, Single, Behind, Quiet, InStages, After, Pushed, Open
  <1>3. MergedIsGreen' /\ Landed' /\ Offered'
        BY Bounds DEF TypeOK, Safe, Single, Behind, MergedIsGreen, Landed, Offered, Quiet, InStages, After, Pushed, Open
  <1>4. Uncrossed' /\ OneSurface'
        BY Bounds DEF TypeOK, Safe, Uncrossed, OneSurface, InUse, LeftBehind, Quiet, InStages, Stage
  <1> QED BY <1>1, <1>2, <1>3, <1>4 DEF Safe

LEMMA ReviewKeeps ==
  ASSUME IInv, NEW p \in Run, Review(p)
  PROVE  IInv'
  <1> USE DEF IInv, Review, Passes, Abort, Ends, Goto, files, work, github, calls
  <1>1. TypeOK' /\ Counted'
    <2>1. alone' = alone /\ Version' = Version
          BY DEF Version
    <2>2. pr' \in {"none", "merged"} \cup Open
          BY DEF TypeOK, Open
    <2>3. /\ arm' = arm \/ arm' = None
          /\ pid' = pid \/ pid' = None
          /\ pc' \in [Run -> Stage \cup {"idle"}] /\ draft' \in [Run -> BOOLEAN]
          BY DEF TypeOK, Stage
    <2>4. TypeOK'
          BY <2>1, <2>2, <2>3 DEF TypeOK
    <2> QED BY <2>1, <2>4 DEF Counted
  <1>2. Single' /\ Behind'
    <2>1. CASE Goto(p, "merge")
          BY <2>1, Bounds DEF TypeOK, Safe, Single, Behind, Quiet, InStages, After, Pushed, Open
    <2>2. CASE Goto(p, "idle")
          BY <2>2, Bounds DEF TypeOK, Safe, Single, Behind, Quiet, InStages, After, Pushed, Open
    <2> QED BY <2>1, <2>2
  <1>3. MergedIsGreen' /\ Landed' /\ Offered'
        BY Bounds DEF TypeOK, Safe, Single, Behind, MergedIsGreen, Landed, Offered, Quiet, InStages, After, Pushed, Open
  <1>4. Uncrossed' /\ OneSurface'
    <2>1. \A q \in Run : InStages(q)' => InStages(q)
          BY DEF TypeOK, InStages
    <2>2. alone' = alone /\ crossed' = crossed /\ (InUse' => InUse) /\ (arm' # None => arm # None)
          BY DEF InUse, LeftBehind
    <2>3. arming' = arming /\ entering' = entering
          OBVIOUS
    <2> QED BY <2>1, <2>2, <2>3 DEF TypeOK, Safe, Uncrossed, OneSurface, InStages
  <1> QED BY <1>1, <1>2, <1>3, <1>4 DEF Safe

LEMMA MergeKeeps ==
  ASSUME IInv, NEW p \in Run, Merge(p)
  PROVE  IInv'
  <1> USE DEF IInv, Merge, MergesHead, Passes, Abort, Ends, Goto, files, work, github, calls
  <1>1. TypeOK' /\ Counted'
    <2>1. remote \in Version /\ merged' \subseteq Version /\ pr' \in {"merged"} \cup Open
          BY DEF TypeOK
    <2>2. alone' = alone /\ Version' = Version
          BY DEF Version
    <2>3. /\ arm' = arm \/ arm' = None
          /\ pid' = pid \/ pid' = None
          /\ pc' \in [Run -> Stage \cup {"idle"}] /\ draft' \in [Run -> BOOLEAN]
          BY DEF TypeOK, Stage
    <2>4. TypeOK'
          BY <2>1, <2>2, <2>3 DEF TypeOK
    <2> QED BY <2>2, <2>4 DEF Counted
  <1>2. Single' /\ Behind'
    <2>1. CASE Goto(p, "settle")
          BY <2>1, Bounds DEF TypeOK, Safe, Single, Behind, Quiet, InStages, After, Pushed, Open
    <2>2. CASE Goto(p, "idle")
          BY <2>2, Bounds DEF TypeOK, Safe, Single, Behind, Quiet, InStages, After, Pushed, Open
    <2> QED BY <2>1, <2>2
  <1>3. MergedIsGreen' /\ Landed' /\ Offered'
        BY Bounds DEF TypeOK, Safe, Single, Behind, MergedIsGreen, Landed, Offered, Quiet, InStages, After, Pushed, Open
  <1>4. Uncrossed' /\ OneSurface'
    <2>1. \A q \in Run : InStages(q)' => InStages(q)
          BY DEF TypeOK, InStages
    <2>2. alone' = alone /\ crossed' = crossed /\ (InUse' => InUse) /\ (arm' # None => arm # None)
          BY DEF InUse, LeftBehind
    <2>3. arming' = arming /\ entering' = entering
          OBVIOUS
    <2> QED BY <2>1, <2>2, <2>3 DEF TypeOK, Safe, Uncrossed, OneSurface, InStages
  <1> QED BY <1>1, <1>2, <1>3, <1>4 DEF Safe

LEMMA SettleKeeps ==
  ASSUME IInv, NEW p \in Run, Settle(p)
  PROVE  IInv'
  <1> USE DEF IInv, Settle, HasMerged, Passes, Goto, files, work, github, calls
  <1>1. TypeOK' /\ Counted'
    <2>1. alone' = alone /\ Version' = Version
          BY DEF Version
    <2>2. TypeOK'
          BY <2>1 DEF TypeOK, Stage, Open
    <2> QED BY <2>1, <2>2 DEF Counted
  <1>2. Single' /\ Behind'
        BY Bounds DEF TypeOK, Safe, Single, Behind, Quiet, InStages, After, Pushed, Open
  <1>3. MergedIsGreen' /\ Landed' /\ Offered'
        BY Bounds DEF TypeOK, Safe, Single, Behind, MergedIsGreen, Landed, Offered, Quiet, InStages, After, Pushed, Open
  <1>4. Uncrossed' /\ OneSurface'
        BY Bounds DEF TypeOK, Safe, Uncrossed, OneSurface, InUse, LeftBehind, Quiet, InStages, Stage
  <1> QED BY <1>1, <1>2, <1>3, <1>4 DEF Safe

LEMMA SettleOpenKeeps ==
  ASSUME IInv, NEW p \in Run, SettleOpen(p)
  PROVE  IInv'
  <1> USE DEF IInv, SettleOpen, Ends, Goto, files, work, github, calls
  <1>1. TypeOK' /\ Counted'
    <2>1. alone' = alone /\ Version' = Version
          BY DEF Version
    <2>2. TypeOK'
          BY <2>1 DEF TypeOK, Stage, Open
    <2> QED BY <2>1, <2>2 DEF Counted
  <1>2. Single' /\ Behind'
        BY Bounds DEF TypeOK, Safe, Single, Behind, Quiet, InStages, After, Pushed, Open
  <1>3. MergedIsGreen' /\ Landed' /\ Offered'
        BY Bounds DEF TypeOK, Safe, Single, Behind, MergedIsGreen, Landed, Offered, Quiet, InStages, After, Pushed, Open
  <1>4. Uncrossed' /\ OneSurface'
        BY Bounds DEF TypeOK, Safe, Uncrossed, OneSurface, InUse, LeftBehind, Quiet, InStages, Stage
  <1> QED BY <1>1, <1>2, <1>3, <1>4 DEF Safe

LEMMA TidyKeeps ==
  ASSUME IInv, NEW p \in Run, Tidy(p)
  PROVE  IInv'
  <1> USE DEF IInv, Tidy, Goto, files, work, github, calls
  <1>1. TypeOK' /\ Counted'
    <2>1. alone' = alone /\ Version' = Version
          BY DEF Version
    <2>2. /\ tree' \in Version /\ head' \in Version /\ remote' \in Version
          /\ head' <= tree' /\ remote' <= head'
          BY Versions DEF TypeOK
    <2>3. TypeOK'
          BY <2>1, <2>2 DEF TypeOK, Stage, Open
    <2> QED BY <2>1, <2>3 DEF Counted
  <1>2. Single' /\ Behind'
        BY Bounds DEF TypeOK, Safe, Single, Behind, Quiet, InStages, After, Pushed, Open
  <1>3. MergedIsGreen' /\ Landed' /\ Offered'
        BY Bounds DEF TypeOK, Safe, Single, Behind, MergedIsGreen, Landed, Offered, Quiet, InStages, After, Pushed, Open
  <1>4. Uncrossed' /\ OneSurface'
        BY Bounds DEF TypeOK, Safe, Uncrossed, OneSurface, InUse, LeftBehind, Quiet, InStages, Stage
  <1> QED BY <1>1, <1>2, <1>3, <1>4 DEF Safe

LEMMA LeaveKeeps ==
  ASSUME IInv, NEW p \in Run, Leave(p)
  PROVE  IInv'
  <1> USE DEF IInv, Leave, Ends, Goto, files, work, github, calls
  <1>1. TypeOK' /\ Counted'
    <2>1. alone' = alone /\ Version' = Version
          BY DEF Version
    <2>2. TypeOK'
          BY <2>1 DEF TypeOK, Stage, Open
    <2> QED BY <2>1, <2>2 DEF Counted
  <1>2. Single' /\ Behind'
        BY Bounds DEF TypeOK, Safe, Single, Behind, Quiet, InStages, After, Pushed, Open
  <1>3. MergedIsGreen' /\ Landed' /\ Offered'
        BY Bounds DEF TypeOK, Safe, Single, Behind, MergedIsGreen, Landed, Offered, Quiet, InStages, After, Pushed, Open
  <1>4. Uncrossed' /\ OneSurface'
    <2>1. \A q \in Run : InStages(q)' => InStages(q)
          BY DEF TypeOK, InStages
    <2>2. alone' = alone /\ crossed' = crossed /\ (InUse' => InUse) /\ (arm' # None => arm # None)
          BY DEF InUse, LeftBehind
    <2>3. arming' = arming /\ entering' = entering
          OBVIOUS
    <2> QED BY <2>1, <2>2, <2>3 DEF TypeOK, Safe, Uncrossed, OneSurface, InStages
  <1> QED BY <1>1, <1>2, <1>3, <1>4 DEF Safe

LEMMA EditKeeps ==
  ASSUME IInv, Edit
  PROVE  IInv'
  <1> USE DEF IInv, Edit, Goto, files, work, github, calls
  <1>1. TypeOK' /\ Counted'
    <2>1. /\ left' \in [edits : Nat, arms : Nat, skills : Nat, crashes : Nat]
          /\ left'.edits = left.edits - 1
          BY DEF TypeOK
    <2>2. tree \in Nat /\ left.edits \in Nat
          BY Bounds DEF TypeOK
    <2>3. tree + 1 \in Version
          BY <2>2, Bounds DEF Counted
    <2>4. head' <= tree'
      <3>1. head <= tree /\ head \in Nat
            BY Versions DEF TypeOK
      <3> QED BY <2>2, <3>1
    <2>5. Counted'
          BY <2>1, <2>2 DEF Counted
    <2>6. alone' = alone /\ Version' = Version
          BY DEF Version
    <2>7. TypeOK'
          BY <2>1, <2>3, <2>4, <2>6 DEF TypeOK
    <2> QED BY <2>5, <2>7
  <1>2. Single' /\ Behind'
        BY Bounds DEF TypeOK, Safe, Single, Behind, Quiet, InStages, After, Pushed, Open
  <1>3. MergedIsGreen' /\ Landed' /\ Offered'
        BY Bounds DEF TypeOK, Safe, Single, Behind, MergedIsGreen, Landed, Offered, Quiet, InStages, After, Pushed, Open
  <1>4. Uncrossed' /\ OneSurface'
        BY Bounds DEF TypeOK, Safe, Uncrossed, OneSurface, InUse, LeftBehind, Quiet, InStages, Stage
  <1> QED BY <1>1, <1>2, <1>3, <1>4 DEF Safe

LEMMA EditPrivateKeeps ==
  ASSUME IInv, EditPrivate
  PROVE  IInv'
  <1> USE DEF IInv, EditPrivate, Goto, files, work, github, calls
  <1>1. TypeOK' /\ Counted'
    <2>1. /\ left' \in [edits : Nat, arms : Nat, skills : Nat, crashes : Nat]
          /\ left'.edits = left.edits - 1
          BY DEF TypeOK
    <2>2. tree \in Nat /\ left.edits \in Nat
          BY Bounds DEF TypeOK
    <2>3. Counted'
          BY <2>1, <2>2, Bounds DEF Counted
    <2>4. alone' = alone /\ Version' = Version
          BY DEF Version
    <2>5. TypeOK'
          BY <2>1, <2>4 DEF TypeOK
    <2> QED BY <2>3, <2>5
  <1>2. Single' /\ Behind'
        BY Bounds DEF TypeOK, Safe, Single, Behind, Quiet, InStages, After, Pushed, Open
  <1>3. MergedIsGreen' /\ Landed' /\ Offered'
        BY Bounds DEF TypeOK, Safe, Single, Behind, MergedIsGreen, Landed, Offered, Quiet, InStages, After, Pushed, Open
  <1>4. Uncrossed' /\ OneSurface'
        BY Bounds DEF TypeOK, Safe, Uncrossed, OneSurface, InUse, LeftBehind, Quiet, InStages, Stage
  <1> QED BY <1>1, <1>2, <1>3, <1>4 DEF Safe

LEMMA CommitByHandKeeps ==
  ASSUME IInv, CommitByHand
  PROVE  IInv'
  <1> USE DEF IInv, CommitByHand, Goto, files, work, github, calls
  <1>1. TypeOK' /\ Counted'
    <2>1. alone' = alone /\ Version' = Version
          BY DEF Version
    <2>2. /\ tree' \in Version /\ head' \in Version /\ remote' \in Version
          /\ head' <= tree' /\ remote' <= head'
          BY Versions DEF TypeOK
    <2>3. TypeOK'
          BY <2>1, <2>2 DEF TypeOK, Stage, Open
    <2> QED BY <2>1, <2>3 DEF Counted
  <1>2. Single' /\ Behind'
        BY Bounds DEF TypeOK, Safe, Single, Behind, Quiet, InStages, After, Pushed, Open
  <1>3. MergedIsGreen' /\ Landed' /\ Offered'
        BY Bounds DEF TypeOK, Safe, Single, Behind, MergedIsGreen, Landed, Offered, Quiet, InStages, After, Pushed, Open
  <1>4. Uncrossed' /\ OneSurface'
        BY Bounds DEF TypeOK, Safe, Uncrossed, OneSurface, InUse, LeftBehind, Quiet, InStages, Stage
  <1> QED BY <1>1, <1>2, <1>3, <1>4 DEF Safe

LEMMA PushByHandKeeps ==
  ASSUME IInv, PushByHand
  PROVE  IInv'
  <1> USE DEF IInv, PushByHand, Goto, files, work, github, calls
  <1>1. TypeOK' /\ Counted'
    <2>1. alone' = alone /\ Version' = Version
          BY DEF Version
    <2>2. /\ tree' \in Version /\ head' \in Version /\ remote' \in Version
          /\ head' <= tree' /\ remote' <= head'
          BY Versions DEF TypeOK
    <2>3. TypeOK'
          BY <2>1, <2>2 DEF TypeOK, Stage, Open
    <2> QED BY <2>1, <2>3 DEF Counted
  <1>2. Single' /\ Behind'
        BY Bounds DEF TypeOK, Safe, Single, Behind, Quiet, InStages, After, Pushed, Open
  <1>3. MergedIsGreen' /\ Landed' /\ Offered'
        BY Bounds DEF TypeOK, Safe, Single, Behind, MergedIsGreen, Landed, Offered, Quiet, InStages, After, Pushed, Open
  <1>4. Uncrossed' /\ OneSurface'
        BY Bounds DEF TypeOK, Safe, Uncrossed, OneSurface, InUse, LeftBehind, Quiet, InStages, Stage
  <1> QED BY <1>1, <1>2, <1>3, <1>4 DEF Safe

LEMMA ReportedKeeps ==
  ASSUME IInv, Reported
  PROVE  IInv'
  <1> USE DEF IInv, Reported, Goto, files, work, github, calls
  <1>1. TypeOK' /\ Counted'
    <2>1. alone' = alone /\ Version' = Version
          BY DEF Version
    <2>2. TypeOK'
          BY <2>1 DEF TypeOK, Stage, Open
    <2> QED BY <2>1, <2>2 DEF Counted
  <1>2. Single' /\ Behind'
        BY Bounds DEF TypeOK, Safe, Single, Behind, Quiet, InStages, After, Pushed, Open
  <1>3. MergedIsGreen' /\ Landed' /\ Offered'
        BY Bounds DEF TypeOK, Safe, Single, Behind, MergedIsGreen, Landed, Offered, Quiet, InStages, After, Pushed, Open
  <1>4. Uncrossed' /\ OneSurface'
        BY Bounds DEF TypeOK, Safe, Uncrossed, OneSurface, InUse, LeftBehind, Quiet, InStages, Stage
  <1> QED BY <1>1, <1>2, <1>3, <1>4 DEF Safe

LEMMA CrashKeeps ==
  ASSUME IInv, NEW p \in Run, Crash(p)
  PROVE  IInv'
  <1> USE DEF IInv, Crash, Preserved, Ends, Goto, files, work, github, calls
  <1>1. TypeOK' /\ Counted'
    <2>1. /\ left' \in [edits : Nat, arms : Nat, skills : Nat, crashes : Nat]
          /\ left'.edits = left.edits
          BY DEF TypeOK
    <2>2. private' \in {"none", "untracked", "tracked", "stranded"}
          BY DEF TypeOK
    <2>3. pc' \in [Run -> Stage \cup {"idle"}] /\ draft' \in [Run -> BOOLEAN]
          BY DEF TypeOK
    <2>4. alone' = alone /\ Version' = Version
          BY DEF Version
    <2>5. TypeOK'
          BY <2>1, <2>2, <2>3, <2>4 DEF TypeOK
    <2>6. Counted'
          BY <2>1 DEF Counted
    <2> QED BY <2>5, <2>6
  <1>2. Single' /\ Behind'
        BY Bounds DEF TypeOK, Safe, Single, Behind, Quiet, InStages, After, Pushed, Open
  <1>3. MergedIsGreen' /\ Landed' /\ Offered'
        BY Bounds DEF TypeOK, Safe, Single, Behind, MergedIsGreen, Landed, Offered, Quiet, InStages, After, Pushed, Open
  <1>4. Uncrossed' /\ OneSurface'
        BY Bounds DEF TypeOK, Safe, Uncrossed, OneSurface, InUse, LeftBehind, Quiet, InStages, Stage
  <1> QED BY <1>1, <1>2, <1>3, <1>4 DEF Safe

LEMMA TickKeeps ==
  ASSUME IInv, Tick
  PROVE  IInv'
  <1> USE DEF IInv, Tick, Goto, files, work, github, calls
  <1>1. TypeOK' /\ Counted'
    <2>1. now \in Nat /\ now' \in Time
          BY Bounds DEF TypeOK
    <2>2. ASSUME arm # None PROVE arm.expires <= now' + Ttl
      <3>1. arm \in [expires : 1..MaxTime + Ttl, draft : BOOLEAN] /\ arm.expires <= now + Ttl
            BY <2>2 DEF TypeOK
      <3>2. arm.expires \in Nat
            BY <3>1, Bounds
      <3> QED BY <2>1, <3>1, <3>2, Bounds
    <2> QED BY <2>1, <2>2 DEF TypeOK, Counted, Version
  <1>2. Single' /\ Behind'
        BY Bounds DEF TypeOK, Safe, Single, Behind, Quiet, InStages, After, Pushed, Open
  <1>3. MergedIsGreen' /\ Landed' /\ Offered'
        BY Bounds DEF TypeOK, Safe, Single, Behind, MergedIsGreen, Landed, Offered, Quiet, InStages, After, Pushed, Open
  <1>4. Uncrossed' /\ OneSurface'
    <2>1. InUse' => InUse
      <3>1. now \in Nat /\ Stale \in Nat /\ (marker # None => marker \in Nat)
        <4>1. Stale \in Nat
              BY ShipAssumption
        <4>2. now \in 1..MaxTime /\ (marker # None => marker \in 1..MaxTime)
              BY Bounds DEF TypeOK
        <4> QED BY <4>1, <4>2, Bounds
      <3> QED BY <3>1 DEF InUse, LeftBehind
    <2> QED BY <2>1 DEF Safe, Uncrossed, OneSurface, InStages
  <1> QED BY <1>1, <1>2, <1>3, <1>4 DEF Safe

LEMMA StutterKeeps ==
  ASSUME IInv, UNCHANGED vars
  PROVE  IInv'
  BY DEF IInv, vars, files, work, github, calls, TypeOK, Counted, Safe, Single, Behind, MergedIsGreen,
         Landed, Offered, Uncrossed, OneSurface, InUse, LeftBehind, Version, InStages

LEMMA StepKeeps == IInv /\ [Next]_vars => IInv'
  <1> SUFFICES ASSUME IInv, [Next]_vars PROVE IInv'
      OBVIOUS
  <1>1. CASE \/ ArmChecks \/ ArmClears \/ ArmWrites \/ Disarm
             \/ EnterChecks \/ EnterWrites \/ ExitShipPr \/ GivesUp
        BY <1>1, ArmChecksKeeps, ArmClearsKeeps, ArmWritesKeeps, DisarmKeeps, EnterChecksKeeps,
           EnterWritesKeeps, ExitShipPrKeeps, GivesUpKeeps
  <1>2. ASSUME NEW p \in Run, Stop(p) \/ Crash(p) PROVE IInv'
        BY <1>2, StopEndsKeeps, StopStartsKeeps, CrashKeeps DEF Stop
  <1>3. ASSUME NEW p \in Run, Stages(p) PROVE IInv'
        BY <1>3, FailsKeeps, CommitKeeps, CommitFailsKeeps, PushKeeps, PullRequestKeeps, ChecksKeeps, ReviewKeeps,
           MergeKeeps, SettleKeeps, SettleOpenKeeps, TidyKeeps, LeaveKeeps DEF Stages
  <1>4. CASE Edit \/ EditPrivate \/ CommitByHand \/ PushByHand \/ Reported \/ Tick
        BY <1>4, EditKeeps, EditPrivateKeeps, CommitByHandKeeps, PushByHandKeeps, ReportedKeeps, TickKeeps
  <1> QED BY <1>1, <1>2, <1>3, <1>4, StutterKeeps DEF Next
-----------------------------------------------------------------------------
\* Every reachable state satisfies the inductive invariant.
THEOREM Inductive == Spec => []IInv
  BY InitHolds, StepKeeps, PTL DEF Spec

\* The files, the branch and the pull request are of their types; the branch
\* is never ahead of the tree, nor the remote of the branch, and an arm never
\* outlives its time to live.
THEOREM TypeCorrect == Spec => []TypeOK
  BY Inductive, PTL DEF IInv

\* Where nobody else works in the checkout while a run does, only versions
\* that passed their checks reach main.
THEOREM MergedStaysGreen == Spec => []MergedIsGreen
  BY Inductive, PTL DEF IInv, Safe

\* A branch is left, and its worktree removed, only when main has all of the work
\* that a commit takes in; the private file goes with the worktree only where it
\* was tracked or the helper had been given it and left it behind.
THEOREM NoWorkLost == Spec => []WorkKept
  <1>1. IInv => WorkKept
    <2> SUFFICES ASSUME IInv, alone, place # "branch"
                 PROVE  /\ tree \in merged /\ head <= tree /\ tree <= tree
                        /\ place = "gone" => private # "untracked"
        BY DEF WorkKept
    <2>1. tree \in Version /\ head <= tree
          BY DEF IInv, TypeOK
    <2>2. tree <= tree
          BY <2>1, Bounds
    <2> QED BY <2>1, <2>2 DEF IInv, Safe, Landed, Offered
  <1> QED BY Inductive, <1>1, PTL

\* The check and the write of the two surfaces are apart; unless two calls cross
\* in between, a marker in use excludes an arm and a run.
THEOREM SurfacesExclude == Spec => []OneSurface
  BY Inductive, PTL DEF IInv, Safe
=============================================================================
