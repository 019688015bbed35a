------------------------------ MODULE AutoShip ------------------------------
(***************************************************************************)
(* The auto-ship pipeline: scripts/claude-hooks/stop-ship.sh, a Stop hook   *)
(* that takes the armed branch from a dirty tree to a merged pull request,  *)
(* the arm file that `make ship-arm` writes, and the marker by which the    *)
(* ship-pr skill keeps it away.  The work is one branch's, its contents     *)
(* numbered by version: each version holds the earlier ones; beside them is  *)
(* a file under one of the private paths, which no commit takes in.         *)
(***************************************************************************)
EXTENDS Naturals, FiniteSets

CONSTANTS
  Run,        \* the processes of the hook
  None,       \* no such file
  Modes,      \* TRUE: nobody else works in the checkout while a run does
  Ttl,        \* the life of an arm
  Stale,      \* the age at which a ship-pr marker counts as left behind
  MaxTime,    \* bound on the clock
  Budget      \* Budget[mode]: bounds on the edits of the work, the arms,
              \* the workflows of the skill and the crashes

ASSUME ShipAssumption ==
  /\ None \notin Run
  /\ Modes \subseteq BOOLEAN
  /\ {Ttl, Stale, MaxTime} \subseteq Nat \ {0}
  /\ Budget \in [Modes -> [edits : Nat, arms : Nat, skills : Nat, crashes : Nat]]

VARIABLES
  now,       \* the wall clock
  alone,     \* the mode of this system
  arm,       \* .claude/.ship-armed
  marker,    \* .claude/.ship-pr-active: the time it was written
  pid,       \* .claude/.ship-running.pid
  place,     \* what is checked out, "gone" when the worktree has been removed
  tree,      \* the version in the working tree
  head,      \* the version committed on the branch
  private,   \* the private file: "stranded" when the helper has left it behind
  remote,    \* the version pushed (0: there is no remote branch, no upstream)
  pr,        \* the state of the branch's pull request
  ci,        \* what the checks say of each version
  merged,    \* the versions that were merged to main
  pc,        \* the stage of each run
  draft,     \* the draft mode a run has read from the arm
  left,      \* what is left of the budget
  arming,    \* the call of make ship-arm under way, between its check and its write
  entering,  \* the call of --enter-ship-pr under way
  crossed    \* history: one of them has checked while the other was under way

files == <<arm, marker, pid>>
work == <<place, tree, head, private>>
github == <<remote, pr, ci, merged>>
calls == <<arming, entering, crossed>>
vars == <<now, alone, files, work, github, pc, draft, left, calls>>

Time == 1..MaxTime
Version == 0..Budget[alone].edits
Stage == {"commit", "push", "pr", "ci", "review", "merge", "settle", "tidy", "leave"}
Open == {"draft", "ready"}

TypeOK ==
  /\ now \in Time /\ alone \in Modes
  /\ arm \in [expires : 1..MaxTime + Ttl, draft : BOOLEAN] \cup {None}
  /\ arm # None => arm.expires <= now + Ttl
  /\ marker \in Time \cup {None}
  /\ pid \in Run \cup {None}
  /\ place \in {"branch", "main", "gone"}
  /\ private \in {"none", "untracked", "tracked", "stranded"}
  /\ {tree, head, remote} \subseteq Version /\ head <= tree /\ remote <= head
  /\ pr \in {"none", "merged"} \cup Open
  /\ ci \in [Version -> {"pending", "green", "red"}]
  /\ merged \subseteq Version
  /\ pc \in [Run -> Stage \cup {"idle"}]
  /\ draft \in [Run -> BOOLEAN]
  /\ left \in [edits : Nat, arms : Nat, skills : Nat, crashes : Nat]
  /\ arming \in {"idle", "clear", "write"} /\ entering \in {"idle", "write"}
  /\ crossed \in BOOLEAN

Init ==
  /\ now = 1 /\ alone \in Modes
  /\ arm = None /\ marker = None /\ pid = None
  /\ place = "branch" /\ private = "none"
  /\ tree = 0 /\ head = 0 /\ remote = 0
  /\ pr = "none" /\ ci = [v \in Version |-> "pending"] /\ merged = {}
  /\ pc = [p \in Run |-> "idle"] /\ draft = [p \in Run |-> FALSE]
  /\ left = Budget[alone]
  /\ arming = "idle" /\ entering = "idle" /\ crossed = FALSE

InStages(p) == pc[p] # "idle"
Quiet == alone => ~ \E p \in Run : InStages(p)
Goto(p, stage) == pc' = [pc EXCEPT ![p] = stage]
Ends(p) == Goto(p, "idle") /\ draft' = [draft EXCEPT ![p] = FALSE]
-----------------------------------------------------------------------------
(* Arming and the other surface *)

LeftBehind == marker # None /\ now - marker >= Stale

\* Mutant: arming does not look at the marker of the skill.
FreeAlways == TRUE

\* check_ship_pr_mutex: no marker, or one so old that it counts as left behind.
Free == marker = None \/ LeftBehind

\* Mutant: the life of an arm is rounded up.
ExpiryLate == now + Ttl + 1

Expiry == now + Ttl

\* make ship-arm, also over an earlier arm; make ship-run is this and then Stop.
\* First the marker of the skill is looked at, and nothing is locked.
ArmChecks ==
  /\ Quiet /\ left.arms > 0 /\ place # "gone"
  /\ arming = "idle"
  /\ Free
  /\ arming' = IF LeftBehind THEN "clear" ELSE "write"
  /\ crossed' = (crossed \/ entering # "idle")
  /\ left' = [left EXCEPT !.arms = @ - 1]
  /\ UNCHANGED <<now, alone, files, work, github, pc, draft, entering>>

\* The marker is unlinked, whatever it says by now; where that fails the call goes on.
ArmClears ==
  /\ Quiet /\ arming = "clear"
  /\ arming' = "write"
  /\ marker' \in {None, marker}
  /\ UNCHANGED <<now, alone, arm, pid, work, github, pc, draft, left, entering, crossed>>

\* git is asked for the branch, and then the arm is written.
ArmWrites ==
  /\ Quiet /\ arming = "write"
  /\ Expiry <= MaxTime
  /\ place = "branch"
  /\ arming' = "idle"
  /\ \E d \in BOOLEAN : arm' = [expires |-> Expiry, draft |-> d]
  /\ UNCHANGED <<now, alone, marker, pid, work, github, pc, draft, left, entering, crossed>>

\* make ship-disarm: the files go, a run that is under way does not.
Disarm ==
  /\ Quiet /\ place # "gone"
  /\ {arm, pid} # {None}
  /\ arm' = None /\ pid' = None
  /\ UNCHANGED <<now, alone, marker, work, github, pc, draft, left, calls>>

\* enter_ship_pr: the arm is looked at first, and the marker written after.
EnterChecks ==
  /\ Quiet /\ left.skills > 0 /\ place # "gone"
  /\ entering = "idle"
  /\ arm = None
  /\ entering' = "write"
  /\ crossed' = (crossed \/ arming # "idle")
  /\ left' = [left EXCEPT !.skills = @ - 1]
  /\ UNCHANGED <<now, alone, files, work, github, pc, draft, arming>>

EnterWrites ==
  /\ Quiet /\ entering = "write" /\ place # "gone"
  /\ entering' = "idle"
  /\ marker' = now
  /\ UNCHANGED <<now, alone, arm, pid, work, github, pc, draft, left, arming, crossed>>

\* A call that writes nothing: on main, on a branch of another name, or killed.
GivesUp ==
  /\ \/ arming # "idle" /\ arming' = "idle" /\ UNCHANGED entering
     \/ entering # "idle" /\ entering' = "idle" /\ UNCHANGED arming
  /\ UNCHANGED <<now, alone, files, work, github, pc, draft, left, crossed>>

ExitShipPr ==
  /\ marker # None
  /\ marker' = None
  /\ UNCHANGED <<now, alone, arm, pid, work, github, pc, draft, left, calls>>
-----------------------------------------------------------------------------
(* Gate 0 *)

\* Mutant: an arm has no end.
OverNever == place # "branch"

\* gate_0_not_expired, gate_0_branch_matches: the arm is taken away.
Over == now >= arm.expires \/ place # "branch"

\* git status --porcelain, ignored files left out.
Dirty == tree # head \/ private # "none"

\* gate_0_has_work: without an upstream no commit counts as unpushed.
HasWork == Dirty \/ (remote # 0 /\ head # remote) \/ pr \in Open

\* gate_0_no_live_pid.
Live == pid # None /\ InStages(pid)

\* Any gate may end the call (gate_0_no_git_in_progress whatever the files say),
\* and the EXIT trap then takes the PID file away.
StopEnds(p) ==
  /\ Quiet /\ ~InStages(p) /\ place # "gone"
  /\ pid' = None
  /\ arm' = IF arm # None /\ Over THEN None ELSE arm
  /\ UNCHANGED <<now, alone, marker, work, github, pc, draft, left, calls>>

StopStarts(p) ==
  /\ Quiet /\ ~InStages(p)
  /\ arm # None
  /\ ~Over
  /\ HasWork
  /\ ~Live
  /\ pid' = p
  /\ draft' = [draft EXCEPT ![p] = arm.draft]
  /\ Goto(p, "commit")
  /\ UNCHANGED <<now, alone, arm, marker, work, github, left, calls>>
-----------------------------------------------------------------------------
(* The stages *)

\* abort_disarm, from any stage that can fail: the branch and its pull request
\* stay as they are.
Abort(p) ==
  /\ arm' = None /\ pid' = None
  /\ Ends(p)
  /\ UNCHANGED <<now, alone, marker, left, calls>>

Fails(p) ==
  /\ pc[p] \in {"push", "pr", "ci", "review", "merge"}
  /\ pc[p] = "ci" => ci[remote] # "green"
  /\ Abort(p)
  /\ UNCHANGED <<work, github>>

\* A stage that succeeds.  After the branch was left under a run (by another
\* run) only its failures are kept.
Passes(p, stage, next) ==
  /\ pc[p] = stage /\ place = "branch"
  /\ Goto(p, next)
  /\ UNCHANGED <<now, alone, files, draft, left, calls>>

\* What _ship_private_preserve.py makes of the private file: an untracked one is
\* moved, or stays where no root is configured, the root is this checkout, or the
\* move fails; a tracked one is left alone.
Preserved ==
  IF private \in {"untracked", "stranded"} /\ place # "gone"
  THEN {"none", "stranded"} ELSE {private}

\* The helper goes first, then the ownership, prefix and test gates, then the commit
\* of all but the private file.  A clean tree skips all of them.
Commit(p) ==
  /\ Passes(p, "commit", "push")
  /\ Dirty => tree # head
  /\ private' \in Preserved
  /\ head' = tree
  /\ UNCHANGED <<place, tree, github>>

\* A gate fails, or there is nothing but the private file.
CommitFails(p) ==
  /\ pc[p] = "commit"
  /\ Dirty \/ place # "branch"
  /\ private' \in Preserved
  /\ Abort(p)
  /\ UNCHANGED <<place, tree, head, github>>

Push(p) ==
  /\ Passes(p, "push", "pr")
  /\ remote' = head
  /\ UNCHANGED <<work, pr, ci, merged>>

PullRequest(p) ==
  /\ Passes(p, "pr", "ci")
  /\ pr' = IF pr \in Open THEN pr ELSE IF draft[p] THEN "draft" ELSE "ready"
  /\ UNCHANGED <<work, remote, ci, merged>>

\* Mutant: checks that are still pending after half an hour are let through.
GreenOrLate == ci[remote] # "red"

\* gh pr checks --watch, of what the pull request holds when the watch ends.
Green == ci[remote] = "green"

Checks(p) ==
  /\ Passes(p, "ci", "review")
  /\ Green
  /\ UNCHANGED <<work, github>>

\* Promotion of a draft, and then the review gate, which may still block.
Review(p) ==
  LET promoted == IF pr = "draft" /\ ~draft[p] THEN "ready" ELSE pr IN
  /\ pr \in Open
  /\ pr' = promoted
  /\ UNCHANGED <<work, remote, ci, merged>>
  /\ \/ promoted = "ready" /\ Passes(p, "review", "merge")
     \/ pc[p] = "review" /\ promoted # pr /\ Abort(p)

MergesHead == merged' = merged \cup {remote} /\ pr' = "merged"

\* gh pr merge --squash --admin, which asks for no particular head: done, done
\* although it reports a failure, or accepted and not done yet.
Merge(p) ==
  /\ pr = "ready"
  /\ \/ Passes(p, "merge", "settle") /\ (MergesHead \/ UNCHANGED <<merged, pr>>)
     \/ pc[p] = "merge" /\ MergesHead /\ Abort(p)
  /\ UNCHANGED <<work, remote, ci>>

\* Mutant: the state of the pull request after the merge is not looked at.
HasMergedBlind == TRUE

HasMerged == pr = "merged"

Settle(p) ==
  /\ HasMerged
  /\ Passes(p, "settle", "tidy")
  /\ UNCHANGED <<work, github>>

\* Not merged, or the state could not be read: the arm stays.
SettleOpen(p) ==
  /\ pc[p] = "settle"
  /\ pid' = None
  /\ Ends(p)
  /\ UNCHANGED <<now, alone, arm, marker, work, github, left, calls>>

\* The remote branch goes unless another pull request is based on it; main can
\* be checked out, and then the branch deleted, unless another worktree has it.
Tidy(p) ==
  /\ pc[p] = "tidy"
  /\ Goto(p, "leave")
  /\ remote' \in {remote, 0}
  /\ UNCHANGED place \/ (place = "branch" /\ place' = "main")
  /\ UNCHANGED <<now, alone, files, tree, head, private, pr, ci, merged, draft, left, calls>>

\* The end of a cycle; a linked worktree is removed by force with all it holds.
Leave(p) ==
  /\ pc[p] = "leave"
  /\ Ends(p)
  /\ arm' = None /\ pid' = None
  /\ \/ UNCHANGED <<marker, place>>
     \/ place' = "gone" /\ marker' = None
  /\ UNCHANGED <<now, alone, tree, head, private, github, left, calls>>

Stages(p) ==
  \/ Fails(p) \/ Commit(p) \/ CommitFails(p) \/ Push(p) \/ PullRequest(p) \/ Checks(p)
  \/ Review(p) \/ Merge(p) \/ Settle(p) \/ SettleOpen(p) \/ Tidy(p) \/ Leave(p)
-----------------------------------------------------------------------------
(* The surroundings *)

Edit ==
  /\ Quiet /\ place = "branch" /\ left.edits > 0
  /\ tree' = tree + 1
  /\ left' = [left EXCEPT !.edits = @ - 1]
  /\ UNCHANGED <<now, alone, files, place, head, private, github, pc, draft, calls>>

EditPrivate ==
  /\ Quiet /\ place = "branch" /\ left.edits > 0
  /\ \/ private \in {"none", "stranded"} /\ private' = "untracked"
     \/ private = "none" /\ private' = "tracked"
  /\ left' = [left EXCEPT !.edits = @ - 1]
  /\ UNCHANGED <<now, alone, files, place, tree, head, github, pc, draft, calls>>

CommitByHand ==
  /\ Quiet /\ place = "branch" /\ head < tree
  /\ head' = tree
  /\ UNCHANGED <<now, alone, files, place, tree, private, github, pc, draft, left, calls>>

PushByHand ==
  /\ Quiet /\ place = "branch" /\ remote < head
  /\ remote' = head
  /\ UNCHANGED <<now, alone, files, work, pr, ci, merged, pc, draft, left, calls>>

\* The checks of a version in a pull request come in, once.
Reported ==
  /\ pr \in Open /\ ci[remote] = "pending"
  /\ \E result \in {"green", "red"} : ci' = [ci EXCEPT ![remote] = result]
  /\ UNCHANGED <<now, alone, files, work, remote, pr, merged, pc, draft, left, calls>>

Crash(p) ==
  /\ left.crashes > 0 /\ InStages(p)
  /\ left' = [left EXCEPT !.crashes = @ - 1]
  /\ Ends(p)
  /\ private' \in IF pc[p] = "commit" THEN Preserved \cup {private} ELSE {private}
  /\ UNCHANGED <<now, alone, files, place, tree, head, github, calls>>

Tick ==
  /\ now < MaxTime
  /\ now' = now + 1
  /\ UNCHANGED <<alone, files, work, github, pc, draft, left, calls>>

Stop(p) == StopEnds(p) \/ StopStarts(p)

Next ==
  \/ ArmChecks \/ ArmClears \/ ArmWrites \/ Disarm
  \/ EnterChecks \/ EnterWrites \/ ExitShipPr \/ GivesUp
  \/ \E p \in Run : Stop(p) \/ Stages(p) \/ Crash(p)
  \/ Edit \/ EditPrivate \/ CommitByHand \/ PushByHand \/ Reported \/ Tick

\* The hook runs at the end of every reply, and no stage waits for ever.
Fairness ==
  /\ WF_vars(Tick)
  /\ WF_vars(\E p \in Run : Stop(p))
  /\ \A p \in Run : WF_vars(Stages(p))

Spec == Init /\ [][Next]_vars /\ Fairness
-----------------------------------------------------------------------------
(* Properties *)

\* "The pipeline never merges in a red state": where nobody else pushes while
\* a run is under way, only versions that passed their checks reach main.
MergedIsGreen == alone => \A v \in merged : ci[v] = "green"

\* Where nobody else works in the checkout while a run does, leaving the branch
\* and removing the worktree lose no work but the private file: main has the rest
\* by then, whatever failed, crashed or was left half merged before.  The private
\* file goes with the worktree only where it was tracked, or where the helper had
\* been given it in its last form and left it behind.
WorkKept ==
  alone => /\ place # "branch" => \E v \in merged : v >= head
           /\ place = "gone" => private # "untracked" /\ \E v \in merged : v >= tree

InUse == marker # None /\ ~LeftBehind

\* The two ship surfaces exclude each other, except where a call of one checked
\* while a call of the other was between its check and its write: while a marker
\* of the skill lies there that is not old enough to be left behind, nothing is
\* armed, and no run is in its stages where nobody else works during one.
OneSurface ==
  ~crossed /\ InUse => /\ arm = None
                       /\ alone => ~ \E p \in Run : InStages(p)

\* An arm cleans up after itself: whatever run dies, gives up or finds nothing
\* to do, and in whatever order the calls come, the arm file is gone in the end.
ArmEnds == arm # None ~> arm = None

\* The live PID gate: "the other process owns the cycle", so that no two runs
\* are in the stages at once.
OneRun == \A p, q \in Run : InStages(p) /\ InStages(q) => p = q
=============================================================================
