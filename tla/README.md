# TLA+ models of BidMate-DocAgent

This directory is a verification project for the program in `src/`. It models the parts of the
system whose correctness depends on order, interleaving, failure or memory, model-checks them with
TLC, and proves the safety of all of them with TLAPS. `PROJECT.json` gives, for every definition,
the source lines it stands for; this file says how the pieces fit.

Two systems live in the repository, and they share almost no code:

* **the agent fleet**: several terminal windows (one worktree and branch each, driven by Claude Code
  or by Codex) work on one repository. `scripts/fleet_coordination.py` keeps them off each other's
  files; `scripts/agent_loop.py` runs a queue of tasks through agents on a thread pool, records
  their verdicts and gates on them; `scripts/claude-hooks/stop-ship.sh` takes an armed branch to a
  merged pull request;
* **the RAG pipeline**: questions about Korean requests for proposals, answered from indexed chunks
  under a deterministic verifier, with a conversation memory (`rag_core.py` and its neighbours).

Contents: [1 inventory](#1-inventory), [2 modules and code](#2-modules-and-the-code-they-model),
[3 runs](#3-runs-what-is-checked-and-what-it-shows), [4 fairness](#4-fairness-and-deadlock),
[5 proofs](#5-what-is-proved), [6 disagreements](#6-where-the-code-disagrees-with-what-it-says),
[7 abstractions](#7-abstractions-and-what-is-left-out), [8 plan](#8-plan).

## 1 Inventory

| component | state | operations | hard behaviour | correct when |
| --- | --- | --- | --- | --- |
| Fleet reservations, `fleet_coordination.py` | `reservations.json`, its lock file | `reserve`, `heartbeat`, `release` | processes race for one file; the clock is read before the lock; death inside the lock; damaged file; filesystems without flock; directory/file overlap | no two live grants overlap, no grant is lost, every call ends |
| Cross-family review, same file | `reviews.json`, its lock file | `review` | minutes of model time between the clock reading and the locked write | one verdict per window, the one that was filed last |
| Status monitor, same file | none (reads both files) | `status [--check]` | reads twice without a lock | not modelled: it changes nothing |
| Auto-loop ledger, `agent_loop.py` `LedgerState` | completed, deferred, streak, blockers; `auto_loop_state.json` | record completed / deferred / blocker, checkpoint, load | threads share it, one lock per operation; crash between memory and file | completions are durable and never taken back, lists disjoint |
| Auto-loop driver and pool, `write_active_auto_loop` | target, iteration, in-flight futures, `stop_event`, verdict | claim, submit, wait, drain, decide; a cycle per task | overrun, lost stop, exceptions escaping `result()`, cancelled futures, restarts | the target is not overrun, no task redone, aborts reported, a run ends |
| Task worktrees, same file | a worktree per cycle | create, confine, mirror, tear down | each may fail, the last one after success | folded into the cycle |
| Global limiter and runner sessions, same file | a counting semaphore; the children of a runner call | acquire / release around spawns, two phases, budget reader, `finally` | permits held by one phase and given back by another; failures between them; children that outlive the call | no permit leaked or given back twice, no child left running, every cycle ends |
| Active leases, same file | `leases.json` | claim, refresh, recover, borrow for an agent, give back, scope guard | reuse by id, recovery blocks, expiry while a lane holds the lease, lanes read without the lock | live claims are disjoint, a lane keeps its lease, a patch stays in its task's files |
| Session registry and Conservative Gate, same file | `session_registry.json` | heartbeat, dual turn, age and gate, omc reset | whole-file writes without a lock, truncated first; crash in between | a ship runs only on every role's own, fresh, latest pass |
| Auto-ship pipeline, `stop-ship.sh`, `Makefile` | arm file, PID file, ship-pr marker, branch, private files, remote, pull request | arm, disarm, gates, commit, push, pull request, checks, review, merge, clean up | two calls of the hook; arm and marker checked and written in separate steps; private files that no commit takes in; death in any stage; arms that expire or are renewed under a run; work going on meanwhile | nothing red is merged, no work that is committed is deleted unmerged, an arm ends |
| Staging self-ship lane, `agent_loop.py` | none of its own | git and gh commands in a row | | not modelled: one process, straight line |
| RAG query, `rag_core.py` | one request: analysis, attempt, evidence, reasons | analyse, retrieve under the verifier up to three times, answer | the evidence of one attempt is judged, that of another may be used; relaxed last attempt | see the next two |
| Verifier, status, claims, `rag_verifier.py`, `rag_answer.py` | none | `verify_evidence`, `select_supporting_evidence`, `build_claims`, `answer_status` | three functions with three notions of "mentions the topic" | an answer is grounded, covers what was asked and cites it |
| Conversation state, `rag_conversation_state.py`, `rag_query.py`, `rag_clarification.py` | documents, agencies, confidence, last turns | complete a follow-up, ask back, remember | a follow-up depends on what any earlier turn left behind | a follow-up is searched for only with one firm subject |
| ReAct orchestrator, `rag_graph_react.py`, `rag_agent_tools.py` | steps, observations | plan, act, observe, finish | its tools cannot be called (section 7) | not modelled |
| Retrieval, fusion, reranking | index, caches | rank | numeric | abstracted to "any order" |
| Everything else (quota reader, MCP server, embedding and vector stores, ingestion, synthesis, tracing, HTTP and UI, security checks, evaluation, governance hooks) | external or none | pure transformation or I/O | no protocol of their own | not modelled, see section 7 |

How they interact: a window reserves paths before it works and releases them after; the review reads
the reservations to learn which family wrote the change. The auto loop's driver calls the ledger;
its cycles claim a lease, call the runner and the patch lane (children under the limiter's permits,
the lane borrowing the lease), and those turns record heartbeats in the session registry, on which
the gate decides. The Stop hook runs at the end of every reply of a session, independently of the
loop. The board and the status view only read. In the RAG system `run_rag_query` calls the
analysis, the retrieval loop and the answer phase in sequence, once per question; the caller carries
the conversation state from one call to the next, and the HTTP layer, the UIs, the LangGraph graph
and the evaluation harness all enter through it.

`PROJECT.json` lists the hazards of this code, each at its line and with the properties that would
see it go wrong.

## 2 Modules and the code they model

```
FleetClaims  <- ExclusiveClaims            the promise, without file, lock or process
     ^              ^ (refined by)
     +------ FleetReservation  <- MCFleetReservation    <- FleetReservationProofs
FleetReview    <- MCFleetReview                         <- FleetReviewProofs
DurableQueue                               the loop's promise to who resumes it
     ^ (refined by)
LoopLedger     <- AutoLoop       <- MCAutoLoop          <- AutoLoopProofs
RunnerSlots    <- MCRunnerSlots                         <- RunnerSlotsProofs
ActiveLeases   <- MCActiveLeases                        <- ActiveLeasesProofs
GateRegistry   <- MCGateRegistry                        <- GateRegistryProofs
AutoShip       <- MCAutoShip                            <- AutoShipProofs
AnswerContract <- QueryDialogue  <- MCQueryDialogue     <- QueryDialogueProofs
```

Each `...Proofs` module extends the component's own module, not its MC module.

**FleetClaims** holds the data: records, path conflict (equality or ancestry, `Beneath`), strict
expiry (`expires < t`, so a record is live in the second it expires in), and what "disjoint" means.

**FleetReservation** models every CLI call as a process. `Start` reads the clock, because the code
takes `now` before anything else; `Probe` is the flock probe that only `reserve` does; `Enter`,
`Read`, `Commit`, `Leave` are the lock, the strict read, the decision with its atomic replace and the
unlock. The five disjuncts of `Commit` are the outcomes of the three operations. A granted
`reserve` and a heartbeat of an own record always write, a refused `reserve` never does, and a
heartbeat without a record and `release` write only if the result differs from what they read. `Crash`
ends a call anywhere: the temporary file never replaced the store, and the kernel frees the lock. A
write is one step, since the replace is atomic; dying just before and just after it are both
behaviours. `Garble` and `Repair` are damage from outside and the operator who removes the file
(and so gives every grant up). `honest` is chosen at the start and never changes: whether the
checkout's filesystem enforces exclusive flocks. `granted` is a history variable: what the callers
have been told and have not released.

**ExclusiveClaims** is the promise: `Take` grants or renews a record that no other window's live
grant overlaps, `Drop`, `Wipe`, `Tick`. `FleetReservation` instantiates it with `time <- now`,
`claims <- granted`.

**FleetReview** has the same lock protocol with the long unlocked `Run` between the clock reading
and the lock. The family of the author may be any value at that point: it comes from `--runtime` or
from a lockless read of a file that others change, and none refuses the call. Either process may
review any window, so reviews of one window overlap too; the history variable `latest` says which
verdict was filed last for each window.

**LoopLedger** is `LedgerState` and its file. Every method holds the ledger's lock, so each is one
action; `Checkpoint` takes snapshot and write together, as `persist_checkpoint` does. Of the blocker
messages only their existence is kept, since that is all that decides something.

**AutoLoop** is `write_active_auto_loop`. `dpc` is the driver: `top` (loop condition, stop, wall
clock, overrun guard), `claim`, `wait` (first completed future), `unwind` (an exception left the
`with` block), `join` (pool shutdown), `decide` (verdict and final write). `pc[t]` is a task's cycle:
`queued`, `work` (active-start, runner, gates, ship), the two halves of `complete_if_not_stopped`
(`gate`/`apply`, then `mark`), `save`, the repair lane, the blocker with and without messages,
`halt` (stop_event) and `teardown` of the worktree. `Agent` is the part of a cycle that waits for an
agent, `Bookkeeping` all the rest; a command line is `Timed` when it gives an agent's child an end, by
`--timeout-seconds` or by a wall-clock budget of the run. `StartRun` loads the file and derives the target
from it and the command line; `Crash` kills driver and workers at once. `pool` is the size of the
thread pool, chosen from `Pools` at the start: the default is two, and the kill switch or a checkout
away from `origin/main` clamps it to one.

**DurableQueue** is what a run promises whoever resumes it: `Take` (each task once, and only while the
goal leaves room for all in hand), `Complete`, `PutDown` (a task leaves the hand only with its
completion, if it has one, on file), and `Begin`, which forgets all but the file. `AutoLoop` instantiates
it with the completions on file and in memory, the tasks the run has claimed, and those of them whose
cycle is not over (`Unfinished`); `Goal` is the run's target.
The pool, the worktrees, the two halves of a completion and the checkpoint are steps of its own, or
stutters.

**RunnerSlots** is the global limiter and what spawns under it. `free` is the semaphore's value and
`held` says which worker has a permit for which session. A worker's cycle creates its worktree
under a permit (`Create`, `Creating`), plans the sessions of a call (`Plan`), spawns them (`phase1`: a codex
child keeps its permit when the loop goes on to the next session, a claude turn runs and returns
inside its `slot()`), waits for them in order (`phase2`: finished, failed, timed out, or over budget
by the reader thread's doing), and passes the `finally` clause, which drains whoever is still
there, whatever ended the call. Then it concludes and may go through the patch lane, which tries a
second agent once. The children end on their own (`ChildEnds`); a child whose standard input broke
is left to itself by the patch lane (`StrayEnds`).

**ActiveLeases** is `leases.json`, kept in file order since readers take the first match. `Start` and
`Ship` are `claim_disjoint` for a cycle's claim and for the ship's own: `Cleared` (expired and left-over
leases), `Refreshed` (the lease of the same id, used again as it is), `Built` and `Written` are its
parts, and the claim is refused when recovery is needed or, in the pool, when a live lease overlaps.
`Route` chooses the agent; the patch lane is `Acquire` or `AcquireFails`, `Guard` (the write guard's
lockless read), `Judge` (the patch against the lease's files), `Release` and `EndLane`. Nothing removes a
lease when its cycle ends. `Crash` kills the loop, `Tick` moves the clock, `Edit` makes the parent
checkout dirty or clean. `pool` says whether the pool is wider than one.

**GateRegistry** splits every call into reading the file, truncating it (`Truncate`) and writing what
was computed from the copy read (`Fill`), since the code takes no lock and opens with `"w"`. A session's
`Turn` records its verdict, a dual turn a first and then a second; `Heartbeat` reads the file for a
verdict still to be said and `HeartbeatFails` meets a broken one. `Look` is the clock reading and the
gh call that `active-loop` makes before it reads the file; `ActiveLoop` then ages the records and
ships if every gating role has passed (`ActiveLoopFails` meets a broken file), `Shipped` ends that,
`Invalidate` is the reset before an omc run. The file is broken in two ways: `Empty` while a call is
between truncation and write, and for good when it dies there; `Garbled` when two calls have opened
the file and the shorter text is written over the longer one, whose tail stays behind (`Written`). `alone` is chosen at the start: calls one at
a time, as in a pool of one, or overlapping. `spoken` and `last` are history: when each role's own
sessions said that they passed, and what each role said last.

**AutoShip** has the arm, the ship-pr marker, and the hook. Arming looks at the marker (`ArmChecks`),
removes one that was left behind, if it can (`ArmClears`), and writes the arm (`ArmWrites`), and nothing
is locked in between; entering the skill looks at the arm (`EnterChecks`) and writes the marker
(`EnterWrites`); either may write nothing (`GivesUp`). `crossed` is the history of whether one call has
checked while the other was under way. A call of the hook either meets a gate that ends it (`StopEnds`, which by the EXIT trap also removes the PID file)
or starts a run (`StopStarts`), which goes through `Commit`, `Push`, `PullRequest`, `Checks`, `Review`,
`Merge`, `Settle` (the clean-up after a merge), `Tidy` and `Leave`; `CommitFails` is the end of a call
whose gates fail or that finds only private files, `Fails` is `abort_disarm` in any later stage. The
owner edits, commits and pushes by hand, `Reported` is CI, `Crash` leaves all files as they
are. The work is a number that grows with each edit; `tree`, `head`, `remote` and `merged` say which
version is where, and `ci` what the checks say of each. Beside it there is one file under a private
path, which no commit takes in: `Preserved` is what `_ship_private_preserve.py` makes of it before a
commit (moved to safety when it is untracked, a root outside the checkout is configured and the move
succeeds; else it stays, `stranded`; a tracked one is not touched), and `Leave` may remove a linked
worktree by force with whatever it holds. `alone` means that nobody else works in the
checkout, or starts the hook, while a run is under way.

**AnswerContract** is the pure part of the RAG pipeline, operators only: `VerifyEvidence` with its
reasons, `SelectSupporting`, `ClaimSets`, `AnswerStatus`. A chunk is the set of topics it mentions,
literally or in a normalised form, because the verifier looks at both and the choice of evidence at
the first only.

**QueryDialogue** is the conversation: the three `Ask` actions are `_phase_analyze` with its early
returns (ask back because memory is unclear, ask back because the match is ambiguous, go on),
`Retrieve` is one attempt of `_phase_retrieve_loop` with its stage filter, cut, balance (each target of
a comparison keeps a place, or, with fewer places than targets, each place is another target's) and
verdict,
`Reply` is `_phase_build_answer` with the update of the conversation state, `Forget` is a caller who
sends none.

Operators whose comment starts with "Mutant:" are plausible wrong versions of the definition after
them. No specification uses them; `PROJECT.json` pairs each with the property that must fail when it
replaces the right one.

## 3 Runs: what is checked and what it shows

| run | instance | properties |
| --- | --- | --- |
| `FleetReservation` | two processes, either may act for either of two windows; a directory, a file in it, a sibling; TTL 1; clock to 2; flock enforced or not | `TypeOK`, `StoreDisjoint`, `GrantsKept`, `GrantsExclusive`, `KeepsPromise` |
| `FleetReservationLive` | one process per window, two claims, fair | `EveryCallEnds`, `BeatForward` |
| `FleetReview` | two processes, either may review either of two windows | `TypeOK`, `OneVerdict`, `LastVerdict` |
| `AutoLoop` | three tasks, four command lines; a pool of two for two runs, a pool of one for three | `TypeOK`, `NoOverrun`, `AbortIsBlocked`, `StreakCountsTasks`, `CleanFinish`, `NoRework`, `ServesQueue`, `RunEnds` |
| `AutoLoopMirror` | two tasks, pool of two, one open-ended run | `CompletedNotDeferred` fails |
| `RunnerSlots` | two workers, three permits, calls of two sessions, two cycles | `TypeOK`, `PermitsConserved`, `NothingLeftBehind`, `ChildrenHavePermits`, `CycleEnds` |
| `ActiveLeases` | two workers, three tasks (one file, that file and another, shared files only), TTL 1, clock to 3, three cycles, one crash; pool wider than one or not | `TypeOK`, `ClaimsDisjoint`, `HolderKeepsLease`, `ProposedInScope`, `BorrowedIsReturned` |
| `ActiveLeasesScope` | one worker, two tasks | `ScopeAlwaysOwn` fails |
| `GateRegistry` | two gating roles and the loop, TTL 1, clock to 3, one crash; four turns and three calls one at a time, or two and two overlapping | `TypeOK`, `ShipsOnFreshPasses`, `LatestVerdictGates` |
| `AutoShip` | two processes of the hook, TTL 1, marker stale at 2, clock to 4; alone: two edits, each of the work or of the private file, two arms, one skill, one crash; overlapping: one edit, arm and skill, no crash | `TypeOK`, `MergedIsGreen`, `WorkKept`, `OneSurface`, `ArmEnds` |
| `AutoShipOneRun` | the overlapping half of the above | `OneRun` fails |
| `QueryDialogue` | three documents of two agencies, a third agency without any, four chunks, 44 questions, four settings, two questions in a row | `TypeOK`, `GroundedInOneDocument`, `CoveredComparison`, `FollowUpHasOneSubject` |

The larger ones visit between half a million and eight million distinct states.

*Reservations.* The run lets two calls overlap in every way, with stale clocks on both sides of an
expiry, a death at any step and damage at any moment. Two processes are enough for a read-modify-
write race, and since either may act for either window the two may also race for the same one. Three
paths give all three answers of the conflict test. The clock reaches 2 with TTL 1, so that a grant
made at 0 is live at 1, when it expires, and over at 2; a call started at 0 can commit at 2. The
section on proofs removes these bounds. `BeatForward` is checked, and proved, only with one process per window:
if two processes heartbeat the same window, the later writer may carry the earlier clock, which is
harmless. `KeepsPromise` is the refinement.

*Review.* Reviews overlap in every way, of different windows and of the same, each with a death at any
step, and damage to the file at any moment. `OneVerdict` and `LastVerdict` say that the record of a
window is exactly the verdict filed last, so that neither a lost update of another window nor a stale
copy of the same one goes unseen. Filed last is all that the code promises: of two overlapping reviews
of one window the last to write may be the one that looked first (section 6).

*Auto loop.* Three tasks and a pool of two let two cycles interleave while the driver decides about
the third; targets 1 and 2 are below and at the pool size; a streak limit of 2 is reached by two
blockers and can be interrupted by a completion; a later run starts from whatever file the earlier,
crashed or not, left. `AttemptCap` 3 lets a bounded run use up its attempts. Of the command lines, the dry run for a named
task has no timeout, and `RunEnds` claims nothing for it. `StreakCountsTasks` and
`CleanFinish` speak of a pool of one: on a wider pool a clean finish may hide a claimed task
(section 6), and a sibling may reset the streak of a wider pool. `ServesQueue` is the refinement.

*Runner slots.* Three permits for two workers that each hold up to two: both may hold one and wait,
one may hold two while the other waits, and nobody waits for ever, since M > X(b - 1) for X workers
with calls of b codex sessions. With fewer permits the hold-and-wait of phase 1 does hang (section
6): this instance has none of those circles, and what it shows is that the rest of the protocol does
not hang. Pairs are the live sessions of a stage, codex before claude and the other way round, so a claude
turn happens both under and before a waiting codex child. The two cycles are shared by the workers,
which lets one worker start a second call while the other is still in its first.

*Active leases.* The file starts empty and a pool keeps its width, so leases that a run on a pool of
one has left for a run on a wider pool are not covered. The first two tasks work on a common file, so that their claims overlap; the third
claims no file of its own, so that it may run beside either, and what the lease properties say of
the tasks that claim files can be told from what they say of all (section 6).
Leases made at 1 expire at 2 and are over at 3, while a lane may hold them; three cycles are enough for a claim, a lane that outlives the lease, and a third claim that
clears, re-labels or refuses. The checkout changes between clean and dirty at any time, which decides
between `expired` and `recovery-needed`. `ProposedInScope` is about lanes of a pool whose lease is
still live.

*Gate registry.* Two roles are the fewest for which one session's write can carry the other's old
record back. Overlapping calls may lose a record, and may leave a file that is no JSON for good, with no crash;
after that nothing ships until it is removed, which the run does not do. Still a ship needs every
role's own fresh pass; where calls do not overlap it needs the latest verdict. Four turns let both
roles pass and both change their mind, three calls let an ageing, an omc reset and a ship happen
around them. The two roles are interchangeable, and the run checks safety only, so symmetry is sound.

*Auto-ship.* Two versions of the work make "merged, but not this" expressible, and an edit spent on the
private file leaves one for the work; two arms let one arm
be renewed under a run or after a half-finished merge; the one crash may hit any stage, the commit
with the private file moved or not. With TTL 1 an
arm may end before its run does. `OneSurface` holds in either mode of all histories in which the calls
of the two surfaces have not crossed; those in which they have are in the model, and there arm and
marker may lie side by side (section 6). `WorkKept` is about the work that commits take in, and about
the private file only as far as the code goes: the last form of an untracked one has been given to the
helper before the worktree goes. `WorkKept` and `MergedIsGreen` are claimed only where nobody else
works in the checkout while a run does; with an owner at work the merge takes whatever head the
branch has by then (section 6).

*Dialogue.* Two questions are enough for the second to lean on what the first left. Stage sequences
of length one, two and three all occur, as do the partial match in the last attempt, the empty
filter that falls back to the whole index, the comparison with an agency the index does not know,
and questions completed from memory and from the caller's context. Cuts of 2 and then 3 out of four
chunks leave something out in every attempt.

## 4 Fairness and deadlock

* *Reservations:* weak fairness of a process's own steps is the operating system's scheduler; strong
  fairness of `Enter` is the wake-up of a blocked `flock` (the lock comes free again and again).
  Calls are not forced to start, nobody is forced to crash, and the clock need not move.
* *Auto loop:* weak fairness of the driver and of a cycle's own bookkeeping; of the part that waits
  for an agent only where the run is `Timed`. The default of `--timeout-seconds` is 0, which means no limit
  (`agent_loop.py:11448`, 11716-11734, `wait(timeout=timeout_seconds or None)` at 16678), so by default an
  agent that hangs keeps its run from ending; a wall-clock budget of the run makes its remainder the
  limit. `RunEnds` is claimed for timed runs only, and an agent of an untimed run may take for ever in the
  model. Three assumptions remain, on the surroundings: a cycle that waits for a permit gets one
  (`acquire()` at 16613 has no timeout; `RunnerSlots` is about that), git, gh and make, which are called
  without a timeout, end, and the environment does not lift the limit on a claude turn (11238-11250). No
  fairness on `StartRun` or `Crash`, so runs need not start.
* *Runner slots:* weak fairness of each worker's steps and of the end of each child. That a child ends
  (`ChildEnds`) is an assumption on the surroundings, as with no timeout nothing in the code sees to it. A waiting
  `acquire()` needs no more: the queue holds finitely many tasks, so the other workers run out of
  cycles, and a permit that is free stays free. `StartCycle` is not forced.
* *Auto-ship:* time passes, the hook runs at the end of every reply (some process calls `Stop`), and
  no stage waits for ever (`gh pr checks --watch` is bounded by the script, git and gh end). Owner, calls of the two surfaces,
  CI and skill are not forced to do anything.

Deadlock is checked for the fleet runs. It is not for the others, which may stop for good: runs,
cycles, turns, edits and arms are budgets that are used up, a conversation may end, and a removed
worktree has no hook any more. `RunEnds`, `CycleEnds` and `ArmEnds` show that what is in progress does
not hang.

## 5 What is proved

Every theorem holds for all values of the constants, under the named assumption of its module, which
states types, what the command line enforces, and what any input has: an index holds finitely many
documents and chunks, a loop has a task to run, a process has time to run in. TLC evaluates the
assumption in the module's run. Some theorems have a further premise, and their runs have it too: no
window is served by two processes (`OneProcessPerWindow` for `BeatsMoveForward`), and there are more permits than the workers can hold while each waits for one
more (`EnoughPermits` for `NobodyWaitsInACircle`). The lease theorems have theirs (`ClaimsFiles`) in the
property.

| module | theorems | property |
| --- | --- | --- |
| `FleetReservationProofs` | `Inductive`, `TypeCorrect`, `StoreStaysDisjoint`, `NoGrantIsLost`, `FirstWriterWins`, `Refines`, `BeatsMoveForward` | `IInv`, `TypeOK`, `StoreDisjoint`, `GrantsKept`, `GrantsExclusive`, `KeepsPromise`, `BeatForward` |
| `FleetReviewProofs` | `TypeCorrect`, `OneVerdictHolds`, `LastVerdictHolds` | `TypeOK`, `OneVerdict`, `LastVerdict` |
| `AutoLoopProofs` | `TypeCorrect`, `TargetIsNotOverrun`, `AbortsAreBlocked`, `StreakIsTasks`, `CleanIsClean`, `NothingIsRedone`, `ServesAsQueue`, `CompletionsAreDurable` | `TypeOK`, `NoOverrun`, `AbortIsBlocked`, `StreakCountsTasks`, `CleanFinish`, `NoRework`, `ServesQueue`, and as its consequence `DurableCompletion` |
| `RunnerSlotsProofs` | `TypeCorrect`, `NoPermitLeaks`, `ChildrenArePaid`, `CallsCleanUp`, `NobodyWaitsInACircle` | `TypeOK`, `PermitsConserved`, `ChildrenHavePermits`, `NothingLeftBehind`, no circle of waits |
| `GateRegistryProofs` | `TypeCorrect`, `PassesBelong`, `ShipsAreFresh`, `LatestGates` | `TypeOK`, own passes, `ShipsOnFreshPasses`, `LatestVerdictGates` |
| `AutoShipProofs` | `TypeCorrect`, `MergedStaysGreen`, `NoWorkLost`, `SurfacesExclude` | `TypeOK`, `MergedIsGreen`, `WorkKept`, `OneSurface` |
| `ActiveLeasesProofs` | `TypeCorrect`, `LeasesAreDisjoint`, `HoldersKeepLeases`, `ProposalsStayInScope`, `LeasesAreReturned` | `TypeOK`, `ClaimsDisjoint`, `HolderKeepsLease`, `ProposedInScope`, `BorrowedIsReturned` |
| `QueryDialogueProofs` | `TypeCorrect`, `AnswersAreGrounded`, `ComparisonsAreCovered`, `FollowUpsAreResolved` | `TypeOK`, `GroundedInOneDocument`, `CoveredComparison`, `FollowUpHasOneSubject` |

The argument of each:

* **Reservations.** None of the three safety properties is inductive. `GrantsKept` alone does not say
  that a call about to write has read all live grants: `SeenInv` does, and it needs `LockInv` (nobody
  commits between another's read and write) and `ClockInv` (a call's clock is not ahead of the wall
  clock, so its prune drops nothing that is live: lemma `EarlyClockPrunesLess`). Without enforced
  flocks `LockInv` excludes nobody; `NoFlockInv` then shows why the store is safe all the same: the
  probe kept every reserve out, so heartbeat and release find nothing to lose. `StoreDisjoint` of what
  was read gives disjointness of what is written (`ReplaceDisjoint`), and `OwnIsUnique` makes a
  heartbeat's renewal the renewal of one record. `GrantingFacts` says what either granting step does
  to store and history, and carries both `GrantsExclusive` and the refinement step `Take`: nobody
  else's live grant overlaps the new one. Every other step drops a grant, wipes all of them, ticks,
  or stutters.
* **Review.** The same lock argument. `Covers` is both properties in one, of any set of records: the
  verdict filed last for each window is there, and nothing else of that window. It holds of the store
  (`FileInv`), hence of the copy read under the lock (`SeenInv`, with `LockInv`: nobody files anything
  between that read and the write), and replacing one window's record keeps it, since each call's
  verdict names its own window (`JobInv`, `LatestInv`). There is no premise: any number of processes may
  review the same window.
* **Auto loop.** `Flight` ties the driver's futures to the cycles that run and the tasks that were
  claimed; `DiskBehind` says that the file never holds more than the memory it was written from, so
  a resume cannot bring back or forget what was counted; `Reports` carries an abort from the cycle to
  the verdict; `Room` bounds completions by what the target leaves, counting what is in flight
  (`Potential`), which is what `NoOverrun` needs on any pool; `Serial` is for a pool of one: one cycle
  at a time, and every claimed task is accounted for.
  `ServesAsQueue` goes step by step. A claim is a `Take`, whose room is `NearTarget` read with `Room`;
  `Mark` is a `Complete`; the other steps of a cycle, the drain that cancels what was not started, and the
  final write are `PutDown`s of one task, of some or of none; waiting and joining are stutters;
  `StartRun` and `Crash` are `Begin`. The step that needs an invariant is `PutDown`, for it must not let
  go of a completion that is in memory only: `Saved` says that a completion not on file belongs to a
  cycle that is at `save`, and the way out of `save` is the checkpoint. That the file never loses a
  completion (`CompletionsAreDurable`) then follows from the queue alone.
* **Runner slots.** `Permits` says that free and held add up to M, and `Inner` says at each label
  exactly which permits and which children a worker may have (`HoldsAt`, `KidsAt`): a child is alive
  only under a permit, and between calls there are neither. `NobodyWaitsInACircle` counts: a worker that
  waits for the k-th permit of its call holds at most k - 1, so that X waiting workers hold at most
  X(b - 1) permits, fewer than M, and if none is free somebody else holds one. This is the safety half
  of `CycleEnds`, whose other half, that whoever holds a permit and does not wait gives it back, is
  fairness. The premise is sharp: with M = 2 for two workers and pairs TLC finds the circle.
* **Gate registry.** `TypeCorrect` also says when the file can be broken: empty only while somebody
  writes it or after a crash, garbled only where calls overlap. `Fresh`: every pass in the file, and in every copy that will be written, was
  spoken by that role's own session, whoever wrote it and however writes overlapped. `Latest`: where
  one call goes at a time, file and copy say what was said last, or less.
* **Auto-ship.** `Counted` bounds the versions by the budget; `Safe` says that where nobody else works
  there is a single run, that past the checks the pushed version is green and still the head
  (`Behind`), that past the merge main has all of the tree (`Landed`), and that past the commit the
  private file is not an untracked one that the helper has not been given (`Offered`). `Uncrossed` is
  for `OneSurface`: where no two calls have crossed, one surface at a time is between its check and its
  write, and what it has checked still holds, whatever the clock, the hook and the owner do meanwhile.

* **Active leases.** A claim drops some leases, labels others anew and keeps the order of the rest;
  the model numbers the positions that stay by `Rank`, and `RankFacts` (ranks run through 1, 2, ...
  without a gap, since they are one to one) gives that every lease written comes from one read
  (`Stems`), and none twice. On that rest `ClaimFacts` and `ClaimSpares`: what a claim by one cycle does
  to the file, and why it leaves the lease of another's lane alone. `WellMade` says that a lease
  keeps its claim and loses its label only once it is over; `ClaimsStand` that the lease a cycle
  claimed stays active until then; `Scoped` that a proposed patch lies in its task's files at every
  stage of a lane; `Returnable` that the lease a lane will give back, which is the first match in the
  file, is the one it holds. That needs `ClaimsDisjoint` (`OneLiveLease`: a task that claims files has
  one live lease), so the properties can only be proved together, and it is where the proof
  fails for tasks that claim none (section 6).
* **Dialogue.** `Judged` and `Replied` tie answer, evidence and reasons to one attempt: the verdict on
  file is the verdict on what was found last, and the answer is made of both. What that verdict
  means is then a matter of operators alone: `BestDocument` (the count the verifier compares is
  reached by one document, and one it may look at), `AcceptedMeans` (what acceptance without a
  blocking reason says), `FirstIsChosen` (a compared agency with a literal match is in the selected
  evidence). `StagesAreFew` bounds the attempts. `OneSubject` carries `FollowUpHasOneSubject`: a memory
  that is clear enough, and not ambiguous in the index, leaves one agency and at most one document.
* **Heartbeats.** `BeatsMoveForward` is an action property, so its proof is about steps: where a window
  has one process, its record carries a clock reading of the call before, and the clock of the call
  under way was read later (`BeatInv`).

Only model-checked: the liveness properties `EveryCallEnds`, `RunEnds`, `CycleEnds` and `ArmEnds`
(liveness under fairness, and ENABLED, are beyond the prover). Every safety and action property of
the passing runs is proved. Three things made that possible where lists are filtered or ranked: the
models speak of positions and ranks instead of filtered sequences, least and greatest elements come
from the well-foundedness of < on the numbers, and none of the facts needed is an induction over
data, whose theorems the prover cannot instantiate. No module uses RECURSIVE operators.

## 6 Where the code disagrees with what it says

Each line is a run that finds the property violated; `PROJECT.json` quotes the text and the code.

1. `AutoLoopMirror` / `CompletedNotDeferred`: a completed task whose artifacts cannot be mirrored is
   put on the deferred list, for good; later open-ended runs can no longer finish clean.
2. `ActiveLeasesScope` / `ScopeAlwaysOwn`: on a pool of one the patch lane borrows the first live
   lease of the file, which may be an earlier task's, and its patch is held against that task's
   files.
3. `AutoShipOneRun` / `OneRun`: a call of the hook that a gate ends removes the PID file of the run
   under way, and the next call starts a second run beside it.

Also met while modelling, and left without a run because the texts are looser, the effect smaller, or
the property is stated for the other mode:

* *Fleet.* Of two overlapping reviews of one window the one that ends last is kept, although it may
  have started, and looked, first (`fleet_coordination.py:1257` against the comment at 1253-1254).
* *Auto loop.* With the default timeout of 0, which means unlimited, an agent that hangs keeps its run
  from ending, as ADR 0085 intends; a wall-clock budget, of an infinite run, gives it an end
  (`agent_loop.py:11716-11734`). On a pool wider than one any sibling's completion between two blockers
  resets the streak, also of a task that was claimed before either. The drain after an emptied queue cancels a task that was claimed and not yet started,
  and reports a clean finish (`agent_loop.py:12609-12616` against 12624-12627). A cycle that has
  passed the test of `stop_event` may still complete after a sibling's blocker.
* *Runner and limiter.* `acquire()` has no timeout and a call holds its permits while it waits for
  more, so with M <= X(b - 1) all workers may wait for each other
  (`docs/plans/xyz-parallelism-stack.md:289-291` asks for
  a bounded acquire timeout against this). A patch-lane child whose
  standard input breaks is neither stopped nor waited for (17304).
* *Leases.* When the lease of a lane expires and is cleared under it, the lane's patch is held
  against nothing (17361). A task that claims shared files only may have two live leases: an
  older one of its own, already labelled `expired`, is labelled `recovery-needed` by a sibling's claim
  when the checkout has become dirty (18139-18153), and the overlap check, which looks at claimed
  files, has nothing to object. Its lane then finds the older one first (18020-18024), and borrows and
  gives back that one. This came out of the proof of `HolderKeepsLease` and `BorrowedIsReturned`, which are
  stated for tasks that claim files (`ClaimsFiles`); TLC finds both violated without that premise.
* *Gate.* A dual turn's second, looser heartbeat replaces the first lane's block until the aggregate
  is written (14248 against the comment at 14233-14235). Where calls overlap, a block may be lost
  altogether, and two writes of different length (10181, 10585, 16172) may leave a file that is no
  JSON for good: each later call then fails, or ships nothing, until somebody removes it. The gate evidence does not age the records it reads (19146-19257 against ADR 0099:22),
  and a pass does not name the task it was given for (17580).
* *Auto-ship.* Two calls that cross, one of `make ship-arm` and one of the ship-pr skill, may both find
  the other surface free (`_ship_arm.py:175` and 116) and then both write (213-216 and 124), since nothing
  is locked in between; arm and fresh marker then lie side by side, against "Two ship surfaces are
  mutually exclusive" (78-79). TLC finds it with `crossed` left out of `OneSurface`: `ArmChecks`,
  `EnterChecks`, `ArmWrites`, `EnterWrites`. A stale marker that cannot be unlinked does not keep the arm
  from being written either (84-95). A private file that git tracks and that was changed is not committed
  and not moved ("stay in place for the operator to handle", `_ship_private_preserve.py:9-12`), and an
  untracked one stays where no root outside the checkout is configured or the move fails; in a linked
  worktree the end of the cycle deletes both (`stop-ship.sh:501`). `make ship-disarm` does not stop a run that is under way, though its comment in the
  `Makefile` promises an immediate kill. A clean tree skips the prefix, lock and test gates together
  with the commit. A malformed arm is not taken away (`auto-ship.md:136` against `stop-ship.sh:67`). A
  branch that was committed and never pushed has no upstream and counts as nothing to ship. The merge
  asks for no particular head, so a push between checks and merge goes in unchecked. After a crash or
  an unreadable state between the merge and the removal of the arm, one arm may ship twice
  (`auto-ship.md:123-125`). An arm renewed during a run is removed by that run's end, and
  `git worktree remove --force` drops edits made after the last commit.
* *RAG.* A comparison completed from the conversation becomes a `follow_up` and loses the coverage
  checks (`rag_core.py:844` against `docs/agentic/answer-policy.md:9`). The evidence kept may be chunks
  of other documents than the one that made the verifier accept (`rag_answer.py:614` against
  `rag_verifier.py:128-130`). A comparison may be supported without a claim when its topics are found
  in normalised form only (`rag_answer.py:599`). An insufficient comparison may carry claims and
  evidence (`answer-policy.md:11` gives it none). The stage sequence makes up to three attempts where
  the docs speak of one retry; a comparison that misses coverage is `partial` even when its top score
  is too low; an agency the index does not know is remembered as the subject; turn numbers repeat
  after the twelfth.

## 7 Abstractions, and what is left out

*Fleet.* Display fields of a record (issue, runtime, status, start time) are dropped. Path
normalisation and the privacy allow-list are input checks without state. Time is a natural number,
TTLs are not negative (a negative one makes a grant that is already over, which the prune treats like
any expired one). Reviews with another coupling than `adversarial` decline and leave no trace.

*Auto loop.* Any fresh task may be selected where the code takes the first of the queue; cycle
records, artifacts and messages are payload; the opt-in lane-autotune controller is omitted (it
raises or lowers the effort of an agent's turns, never how a cycle may end); two checkpoints with
nothing in between are one; the state file is always readable, since its writes are atomic replaces;
one loop runs at a time on a checkout.

*Runner slots.* What a session says is payload; that it ends well, badly, late or over budget is not.
A runner call's sessions are one of the given batches. A worker waits for a permit at its own step,
in no particular order, as Python's semaphore promises none.

*Active leases.* Claim, acquire and release are one step each, since the code holds the file's flock
around them (`FleetReservation` models such a lock in full); the lanes' lockless reads are steps of
their own. Context files, shared by design, are left out of the claims; the worktree of a lease is
always the checkout; patch runs started by hand are not modelled.

*Gate registry.* The lane records in an entry are payload. `active-loop` reads the clock and asks gh in one
step, `Look`, and the registry in the next. Of overlapping fills only the outcome is kept: the text
written last, or no JSON. The required roles, which the topology
gives, are a parameter. What else may block a ship may do so at any time.

*Auto-ship.* All gates of a call are one step that starts it or ends it, and taking the lock belongs
to that step. There is one branch, with versions that only grow, and one file under a private path;
files that git ignores, which the helper never sees and a removed worktree takes along, and directories
that `git status` collapses to one entry are left out. The commit stage is one step: the private file
is moved or not, and the tests of a diff (ownership, prefix, tests) pass or fail; a death in it may
come before the move or after. Arming and entering the skill are a check, the removal of a stale
marker, and a write; one call of each is under way at a time. After another run has left the branch,
only a run's failures are kept. The dry run is left out.

*RAG.* Ranking is any order of the candidates, so that whatever holds, holds for every scorer,
fusion and reranker; text is topics; each document is one project of one agency; confidences are
integers, the least an unambiguous turn leaves (85) and the one an ambiguous turn leaves (65);
`PoolSize` stands for the number of chunks kept, which an aggregate query raises. The `RuntimeError`
for more than three stages is left out: `TypeOK` shows it cannot be raised. The turn history, the
clarification texts and candidates and the optional LLM rewriting of the summary decide nothing that
is modelled.

*Not modelled.*

* The status monitor reads two files and prints; nothing is decided on it and it keeps no state.
* The staging self-ship lane is one process that runs git and gh commands in a row, and shares no file
  with the hook's pipeline.
* The ReAct orchestrator: its two working tools pass parameters that the functions they call do not
  have (`rag_agent_tools.py:229`, against `rag_retrieval.py:379` and `rag_verifier.py:178`). The `TypeError` is
  caught as an observation, so every request abstains, and there is no behaviour to check until that
  is repaired.
* Prompts, artifacts and the application of patches with git; embeddings, stores, scoring and
  ingestion (numeric or batch, one process); synthesis, tracing and logs (external or output); the
  HTTP and UI layers and the MCP wrapper (thin); security and data-boundary checks (pure functions of
  text and paths); the quota reader (a pure function of external readings); evaluation, boards and
  governance hooks (offline). These are most of the repository's lines.

## 8 Plan

Done, in this order: `FleetReservation` with its promise and proofs, `FleetReview`, `LoopLedger` with
`AutoLoop`, `AnswerContract` with `QueryDialogue`; then `RunnerSlots`, `ActiveLeases`, `GateRegistry` and
`AutoShip`; the proofs of review, loop, slots, gate and ship, then those of leases, dialogue and
heartbeats, the loop's promise (`DurableQueue`) with its refinement, and the absence of a circle of waits.

What is left, in order of worth:

1. The loop as a whole: `LoopLedger`, `RunnerSlots` and `ActiveLeases` composed for one task, with the
   permits, the lease and the ledger's lock held together; property: no cycle waits for a permit
   while its lease runs out and another task is given its files.
2. Turn history and clarification replies, extending `QueryDialogue`: numbering and the cut to twelve;
   a reply to a clarification resolves to one of its candidates.
3. The status monitor as a reader over `FleetReservation`: `--check` never passes a store that was
   unreadable throughout.
4. The staging lane, one action per command, each of which may fail.
5. ReAct, once its tools can be called: a request ends within the step budget with an answer of the
   contract of `AnswerContract`.
