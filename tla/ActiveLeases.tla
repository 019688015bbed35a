---------------------------- MODULE ActiveLeases ----------------------------
(***************************************************************************)
(* leases.json of scripts/agent_loop.py: the write leases that task cycles  *)
(* claim (claim_disjoint), that their patch lanes borrow for one agent and  *)
(* give back (acquire_active_agent, release_active_agent), and that bound   *)
(* what a lane may propose.  Nothing removes a lease when its cycle ends:   *)
(* it expires, and the next claim clears or re-labels it.  Every operation  *)
(* is one critical section under the sidecar flock (FleetReservation models *)
(* that lock); the lanes read the file without it.                          *)
(***************************************************************************)
EXTENDS Naturals, FiniteSets, Sequences

CONSTANTS
  Worker,    \* threads of the task pool
  Task,
  File,      \* files that are not shared by design (_is_context_only_path)
  Claim,     \* Claim[t]: the files of this kind task t works on
  Scope,     \* Scope[t]: the branch and issue its cycles run for
  Modes,     \* pool sizes of the runs: wider than one (TRUE), or one (FALSE)
  Ttl,       \* --lease-ttl-minutes
  MaxTime,   \* bound on the clock
  Cycles,    \* bound on the cycles
  Crashes    \* bound on the crashes

ASSUME LeasesAssumption ==
  /\ Task # {} /\ Claim \in [Task -> SUBSET File]
  /\ DOMAIN Scope = Task
  /\ Modes \subseteq BOOLEAN
  /\ {Ttl, MaxTime} \subseteq Nat \ {0}
  /\ {Cycles, Crashes} \subseteq Nat

VARIABLES
  leases,    \* leases.json, in file order
  now,       \* the wall clock
  dirty,     \* the parent checkout has uncommitted changes
  pool,      \* the pool is wider than one: overlaps are refused, lanes know their lease
  left,      \* cycles still to be started
  crashes,   \* crashes so far
  pc,        \* where each worker's cycle is
  cyc        \* the cycle's locals

clock == <<now, dirty>>
run == <<pool, left, crashes>>
vars == <<leases, clock, run, pc, cyc>>

Agent == {"claude", "codex"}
Free == "free"
Status == {"active", "recovery-needed", "expired"}
Lease == [task : Task, files : SUBSET File, status : Status,
          agent : Agent \cup {Free}, expires : Nat]
InLane == {"guard", "edit", "release"}
Label == InLane \cup {"idle", "claimed", "borrow", "judged"}

\* A cycle: its task, whether its claim met a blocker, when the lease its claim
\* found or made expires (0 if it has none); of its patch lane the agent,
\* whether it is the fall-back, and the files and the verdict of its patch.
CycleLocals ==
  [task : Task, blocked : BOOLEAN, until : 0..MaxTime + Ttl, agent : Agent,
   retried : BOOLEAN, diff : SUBSET File,
   verdict : {"error", "empty", "proposed", "blocked"}]

TypeOK ==
  /\ leases \in Seq(Lease)
  /\ now \in 1..MaxTime /\ left \in 0..Cycles /\ crashes \in 0..Crashes
  /\ {dirty, pool} \subseteq BOOLEAN
  /\ pc \in [Worker -> Label]
  /\ cyc \in [Worker -> CycleLocals]
  \* One worker at a time unless the pool is wider, and no task in two cycles.
  /\ \A v, w \in Worker : v # w /\ pc[v] # "idle" /\ pc[w] # "idle" =>
       pool /\ cyc[v].task # cyc[w].task

NoCycle ==
  [task |-> CHOOSE t \in Task : TRUE, blocked |-> FALSE, until |-> 0, agent |-> "codex",
   retried |-> FALSE, diff |-> {}, verdict |-> "error"]

Idle == [w \in Worker |-> "idle"]

Init ==
  /\ leases = <<>>
  /\ now = 1 /\ dirty \in BOOLEAN
  /\ pool \in Modes
  /\ left = Cycles
  /\ crashes = 0
  /\ pc = Idle
  /\ cyc = [w \in Worker |-> NoCycle]
-----------------------------------------------------------------------------
(* claim_disjoint *)

Live(l) == l.status \in {"active", "recovery-needed"}
Expired(l) == l.expires < now
Related(l, t) == l.task = t \/ Scope[l.task] = Scope[t]

\* Mutant: a lease that has not expired is cleared, too.
ClearedEarly(l, t) == Related(l, t) /\ Live(l)

\* Expired leases of the claim's own branch, issue or task are dropped when
\* nobody has borrowed them, and those left for recovery also when another
\* task's agent has.
Cleared(l, t) ==
  /\ Expired(l)
  /\ Related(l, t)
  /\ \/ Live(l) /\ l.agent = Free
     \/ l.status = "recovery-needed" /\ l.task # t

\* Mutant: the state of the checkout is written down as the status.
RefreshedState(l) ==
  IF Expired(l) THEN [l EXCEPT !.status = IF dirty THEN "dirty-worktree" ELSE "clean"] ELSE l

\* _refresh_active_lease: any other expired lease is labelled by the state of
\* the checkout, whatever its label was.
Refreshed(l) ==
  IF Expired(l) THEN [l EXCEPT !.status = IF dirty THEN "recovery-needed" ELSE "expired"] ELSE l

Rank(S, i) == Cardinality({j \in S : j <= i})

\* The leases that stay, in file order.
Kept(t) ==
  LET stay == {i \in DOMAIN leases : ~Cleared(leases[i], t)}
      Nth(n) == CHOOSE i \in stay : Rank(stay, i) = n
  IN  [n \in 1..Cardinality(stay) |-> Refreshed(leases[Nth(n)])]

NewLease(t) ==
  [task |-> t, files |-> Claim[t], status |-> "active", agent |-> Free, expires |-> now + Ttl]

NeedsRecovery(s) == \E i \in DOMAIN s : s[i].status = "recovery-needed"
HasOwn(s, t) == \E i \in DOMAIN s : s[i].task = t /\ s[i].status = "active"

\* An active lease of the claim's own id is taken over as it is.
Built(t) ==
  LET kept == Kept(t) IN
  IF NeedsRecovery(kept) \/ HasOwn(kept, t) THEN kept ELSE Append(kept, NewLease(t))

\* Mutant: leases left for recovery no longer count.
OverlapActiveOnly(s) ==
  \E i, j \in DOMAIN s : i # j /\ s[i].status = "active" /\ s[j].status = "active"
                         /\ s[i].files \cap s[j].files # {}

\* assert_claimed_files_disjoint
Overlap(s) ==
  \E i, j \in DOMAIN s : i # j /\ Live(s[i]) /\ Live(s[j]) /\ s[i].files \cap s[j].files # {}

OwnExpiry(s, t) ==
  LET own == {i \in DOMAIN s : s[i].task = t /\ s[i].status = "active"} IN
  IF own = {} THEN 0 ELSE s[CHOOSE i \in own : TRUE].expires

\* A pool refuses an overlap and leaves the file as it was; a single loop
\* writes it and reports it.
Written(t) == IF pool /\ Overlap(Built(t)) THEN leases ELSE Built(t)

Goto(w, label) == pc' = [pc EXCEPT ![w] = label]
End(w) == Goto(w, "idle") /\ cyc' = [cyc EXCEPT ![w] = NoCycle]

\* The start of a cycle: write_active_start, its active-loop and its claim.
Start(w, t) ==
  /\ pc[w] = "idle"
  /\ left > 0
  /\ \A v \in Worker \ {w} : pc[v] # "idle" => pool /\ cyc[v].task # t
  /\ left' = left - 1
  /\ leases' = Written(t)
  /\ cyc' = [cyc EXCEPT ![w] =
       [NoCycle EXCEPT !.task = t,
                       !.blocked = Overlap(Built(t)) \/ NeedsRecovery(Built(t)),
                       !.until = OwnExpiry(Written(t), t)]]
  /\ Goto(w, "claimed")
  /\ UNCHANGED <<clock, pool, crashes>>

\* The read lanes have run, or the start was blocked; then the cycle ends or
\* goes to the patch lane.  write_agent = "auto" may choose either agent.
Route(w) ==
  /\ pc[w] = "claimed"
  /\ \/ End(w)
     \/ Goto(w, "borrow") /\ \E g \in Agent : cyc' = [cyc EXCEPT ![w].agent = g]
  /\ UNCHANGED <<leases, clock, run>>

\* Or it ships, which claims once more.
Ship(w) ==
  /\ pc[w] = "claimed"
  /\ ~cyc[w].blocked
  /\ leases' = Written(cyc[w].task)
  /\ End(w)
  /\ UNCHANGED <<clock, run>>
-----------------------------------------------------------------------------
(* The patch lane *)

\* Mutant: a lane of the pool takes the first lease, as a single loop does.
MineFirst(w) == {i \in DOMAIN leases : Live(leases[i])}

\* _find_active_write_lease: of the cycle's own id in the pool, else any.
Mine(w) == {i \in DOMAIN leases : Live(leases[i]) /\ (pool => leases[i].task = cyc[w].task)}

First(S) == CHOOSE i \in S : \A j \in S : i <= j
Found(w) == leases[First(Mine(w))]
Available(w) == Mine(w) # {} /\ Found(w).agent \in {Free, cyc[w].agent}

\* acquire_active_agent: again by the same agent is fine.
Acquire(w) ==
  /\ pc[w] = "borrow"
  /\ Available(w)
  /\ leases' = [leases EXCEPT ![First(Mine(w))].agent = cyc[w].agent]
  /\ Goto(w, "guard")
  /\ UNCHANGED <<clock, run, cyc>>

\* A lane that did not complete ends the cycle, or is tried once more by the
\* other agent.
LaneOver(w) ==
  \/ End(w)
  \/ /\ ~cyc[w].retried
     /\ Goto(w, "borrow")
     /\ cyc' = [cyc EXCEPT ![w].retried = TRUE, ![w].diff = {}, ![w].verdict = "error",
                           ![w].agent = CHOOSE g \in Agent : g # cyc[w].agent]

\* No lease to borrow, or the other agent holds it.
AcquireFails(w) ==
  /\ pc[w] = "borrow"
  /\ ~Available(w)
  /\ LaneOver(w)
  /\ UNCHANGED <<leases, clock, run>>

\* Mutant: a failed guard leaves before the lane's finally clause.
GuardReturns(w) ==
  /\ pc[w] = "guard"
  /\ \/ LaneOver(w)
     \/ ~Overlap(leases) /\ Goto(w, "edit") /\ UNCHANGED cyc
  /\ UNCHANGED <<leases, clock, run>>

\* The scratch worktree is made and confined, and the claims are compared
\* again as they are by now.
Guard(w) ==
  /\ pc[w] = "guard"
  /\ \/ Goto(w, "release")
     \/ ~Overlap(leases) /\ Goto(w, "edit")
  /\ UNCHANGED <<leases, clock, run, cyc>>

\* The claimed files that the finished patch is held against: none when the
\* lease is not found any more.
ClaimedNow(w) == IF Mine(w) = {} THEN {} ELSE Found(w).files

\* A claim without files, or with context files only, leaves the scope open.
Judgement(w, files) ==
  IF files = {} THEN "empty"
  ELSE IF ClaimedNow(w) # {} /\ ~ files \subseteq ClaimedNow(w) THEN "blocked"
  ELSE "proposed"

\* The agent ends without a patch, or its diff is judged against the lease.
Judge(w) ==
  /\ pc[w] = "edit"
  /\ Goto(w, "release")
  /\ \/ UNCHANGED cyc
     \/ \E files \in SUBSET File :
          cyc' = [cyc EXCEPT ![w].diff = files, ![w].verdict = Judgement(w, files)]
  /\ UNCHANGED <<leases, clock, run>>

\* release_active_agent frees the lease if this agent holds it.
Release(w) ==
  /\ pc[w] = "release"
  /\ leases' = IF Mine(w) # {} /\ Found(w).agent = cyc[w].agent
               THEN [leases EXCEPT ![First(Mine(w))].agent = Free] ELSE leases
  /\ Goto(w, "judged")
  /\ UNCHANGED <<clock, run, cyc>>

\* A proposed or empty patch completes the lane and ends the cycle.
EndLane(w) ==
  /\ pc[w] = "judged"
  /\ IF cyc[w].verdict \in {"proposed", "empty"} THEN End(w) ELSE LaneOver(w)
  /\ UNCHANGED <<leases, clock, run>>
-----------------------------------------------------------------------------
(* The surroundings *)

\* The loop dies with all its threads; the file stays as it is.
Crash ==
  /\ crashes < Crashes
  /\ pc # Idle
  /\ crashes' = crashes + 1
  /\ pc' = Idle
  /\ cyc' = [w \in Worker |-> NoCycle]
  /\ UNCHANGED <<leases, clock, pool, left>>

Tick ==
  /\ now < MaxTime
  /\ now' = now + 1
  /\ UNCHANGED <<leases, dirty, run, pc, cyc>>

\* Somebody edits or commits in the parent checkout.
Edit ==
  /\ dirty' = ~dirty
  /\ UNCHANGED <<leases, now, run, pc, cyc>>

Step(w) ==
  \/ \E t \in Task : Start(w, t)
  \/ Route(w) \/ Ship(w)
  \/ Acquire(w) \/ AcquireFails(w) \/ Guard(w) \/ Judge(w) \/ Release(w) \/ EndLane(w)

Next == (\E w \in Worker : Step(w)) \/ Crash \/ Tick \/ Edit

Spec == Init /\ [][Next]_vars
-----------------------------------------------------------------------------
(* Properties *)

\* First writer wins: in the pool the file never holds two live leases that
\* claim one file, through claims, expiry, recovery and crashes.
ClaimsDisjoint ==
  pool => \A i, j \in DOMAIN leases :
    i # j /\ "expired" \notin {leases[i].status, leases[j].status}
      => leases[i].files \cap leases[j].files = {}

\* The overlap check tells the tasks apart that claim files of this kind; two
\* leases of another task may be live at once (README, section 6).
ClaimsFiles(t) == Claim[t] # {}

\* A lane at work in the pool keeps its lease until it expires: no sibling's
\* claim drops it, re-labels it or lets another agent have it.
HolderKeepsLease ==
  pool => \A w \in Worker :
    ClaimsFiles(cyc[w].task) /\ pc[w] \in InLane /\ now <= cyc[w].until =>
      \E i \in DOMAIN leases :
        /\ leases[i].task = cyc[w].task /\ leases[i].status = "active"
        /\ leases[i].agent = cyc[w].agent

\* "claimed_files scope guard: the write lane must stay within the lease's
\* declared files": what is proposed under a lease that has not expired
\* touches only files that were claimed for the cycle's own task.
InOwnScope(w) ==
  pc[w] \in {"release", "judged"} /\ cyc[w].verdict = "proposed" /\ now <= cyc[w].until
    => Claim[cyc[w].task] = {} \/ cyc[w].diff \subseteq Claim[cyc[w].task]

ProposedInScope == pool => \A w \in Worker : InOwnScope(w)

\* What a lane borrows it gives back: short of a crash, an unexpired lease is
\* held by a lane that is at work for that agent.
BorrowedIsReturned ==
  crashes = 0 =>
    \A i \in DOMAIN leases :
      leases[i].agent # Free /\ ~Expired(leases[i]) /\ (pool => ClaimsFiles(leases[i].task)) =>
        \E w \in Worker : pc[w] \in InLane /\ cyc[w].agent = leases[i].agent
                          /\ (pool => cyc[w].task = leases[i].task)

\* The scope guard holds for the lanes of a single loop as well.
ScopeAlwaysOwn == \A w \in Worker : InOwnScope(w)
=============================================================================
