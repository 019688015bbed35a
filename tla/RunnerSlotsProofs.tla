-------------------------- MODULE RunnerSlotsProofs --------------------------
(***************************************************************************)
(* No permit of the global limiter is leaked or given back twice, and no    *)
(* child of a runner call outlives it, for every number of workers, permits *)
(* and sessions and every mix of agents.                                    *)
(***************************************************************************)
EXTENDS RunnerSlots, FiniteSetTheorems, WellFoundedInduction, TLAPS

Holds(w, k) == <<w, k>> \in held

\* The limiter adds up.
Permits ==
  /\ free \in 0..M
  /\ held \in SUBSET (Worker \X (0..MaxBatch))
  /\ PermitsConserved

Outside == {"idle", "create", "creating", "plan", "patch", "patching", "patchwait"}
Spawning == {"phase1", "turn", "pending"}

\* Who holds what, where: slot 0 around the spawns outside the call; a session's
\* while it runs, or is being spawned and then is the one the loop is at.
HoldsAt(w) ==
  /\ Holds(w, 0) <=> pc[w] \in {"creating", "patching", "patchwait"}
  /\ \A k \in Slot : Holds(w, k) =>
       k \in spawned[w] \/ (k = at[w] /\ pc[w] \in {"turn", "pending", "finally"})
  /\ pc[w] \in Spawning => \A k \in spawned[w] : k < at[w]
  /\ pc[w] \in {"turn", "pending"} => at[w] \in 1..Len(batch[w]) /\ Holds(w, at[w])
  /\ pc[w] \in Outside => spawned[w] = {}
  /\ pc[w] = "conclude" => \A k \in Slot : ~Holds(w, k)

\* A session that holds its permit in the batch is still recorded as running; a
\* child that runs has a permit; the patch lane's runs only while it waits.
KidsAt(w) ==
  /\ \A k \in Slot : Holds(w, k) /\ k \in spawned[w] => status[w][k] = "running"
  /\ \A k \in 0..MaxBatch : child[w][k] = "alive" => Holds(w, k)
  /\ child[w][0] = "alive" => pc[w] = "patchwait"

Inner == \A w \in Worker : HoldsAt(w) /\ KidsAt(w)
IInv == TypeOK /\ Permits /\ Inner
-----------------------------------------------------------------------------
(* The limiter and the choice of the first session *)

LEMMA HeldFinite ==
  ASSUME held \in SUBSET (Worker \X (0..MaxBatch))
  PROVE  IsFiniteSet(held)
  <1>1. IsFiniteSet(0..MaxBatch)
        BY SlotsAssumption, FS_Interval
  <1>2. IsFiniteSet(Worker \X (0..MaxBatch))
        BY <1>1, SlotsAssumption, FS_Product
  <1> QED BY <1>2, FS_Subset

LEMMA TakePermits ==
  ASSUME Permits, NEW w \in Worker, NEW k \in 0..MaxBatch, <<w, k>> \notin held, Take(w, k)
  PROVE  /\ Permits'
         /\ \A u, j : <<u, j>> \in held' <=> <<u, j>> \in held \/ (u = w /\ j = k)
  <1>1. IsFiniteSet(held) /\ M \in Nat
        BY HeldFinite, SlotsAssumption DEF Permits
  <1>2. Cardinality(held) \in Nat /\ Cardinality(held') = Cardinality(held) + 1
        BY <1>1, FS_CardinalityType, FS_AddElement DEF Take
  <1>3. free' \in 0..M /\ free' + Cardinality(held') = M
        BY <1>1, <1>2 DEF Take, Permits, PermitsConserved
  <1> QED BY <1>3 DEF Take, Permits, PermitsConserved

LEMMA GivePermits ==
  ASSUME Permits, NEW w \in Worker, NEW k \in 0..MaxBatch, Give(w, k)
  PROVE  /\ Permits'
         /\ \A u, j : <<u, j>> \in held' <=> <<u, j>> \in held /\ ~(u = w /\ j = k)
  <1>1. IsFiniteSet(held) /\ M \in Nat
        BY HeldFinite, SlotsAssumption DEF Permits
  <1>2. /\ Cardinality(held) \in Nat /\ Cardinality(held') \in Nat
        /\ Cardinality(held') =
             IF <<w, k>> \in held THEN Cardinality(held) - 1 ELSE Cardinality(held)
    <2>1. held' = held \ {<<w, k>>}
          BY DEF Give
    <2> QED BY <1>1, <2>1, FS_CardinalityType, FS_RemoveElement
  <1>3. free' \in 0..M /\ free' + Cardinality(held') = M
        BY <1>1, <1>2 DEF Give, Permits, PermitsConserved
  <1> QED BY <1>3 DEF Give, Permits, PermitsConserved

LEMMA FirstIsIn ==
  ASSUME NEW S \in SUBSET Nat, S # {}
  PROVE  First(S) \in S
  <1>1. PICK x \in S : \A y \in S : ~(<<y, x>> \in OpToRel(<, Nat))
        BY NatLessThanWellFounded, WFMin, Zenon
  <1>2. \A y \in S : ~(y < x)
        BY <1>1 DEF OpToRel
  <1>3. \A y \in S : x <= y
        BY <1>2
  <1> QED BY <1>3 DEF First

LEMMA SlotFacts ==
  /\ Slot = 1..MaxBatch /\ MaxBatch \in Nat \ {0} /\ M \in Nat \ {0} /\ Tasks \in Nat
  /\ Slot \subseteq 0..MaxBatch /\ Slot \subseteq Nat /\ 0 \notin Slot /\ 0 \in 0..MaxBatch
  BY SlotsAssumption DEF Slot

LEMMA InitHolds == Init => IInv
  <1> SUFFICES ASSUME Init PROVE IInv
      OBVIOUS
  <1>1. Permits
    <2>1. Cardinality({}) = 0
          BY FS_EmptySet
    <2> QED BY <2>1, SlotFacts DEF Init, Permits, PermitsConserved
  <1>2. TypeOK
    <2>1. <<>> \in Seq(Agent) /\ Len(<<>>) = 0
          OBVIOUS
    <2>2. NoSession \in [Slot -> Status] /\ NoChild \in [0..MaxBatch -> Child]
          BY DEF NoSession, NoChild, Status, Child
    <2> QED BY <2>1, <2>2, SlotFacts DEF Init, TypeOK, Label
  <1>3. Inner
        BY SlotFacts DEF Init, Inner, HoldsAt, KidsAt, Holds, NoChild, Spawning, Outside
  <1> QED BY <1>1, <1>2, <1>3 DEF IInv
-----------------------------------------------------------------------------
(* The steps: each is one worker's, and leaves the others as they are *)

Same(u) ==
  /\ pc'[u] = pc[u] /\ at'[u] = at[u] /\ batch'[u] = batch[u] /\ spawned'[u] = spawned[u]
  /\ status'[u] = status[u] /\ child'[u] = child[u]
  /\ \A j : <<u, j>> \in held' <=> <<u, j>> \in held

LEMMA Frame ==
  ASSUME Inner, NEW w, \A u \in Worker : u # w => Same(u), w \in Worker => (HoldsAt(w) /\ KidsAt(w))'
  PROVE  Inner'
  <1> SUFFICES ASSUME NEW u \in Worker, u # w
               PROVE  (HoldsAt(u) /\ KidsAt(u))'
      BY DEF Inner
  <1>1. Same(u) /\ HoldsAt(u) /\ KidsAt(u)
        BY DEF Inner
  <1>2. HoldsAt(u)'
        BY <1>1 DEF Same, HoldsAt, Holds
  <1>3. KidsAt(u)'
        BY <1>1 DEF Same, KidsAt, Holds
  <1> QED BY <1>2, <1>3

LEMMA StartCycleKeeps ==
  ASSUME IInv, NEW w \in Worker, StartCycle(w)
  PROVE  IInv'
  <1>i. TypeOK /\ Permits /\ HoldsAt(w) /\ KidsAt(w)
        BY DEF IInv, Inner
  <1>p. Permits' /\ held' = held /\ free' = free
        BY <1>i DEF Permits, PermitsConserved, limiter, StartCycle
  <1>o. /\ pc[w] = "idle" /\ pc'[w] \in {"create", "plan"}
        /\ at'[w] = at[w] /\ batch'[w] = batch[w]
        /\ spawned'[w] = spawned[w]
        /\ status'[w] = status[w] /\ child'[w] = child[w]
        BY <1>i, SlotFacts DEF TypeOK, Goto, call, StartCycle
  <1>s. \A u \in Worker : u # w => Same(u)
        BY <1>i, <1>p DEF TypeOK, Same, Goto, call, StartCycle
  <1>t. TypeOK'
    <2>1. status' \in [Worker -> [Slot -> Status]] /\ child' \in [Worker -> [0..MaxBatch -> Child]]
          BY <1>i, SlotFacts DEF TypeOK, Status, Child, call, StartCycle
    <2>2. /\ pc' \in [Worker -> Label] /\ at' \in [Worker -> 0..MaxBatch + 1]
          /\ batch' \in [Worker -> Seq(Agent)] /\ \A u \in Worker : Len(batch'[u]) <= MaxBatch
          BY <1>i, <1>o, SlotsAssumption, SlotFacts DEF TypeOK, Label, Goto, call, StartCycle
    <2>3. /\ left' \in 0..Tasks /\ spawned' \in [Worker -> SUBSET Slot] /\ over' \in [Worker -> SUBSET Slot]
          /\ blocked' \in [Worker -> BOOLEAN] /\ raising' \in [Worker -> BOOLEAN]
          /\ strays' \in SUBSET Worker
          BY <1>i, <1>o, SlotFacts DEF TypeOK, call, StartCycle
    <2> QED BY <1>p, <2>1, <2>2, <2>3 DEF TypeOK, Permits
  <1>l. HoldsAt(w)'
        BY <1>i, <1>o, <1>p, SlotFacts DEF HoldsAt, KidsAt, Holds, Spawning, Outside
  <1>m. KidsAt(w)'
        BY <1>i, <1>o, <1>p, SlotFacts DEF HoldsAt, KidsAt, Holds, Spawning, Outside
  <1> QED BY <1>p, <1>s, <1>t, <1>l, <1>m, Frame DEF IInv

LEMMA CreateTreeKeeps ==
  ASSUME IInv, NEW w \in Worker, CreateTree(w)
  PROVE  IInv'
  <1>i. TypeOK /\ Permits /\ HoldsAt(w) /\ KidsAt(w)
        BY DEF IInv, Inner
  <1>k. 0 \in 0..MaxBatch /\ <<w, 0>> \notin held /\ Take(w, 0)
        BY <1>i, SlotFacts DEF TypeOK, HoldsAt, Holds, Spawning, CreateTree
  <1>p. /\ Permits'
        /\ \A u, j : <<u, j>> \in held' <=> <<u, j>> \in held \/ (u = w /\ j = 0)
        BY <1>i, <1>k, TakePermits
  <1>o. /\ pc[w] = "create" /\ pc'[w] = "creating"
        /\ at'[w] = at[w] /\ batch'[w] = batch[w]
        /\ spawned'[w] = spawned[w]
        /\ status'[w] = status[w] /\ child'[w] = child[w]
        BY <1>i, SlotFacts DEF TypeOK, Goto, call, CreateTree
  <1>s. \A u \in Worker : u # w => Same(u)
        BY <1>i, <1>k, <1>p DEF TypeOK, Same, Goto, call, CreateTree
  <1>t. TypeOK'
    <2>1. status' \in [Worker -> [Slot -> Status]] /\ child' \in [Worker -> [0..MaxBatch -> Child]]
          BY <1>i, SlotFacts DEF TypeOK, Status, Child, call, CreateTree
    <2>2. /\ pc' \in [Worker -> Label] /\ at' \in [Worker -> 0..MaxBatch + 1]
          /\ batch' \in [Worker -> Seq(Agent)] /\ \A u \in Worker : Len(batch'[u]) <= MaxBatch
          BY <1>i, <1>o, SlotsAssumption, SlotFacts DEF TypeOK, Label, Goto, call, CreateTree
    <2>3. /\ left' \in 0..Tasks /\ spawned' \in [Worker -> SUBSET Slot] /\ over' \in [Worker -> SUBSET Slot]
          /\ blocked' \in [Worker -> BOOLEAN] /\ raising' \in [Worker -> BOOLEAN]
          /\ strays' \in SUBSET Worker
          BY <1>i, <1>o, SlotFacts DEF TypeOK, call, CreateTree
    <2> QED BY <1>p, <2>1, <2>2, <2>3 DEF TypeOK, Permits
  <1>l. HoldsAt(w)'
        BY <1>i, <1>k, <1>o, <1>p, SlotFacts DEF HoldsAt, KidsAt, Holds, Spawning, Outside
  <1>m. KidsAt(w)'
        BY <1>i, <1>k, <1>o, <1>p, SlotFacts DEF HoldsAt, KidsAt, Holds, Spawning, Outside
  <1> QED BY <1>p, <1>s, <1>t, <1>l, <1>m, Frame DEF IInv

LEMMA TreeCreatedKeeps ==
  ASSUME IInv, NEW w \in Worker, TreeCreated(w)
  PROVE  IInv'
  <1>i. TypeOK /\ Permits /\ HoldsAt(w) /\ KidsAt(w)
        BY DEF IInv, Inner
  <1>k. 0 \in 0..MaxBatch /\ Give(w, 0)
        BY <1>i, SlotFacts DEF TypeOK, HoldsAt, Holds, Spawning, TreeCreated
  <1>p. /\ Permits'
        /\ \A u, j : <<u, j>> \in held' <=> <<u, j>> \in held /\ ~(u = w /\ j = 0)
        BY <1>i, <1>k, GivePermits
  <1>o. /\ pc[w] = "creating" /\ pc'[w] \in {"plan", "idle"}
        /\ at'[w] = at[w] /\ batch'[w] = batch[w]
        /\ spawned'[w] = spawned[w]
        /\ status'[w] = status[w] /\ child'[w] = child[w]
        BY <1>i, SlotFacts DEF TypeOK, Goto, call, TreeCreated
  <1>s. \A u \in Worker : u # w => Same(u)
        BY <1>i, <1>k, <1>p DEF TypeOK, Same, Goto, call, TreeCreated
  <1>t. TypeOK'
    <2>1. status' \in [Worker -> [Slot -> Status]] /\ child' \in [Worker -> [0..MaxBatch -> Child]]
          BY <1>i, SlotFacts DEF TypeOK, Status, Child, call, TreeCreated
    <2>2. /\ pc' \in [Worker -> Label] /\ at' \in [Worker -> 0..MaxBatch + 1]
          /\ batch' \in [Worker -> Seq(Agent)] /\ \A u \in Worker : Len(batch'[u]) <= MaxBatch
          BY <1>i, <1>o, SlotsAssumption, SlotFacts DEF TypeOK, Label, Goto, call, TreeCreated
    <2>3. /\ left' \in 0..Tasks /\ spawned' \in [Worker -> SUBSET Slot] /\ over' \in [Worker -> SUBSET Slot]
          /\ blocked' \in [Worker -> BOOLEAN] /\ raising' \in [Worker -> BOOLEAN]
          /\ strays' \in SUBSET Worker
          BY <1>i, <1>o, SlotFacts DEF TypeOK, call, TreeCreated
    <2> QED BY <1>p, <2>1, <2>2, <2>3 DEF TypeOK, Permits
  <1>l. HoldsAt(w)'
        BY <1>i, <1>k, <1>o, <1>p, SlotFacts DEF HoldsAt, KidsAt, Holds, Spawning, Outside
  <1>m. KidsAt(w)'
        BY <1>i, <1>k, <1>o, <1>p, SlotFacts DEF HoldsAt, KidsAt, Holds, Spawning, Outside
  <1> QED BY <1>p, <1>s, <1>t, <1>l, <1>m, Frame DEF IInv

LEMMA PlanCallKeeps ==
  ASSUME IInv, NEW w \in Worker, PlanCall(w)
  PROVE  IInv'
  <1>i. TypeOK /\ Permits /\ HoldsAt(w) /\ KidsAt(w)
        BY DEF IInv, Inner
  <1> PICK b \in Batch : batch' = [batch EXCEPT ![w] = b]
        BY DEF PlanCall
  <1>f. b \in Seq(Agent) /\ Len(b) <= MaxBatch
        BY SlotsAssumption
  <1>p. Permits' /\ held' = held /\ free' = free
        BY <1>i DEF Permits, PermitsConserved, limiter, PlanCall
  <1>o. /\ pc[w] = "plan" /\ pc'[w] \in {"conclude", "phase1"}
        /\ spawned'[w] = spawned[w]
        /\ status'[w] = status[w] /\ child'[w] = child[w]
        /\ batch' = [batch EXCEPT ![w] = b] /\ at' = [at EXCEPT ![w] = 1]
        BY <1>i, <1>f, SlotFacts DEF TypeOK, Goto, call, PlanCall
  <1>s. \A u \in Worker : u # w => Same(u)
        BY <1>i, <1>f, <1>p DEF TypeOK, Same, Goto, call, PlanCall
  <1>t. TypeOK'
    <2>1. status' \in [Worker -> [Slot -> Status]] /\ child' \in [Worker -> [0..MaxBatch -> Child]]
          BY <1>i, <1>f, SlotFacts DEF TypeOK, Status, Child, call, PlanCall
    <2>2. /\ pc' \in [Worker -> Label] /\ at' \in [Worker -> 0..MaxBatch + 1]
          /\ batch' \in [Worker -> Seq(Agent)] /\ \A u \in Worker : Len(batch'[u]) <= MaxBatch
          BY <1>i, <1>f, <1>o, SlotsAssumption, SlotFacts DEF TypeOK, Label, Goto, call, PlanCall
    <2>3. /\ left' \in 0..Tasks /\ spawned' \in [Worker -> SUBSET Slot] /\ over' \in [Worker -> SUBSET Slot]
          /\ blocked' \in [Worker -> BOOLEAN] /\ raising' \in [Worker -> BOOLEAN]
          /\ strays' \in SUBSET Worker
          BY <1>i, <1>f, <1>o, SlotFacts DEF TypeOK, call, PlanCall
    <2> QED BY <1>p, <2>1, <2>2, <2>3 DEF TypeOK, Permits
  <1>l. HoldsAt(w)'
        BY <1>i, <1>o, <1>p, SlotFacts DEF HoldsAt, KidsAt, Holds, Spawning, Outside
  <1>m. KidsAt(w)'
        BY <1>i, <1>o, <1>p, SlotFacts DEF HoldsAt, KidsAt, Holds, Spawning, Outside
  <1> QED BY <1>p, <1>s, <1>t, <1>l, <1>m, Frame DEF IInv

LEMMA StartTurnKeeps ==
  ASSUME IInv, NEW w \in Worker, StartTurn(w)
  PROVE  IInv'
  <1>i. TypeOK /\ Permits /\ HoldsAt(w) /\ KidsAt(w)
        BY DEF IInv, Inner
  <1>k. at[w] \in 0..MaxBatch /\ <<w, at[w]>> \notin held /\ Take(w, at[w])
        BY <1>i, SlotFacts DEF TypeOK, HoldsAt, Holds, Spawning, StartTurn, InBatch, Here, SetStatus, SetChild
  <1>p. /\ Permits'
        /\ \A u, j : <<u, j>> \in held' <=> <<u, j>> \in held \/ (u = w /\ j = at[w])
        BY <1>i, <1>k, TakePermits
  <1>o. /\ pc[w] = "phase1" /\ pc'[w] = "turn"
        /\ at'[w] = at[w] /\ batch'[w] = batch[w]
        /\ spawned'[w] = spawned[w]
        /\ at[w] \in 1..Len(batch[w]) /\ at[w] \in Slot
        /\ spawned[w] \subseteq Slot
        /\ DOMAIN status[w] = Slot /\ DOMAIN child[w] = 0..MaxBatch
        /\ status'[w] = [status[w] EXCEPT ![at[w]] = "running"]
        /\ child'[w] = [child[w] EXCEPT ![at[w]] = "alive"]
        BY <1>i, SlotFacts DEF TypeOK, Goto, call, StartTurn, InBatch, Here, SetStatus, SetChild
  <1>s. \A u \in Worker : u # w => Same(u)
        BY <1>i, <1>k, <1>p DEF TypeOK, Same, Goto, call, StartTurn, InBatch, Here, SetStatus, SetChild
  <1>t. TypeOK'
    <2>1. status' \in [Worker -> [Slot -> Status]] /\ child' \in [Worker -> [0..MaxBatch -> Child]]
          BY <1>i, SlotFacts DEF TypeOK, Status, Child, call, StartTurn, InBatch, Here, SetStatus, SetChild
    <2>2. /\ pc' \in [Worker -> Label] /\ at' \in [Worker -> 0..MaxBatch + 1]
          /\ batch' \in [Worker -> Seq(Agent)] /\ \A u \in Worker : Len(batch'[u]) <= MaxBatch
          BY <1>i, <1>o, SlotsAssumption, SlotFacts DEF TypeOK, Label, Goto, call, StartTurn, InBatch, Here, SetStatus, SetChild
    <2>3. /\ left' \in 0..Tasks /\ spawned' \in [Worker -> SUBSET Slot] /\ over' \in [Worker -> SUBSET Slot]
          /\ blocked' \in [Worker -> BOOLEAN] /\ raising' \in [Worker -> BOOLEAN]
          /\ strays' \in SUBSET Worker
          BY <1>i, <1>o, SlotFacts DEF TypeOK, call, StartTurn, InBatch, Here, SetStatus, SetChild
    <2> QED BY <1>p, <2>1, <2>2, <2>3 DEF TypeOK, Permits
  <1>l. HoldsAt(w)'
        BY <1>i, <1>k, <1>o, <1>p, SlotFacts DEF HoldsAt, KidsAt, Holds, Spawning, Outside
  <1>m. KidsAt(w)'
        BY <1>i, <1>k, <1>o, <1>p, SlotFacts DEF HoldsAt, KidsAt, Holds, Spawning, Outside
  <1> QED BY <1>p, <1>s, <1>t, <1>l, <1>m, Frame DEF IInv

LEMMA EndTurnKeeps ==
  ASSUME IInv, NEW w \in Worker, EndTurn(w)
  PROVE  IInv'
  <1>i. TypeOK /\ Permits /\ HoldsAt(w) /\ KidsAt(w)
        BY DEF IInv, Inner
  <1>f. at[w] \in Slot
        BY <1>i, SlotFacts DEF EndTurn, HoldsAt, TypeOK
  <1>k. at[w] \in 0..MaxBatch /\ Give(w, at[w])
        BY <1>i, <1>f, SlotFacts DEF TypeOK, HoldsAt, Holds, Spawning, EndTurn, Here, SetStatus, SetChild
  <1>p. /\ Permits'
        /\ \A u, j : <<u, j>> \in held' <=> <<u, j>> \in held /\ ~(u = w /\ j = at[w])
        BY <1>i, <1>k, GivePermits
  <1>o. /\ pc[w] = "turn" /\ pc'[w] = "phase1"
        /\ batch'[w] = batch[w]
        /\ spawned'[w] = spawned[w]
        /\ at'[w] = at[w] + 1
        /\ spawned[w] \subseteq Slot
        /\ at[w] \in Slot
        /\ DOMAIN status[w] = Slot /\ DOMAIN child[w] = 0..MaxBatch
        /\ \E x \in {"completed", "failed"} : status'[w] = [status[w] EXCEPT ![at[w]] = x]
        /\ \E x \in {"ok", "stopped"} : child'[w] = [child[w] EXCEPT ![at[w]] = x]
        BY <1>i, <1>f, SlotFacts DEF TypeOK, Goto, call, EndTurn, Here, SetStatus, SetChild
  <1>s. \A u \in Worker : u # w => Same(u)
        BY <1>i, <1>f, <1>k, <1>p DEF TypeOK, Same, Goto, call, EndTurn, Here, SetStatus, SetChild
  <1>t. TypeOK'
    <2>1. status' \in [Worker -> [Slot -> Status]] /\ child' \in [Worker -> [0..MaxBatch -> Child]]
          BY <1>i, <1>f, SlotFacts DEF TypeOK, Status, Child, call, EndTurn, Here, SetStatus, SetChild
    <2>2. /\ pc' \in [Worker -> Label] /\ at' \in [Worker -> 0..MaxBatch + 1]
          /\ batch' \in [Worker -> Seq(Agent)] /\ \A u \in Worker : Len(batch'[u]) <= MaxBatch
          BY <1>i, <1>f, <1>o, SlotsAssumption, SlotFacts DEF TypeOK, Label, Goto, call, EndTurn, Here, SetStatus, SetChild
    <2>3. /\ left' \in 0..Tasks /\ spawned' \in [Worker -> SUBSET Slot] /\ over' \in [Worker -> SUBSET Slot]
          /\ blocked' \in [Worker -> BOOLEAN] /\ raising' \in [Worker -> BOOLEAN]
          /\ strays' \in SUBSET Worker
          BY <1>i, <1>f, <1>o, SlotFacts DEF TypeOK, call, EndTurn, Here, SetStatus, SetChild
    <2> QED BY <1>p, <2>1, <2>2, <2>3 DEF TypeOK, Permits
  <1>l. HoldsAt(w)'
        BY <1>i, <1>k, <1>o, <1>p, SlotFacts DEF HoldsAt, KidsAt, Holds, Spawning, Outside
  <1>m. KidsAt(w)'
        BY <1>i, <1>k, <1>o, <1>p, SlotFacts DEF HoldsAt, KidsAt, Holds, Spawning, Outside
  <1> QED BY <1>p, <1>s, <1>t, <1>l, <1>m, Frame DEF IInv

LEMMA AcquireKeeps ==
  ASSUME IInv, NEW w \in Worker, Acquire(w)
  PROVE  IInv'
  <1>i. TypeOK /\ Permits /\ HoldsAt(w) /\ KidsAt(w)
        BY DEF IInv, Inner
  <1>k. at[w] \in 0..MaxBatch /\ <<w, at[w]>> \notin held /\ Take(w, at[w])
        BY <1>i, SlotFacts DEF TypeOK, HoldsAt, Holds, Spawning, Acquire, InBatch, Here
  <1>p. /\ Permits'
        /\ \A u, j : <<u, j>> \in held' <=> <<u, j>> \in held \/ (u = w /\ j = at[w])
        BY <1>i, <1>k, TakePermits
  <1>o. /\ pc[w] = "phase1" /\ pc'[w] = "pending"
        /\ at'[w] = at[w] /\ batch'[w] = batch[w]
        /\ spawned'[w] = spawned[w]
        /\ status'[w] = status[w] /\ child'[w] = child[w]
        /\ at[w] \in 1..Len(batch[w]) /\ at[w] \in Slot
        /\ spawned[w] \subseteq Slot
        BY <1>i, SlotFacts DEF TypeOK, Goto, call, Acquire, InBatch, Here
  <1>s. \A u \in Worker : u # w => Same(u)
        BY <1>i, <1>k, <1>p DEF TypeOK, Same, Goto, call, Acquire, InBatch, Here
  <1>t. TypeOK'
    <2>1. status' \in [Worker -> [Slot -> Status]] /\ child' \in [Worker -> [0..MaxBatch -> Child]]
          BY <1>i, SlotFacts DEF TypeOK, Status, Child, call, Acquire, InBatch, Here
    <2>2. /\ pc' \in [Worker -> Label] /\ at' \in [Worker -> 0..MaxBatch + 1]
          /\ batch' \in [Worker -> Seq(Agent)] /\ \A u \in Worker : Len(batch'[u]) <= MaxBatch
          BY <1>i, <1>o, SlotsAssumption, SlotFacts DEF TypeOK, Label, Goto, call, Acquire, InBatch, Here
    <2>3. /\ left' \in 0..Tasks /\ spawned' \in [Worker -> SUBSET Slot] /\ over' \in [Worker -> SUBSET Slot]
          /\ blocked' \in [Worker -> BOOLEAN] /\ raising' \in [Worker -> BOOLEAN]
          /\ strays' \in SUBSET Worker
          BY <1>i, <1>o, SlotFacts DEF TypeOK, call, Acquire, InBatch, Here
    <2> QED BY <1>p, <2>1, <2>2, <2>3 DEF TypeOK, Permits
  <1>l. HoldsAt(w)'
        BY <1>i, <1>k, <1>o, <1>p, SlotFacts DEF HoldsAt, KidsAt, Holds, Spawning, Outside
  <1>m. KidsAt(w)'
        BY <1>i, <1>k, <1>o, <1>p, SlotFacts DEF HoldsAt, KidsAt, Holds, Spawning, Outside
  <1> QED BY <1>p, <1>s, <1>t, <1>l, <1>m, Frame DEF IInv

LEMMA SpawnKeeps ==
  ASSUME IInv, NEW w \in Worker, Spawn(w)
  PROVE  IInv'
  <1>i. TypeOK /\ Permits /\ HoldsAt(w) /\ KidsAt(w)
        BY DEF IInv, Inner
  <1>f. pc[w] = "pending" /\ at[w] \in Slot
        BY <1>i, SlotFacts DEF Spawn, HoldsAt, TypeOK
  <1>p. Permits' /\ held' = held /\ free' = free
        BY <1>i DEF Permits, PermitsConserved, limiter, Spawn, Here, SetStatus, SetChild
  <1>o. /\ pc[w] = "pending" /\ pc'[w] = "phase1"
        /\ batch'[w] = batch[w]
        /\ spawned'[w] = spawned[w] \cup {at[w]}
        /\ at'[w] = at[w] + 1 /\ at[w] \in Slot
        /\ spawned[w] \subseteq Slot
        /\ DOMAIN status[w] = Slot /\ DOMAIN child[w] = 0..MaxBatch
        /\ status'[w] = [status[w] EXCEPT ![at[w]] = "running"]
        /\ child'[w] = [child[w] EXCEPT ![at[w]] = "alive"]
        BY <1>i, <1>f, SlotFacts DEF TypeOK, Goto, call, Spawn, Here, SetStatus, SetChild
  <1>s. \A u \in Worker : u # w => Same(u)
        BY <1>i, <1>f, <1>p DEF TypeOK, Same, Goto, call, Spawn, Here, SetStatus, SetChild
  <1>t. TypeOK'
    <2>1. status' \in [Worker -> [Slot -> Status]] /\ child' \in [Worker -> [0..MaxBatch -> Child]]
          BY <1>i, <1>f, SlotFacts DEF TypeOK, Status, Child, call, Spawn, Here, SetStatus, SetChild
    <2>2. /\ pc' \in [Worker -> Label] /\ at' \in [Worker -> 0..MaxBatch + 1]
          /\ batch' \in [Worker -> Seq(Agent)] /\ \A u \in Worker : Len(batch'[u]) <= MaxBatch
          BY <1>i, <1>f, <1>o, SlotsAssumption, SlotFacts DEF TypeOK, Label, Goto, call, Spawn, Here, SetStatus, SetChild
    <2>3. /\ left' \in 0..Tasks /\ spawned' \in [Worker -> SUBSET Slot] /\ over' \in [Worker -> SUBSET Slot]
          /\ blocked' \in [Worker -> BOOLEAN] /\ raising' \in [Worker -> BOOLEAN]
          /\ strays' \in SUBSET Worker
          BY <1>i, <1>f, <1>o, SlotFacts DEF TypeOK, call, Spawn, Here, SetStatus, SetChild
    <2> QED BY <1>p, <2>1, <2>2, <2>3 DEF TypeOK, Permits
  <1>l. HoldsAt(w)'
        BY <1>i, <1>o, <1>p, SlotFacts DEF HoldsAt, KidsAt, Holds, Spawning, Outside
  <1>m. KidsAt(w)'
        BY <1>i, <1>o, <1>p, SlotFacts DEF HoldsAt, KidsAt, Holds, Spawning, Outside
  <1> QED BY <1>p, <1>s, <1>t, <1>l, <1>m, Frame DEF IInv

LEMMA SpawnFailsKeeps ==
  ASSUME IInv, NEW w \in Worker, SpawnFails(w)
  PROVE  IInv'
  <1>i. TypeOK /\ Permits /\ HoldsAt(w) /\ KidsAt(w)
        BY DEF IInv, Inner
  <1>f. pc[w] = "pending" /\ at[w] \in Slot /\ <<w, at[w]>> \in held /\ at[w] \notin spawned[w]
        BY <1>i, SlotFacts DEF SpawnFails, HoldsAt, Holds, TypeOK, Spawning
  <1>p. Permits' /\ held' = held /\ free' = free
        BY <1>i DEF Permits, PermitsConserved, limiter, SpawnFails, Here, SetStatus, SetChild
  <1>o. /\ pc[w] = "pending" /\ pc'[w] = "finally"
        /\ at'[w] = at[w] /\ batch'[w] = batch[w]
        /\ spawned'[w] = spawned[w]
        /\ at[w] \in Slot
        /\ spawned[w] \subseteq Slot
        /\ DOMAIN status[w] = Slot /\ DOMAIN child[w] = 0..MaxBatch
        /\ status'[w] = [status[w] EXCEPT ![at[w]] = "spawn-failed"]
        /\ <<w, at[w]>> \in held /\ at[w] \notin spawned[w]
        /\ \A k \in 0..MaxBatch : k # at[w] => child'[w][k] = child[w][k]
        BY <1>i, <1>f, SlotFacts DEF TypeOK, Goto, call, SpawnFails, Here, SetStatus, SetChild
  <1>s. \A u \in Worker : u # w => Same(u)
        BY <1>i, <1>f, <1>p DEF TypeOK, Same, Goto, call, SpawnFails, Here, SetStatus, SetChild
  <1>t. TypeOK'
    <2>1. status' \in [Worker -> [Slot -> Status]] /\ child' \in [Worker -> [0..MaxBatch -> Child]]
          BY <1>i, <1>f, SlotFacts DEF TypeOK, Status, Child, call, SpawnFails, Here, SetStatus, SetChild
    <2>2. /\ pc' \in [Worker -> Label] /\ at' \in [Worker -> 0..MaxBatch + 1]
          /\ batch' \in [Worker -> Seq(Agent)] /\ \A u \in Worker : Len(batch'[u]) <= MaxBatch
          BY <1>i, <1>f, <1>o, SlotsAssumption, SlotFacts DEF TypeOK, Label, Goto, call, SpawnFails, Here, SetStatus, SetChild
    <2>3. /\ left' \in 0..Tasks /\ spawned' \in [Worker -> SUBSET Slot] /\ over' \in [Worker -> SUBSET Slot]
          /\ blocked' \in [Worker -> BOOLEAN] /\ raising' \in [Worker -> BOOLEAN]
          /\ strays' \in SUBSET Worker
          BY <1>i, <1>f, <1>o, SlotFacts DEF TypeOK, call, SpawnFails, Here, SetStatus, SetChild
    <2> QED BY <1>p, <2>1, <2>2, <2>3 DEF TypeOK, Permits
  <1>l. HoldsAt(w)'
        BY <1>i, <1>o, <1>p, SlotFacts DEF HoldsAt, KidsAt, Holds, Spawning, Outside
  <1>m. KidsAt(w)'
        BY <1>i, <1>o, <1>p, SlotFacts DEF HoldsAt, KidsAt, Holds, Spawning, Outside
  <1> QED BY <1>p, <1>s, <1>t, <1>l, <1>m, Frame DEF IInv

LEMMA ReaderFailsKeeps ==
  ASSUME IInv, NEW w \in Worker, ReaderFails(w)
  PROVE  IInv'
  <1>i. TypeOK /\ Permits /\ HoldsAt(w) /\ KidsAt(w)
        BY DEF IInv, Inner
  <1>f. pc[w] = "pending" /\ at[w] \in Slot
        BY <1>i, SlotFacts DEF ReaderFails, HoldsAt, TypeOK
  <1>p. Permits' /\ held' = held /\ free' = free
        BY <1>i DEF Permits, PermitsConserved, limiter, ReaderFails, Here, SetStatus, SetChild
  <1>o. /\ pc[w] = "pending" /\ pc'[w] = "finally"
        /\ at'[w] = at[w] /\ batch'[w] = batch[w]
        /\ spawned'[w] = spawned[w]
        /\ at[w] \in Slot
        /\ spawned[w] \subseteq Slot
        /\ DOMAIN status[w] = Slot /\ DOMAIN child[w] = 0..MaxBatch
        /\ status'[w] = [status[w] EXCEPT ![at[w]] = "running"]
        /\ child'[w] = [child[w] EXCEPT ![at[w]] = "alive"]
        BY <1>i, <1>f, SlotFacts DEF TypeOK, Goto, call, ReaderFails, Here, SetStatus, SetChild
  <1>s. \A u \in Worker : u # w => Same(u)
        BY <1>i, <1>f, <1>p DEF TypeOK, Same, Goto, call, ReaderFails, Here, SetStatus, SetChild
  <1>t. TypeOK'
    <2>1. status' \in [Worker -> [Slot -> Status]] /\ child' \in [Worker -> [0..MaxBatch -> Child]]
          BY <1>i, <1>f, SlotFacts DEF TypeOK, Status, Child, call, ReaderFails, Here, SetStatus, SetChild
    <2>2. /\ pc' \in [Worker -> Label] /\ at' \in [Worker -> 0..MaxBatch + 1]
          /\ batch' \in [Worker -> Seq(Agent)] /\ \A u \in Worker : Len(batch'[u]) <= MaxBatch
          BY <1>i, <1>f, <1>o, SlotsAssumption, SlotFacts DEF TypeOK, Label, Goto, call, ReaderFails, Here, SetStatus, SetChild
    <2>3. /\ left' \in 0..Tasks /\ spawned' \in [Worker -> SUBSET Slot] /\ over' \in [Worker -> SUBSET Slot]
          /\ blocked' \in [Worker -> BOOLEAN] /\ raising' \in [Worker -> BOOLEAN]
          /\ strays' \in SUBSET Worker
          BY <1>i, <1>f, <1>o, SlotFacts DEF TypeOK, call, ReaderFails, Here, SetStatus, SetChild
    <2> QED BY <1>p, <2>1, <2>2, <2>3 DEF TypeOK, Permits
  <1>l. HoldsAt(w)'
        BY <1>i, <1>o, <1>p, SlotFacts DEF HoldsAt, KidsAt, Holds, Spawning, Outside
  <1>m. KidsAt(w)'
        BY <1>i, <1>o, <1>p, SlotFacts DEF HoldsAt, KidsAt, Holds, Spawning, Outside
  <1> QED BY <1>p, <1>s, <1>t, <1>l, <1>m, Frame DEF IInv

LEMMA EndPhase1Keeps ==
  ASSUME IInv, NEW w \in Worker, EndPhase1(w)
  PROVE  IInv'
  <1>i. TypeOK /\ Permits /\ HoldsAt(w) /\ KidsAt(w)
        BY DEF IInv, Inner
  <1>p. Permits' /\ held' = held /\ free' = free
        BY <1>i DEF Permits, PermitsConserved, limiter, EndPhase1, Here
  <1>o. /\ pc[w] = "phase1" /\ pc'[w] = "phase2"
        /\ batch'[w] = batch[w]
        /\ spawned'[w] = spawned[w]
        /\ status'[w] = status[w] /\ child'[w] = child[w]
        BY <1>i, SlotFacts DEF TypeOK, Goto, call, EndPhase1, Here
  <1>s. \A u \in Worker : u # w => Same(u)
        BY <1>i, <1>p DEF TypeOK, Same, Goto, call, EndPhase1, Here
  <1>t. TypeOK'
    <2>1. status' \in [Worker -> [Slot -> Status]] /\ child' \in [Worker -> [0..MaxBatch -> Child]]
          BY <1>i, SlotFacts DEF TypeOK, Status, Child, call, EndPhase1, Here
    <2>2. /\ pc' \in [Worker -> Label] /\ at' \in [Worker -> 0..MaxBatch + 1]
          /\ batch' \in [Worker -> Seq(Agent)] /\ \A u \in Worker : Len(batch'[u]) <= MaxBatch
          BY <1>i, <1>o, SlotsAssumption, SlotFacts DEF TypeOK, Label, Goto, call, EndPhase1, Here
    <2>3. /\ left' \in 0..Tasks /\ spawned' \in [Worker -> SUBSET Slot] /\ over' \in [Worker -> SUBSET Slot]
          /\ blocked' \in [Worker -> BOOLEAN] /\ raising' \in [Worker -> BOOLEAN]
          /\ strays' \in SUBSET Worker
          BY <1>i, <1>o, SlotFacts DEF TypeOK, call, EndPhase1, Here
    <2> QED BY <1>p, <2>1, <2>2, <2>3 DEF TypeOK, Permits
  <1>l. HoldsAt(w)'
        BY <1>i, <1>o, <1>p, SlotFacts DEF HoldsAt, KidsAt, Holds, Spawning, Outside
  <1>m. KidsAt(w)'
        BY <1>i, <1>o, <1>p, SlotFacts DEF HoldsAt, KidsAt, Holds, Spawning, Outside
  <1> QED BY <1>p, <1>s, <1>t, <1>l, <1>m, Frame DEF IInv

LEMMA BreakOffKeeps ==
  ASSUME IInv, NEW w \in Worker, BreakOff(w)
  PROVE  IInv'
  <1>i. TypeOK /\ Permits /\ HoldsAt(w) /\ KidsAt(w)
        BY DEF IInv, Inner
  <1>e. Remaining(w) \in SUBSET Nat /\ Remaining(w) # {} /\ Remaining(w) \subseteq spawned[w] /\ spawned[w] \subseteq Slot
        BY <1>i, SlotFacts DEF TypeOK, Remaining, Undrained, BreakOff, InTurn
  <1> DEFINE k == First(Remaining(w))
  <1>g. k \in Remaining(w)
        BY <1>e, FirstIsIn
  <1>r. /\ pc[w] = "phase2" /\ pc' = [pc EXCEPT ![w] = "finally"]
        /\ child' = [child EXCEPT ![w][k] = Stopped(child[w][k])]
        /\ Stopped(child[w][k]) # "alive" /\ (Stopped(child[w][k]) \in {child[w][k], "stopped"})
        /\ UNCHANGED <<left, batch, spawned, raising, over, strays>>
        /\ UNCHANGED <<at, blocked, status>>
        /\ Give(w, k)
        BY DEF BreakOff, InTurn, SetChild, Stopped, Goto, call
  <1> HIDE DEF k
  <1>f. /\ k \in spawned[w] /\ k \in Slot /\ k \in 0..MaxBatch
        /\ pc[w] = "phase2" /\ pc' = [pc EXCEPT ![w] = "finally"]
        /\ child' = [child EXCEPT ![w][k] = Stopped(child[w][k])]
        /\ Stopped(child[w][k]) # "alive" /\ (Stopped(child[w][k]) \in {child[w][k], "stopped"})
        /\ UNCHANGED <<left, batch, spawned, raising, over, strays>>
        /\ UNCHANGED <<at, blocked, status>>
        /\ Give(w, k)
        BY <1>e, <1>g, <1>r, SlotFacts
  <1>k. k \in 0..MaxBatch /\ Give(w, k)
        BY <1>i, <1>f, SlotFacts DEF TypeOK, HoldsAt, Holds, Spawning, limiter
  <1>p. /\ Permits'
        /\ \A u, j : <<u, j>> \in held' <=> <<u, j>> \in held /\ ~(u = w /\ j = k)
        BY <1>i, <1>k, GivePermits
  <1>o. /\ pc[w] = "phase2" /\ pc'[w] = "finally"
        /\ at'[w] = at[w] /\ batch'[w] = batch[w]
        /\ spawned'[w] = spawned[w]
        /\ status'[w] = status[w]
        /\ child'[w] = [child[w] EXCEPT ![k] = Stopped(child[w][k])]
        /\ Stopped(child[w][k]) # "alive" /\ (Stopped(child[w][k]) \in {child[w][k], "stopped"})
        /\ k \in Slot /\ k \in spawned[w]
        /\ spawned[w] \subseteq Slot
        /\ DOMAIN status[w] = Slot /\ DOMAIN child[w] = 0..MaxBatch
        BY <1>i, <1>f, SlotFacts DEF TypeOK, Goto, call, limiter
  <1>s. \A u \in Worker : u # w => Same(u)
        BY <1>i, <1>f, <1>k, <1>p DEF TypeOK, Same, Goto, call, limiter
  <1>t. TypeOK'
    <2>1. status' \in [Worker -> [Slot -> Status]] /\ child' \in [Worker -> [0..MaxBatch -> Child]]
          BY <1>i, <1>f, SlotFacts DEF TypeOK, Status, Child, call, limiter
    <2>2. /\ pc' \in [Worker -> Label] /\ at' \in [Worker -> 0..MaxBatch + 1]
          /\ batch' \in [Worker -> Seq(Agent)] /\ \A u \in Worker : Len(batch'[u]) <= MaxBatch
          BY <1>i, <1>f, <1>o, SlotsAssumption, SlotFacts DEF TypeOK, Label, Goto, call, limiter
    <2>3. /\ left' \in 0..Tasks /\ spawned' \in [Worker -> SUBSET Slot] /\ over' \in [Worker -> SUBSET Slot]
          /\ blocked' \in [Worker -> BOOLEAN] /\ raising' \in [Worker -> BOOLEAN]
          /\ strays' \in SUBSET Worker
          BY <1>i, <1>f, <1>o, SlotFacts DEF TypeOK, call, limiter
    <2> QED BY <1>p, <2>1, <2>2, <2>3 DEF TypeOK, Permits
  <1>l. HoldsAt(w)'
        BY <1>i, <1>k, <1>o, <1>p, SlotFacts DEF HoldsAt, KidsAt, Holds, Spawning, Outside
  <1>m. KidsAt(w)'
        BY <1>i, <1>k, <1>o, <1>p, SlotFacts DEF HoldsAt, KidsAt, Holds, Spawning, Outside
  <1> QED BY <1>p, <1>s, <1>t, <1>l, <1>m, Frame DEF IInv

LEMMA ReapKeeps ==
  ASSUME IInv, NEW w \in Worker, Reap(w)
  PROVE  IInv'
  <1>i. TypeOK /\ Permits /\ HoldsAt(w) /\ KidsAt(w)
        BY DEF IInv, Inner
  <1>e. Remaining(w) \in SUBSET Nat /\ Remaining(w) # {} /\ Remaining(w) \subseteq spawned[w] /\ spawned[w] \subseteq Slot
        BY <1>i, SlotFacts DEF TypeOK, Remaining, Undrained, Reap, InTurn
  <1> DEFINE k == First(Remaining(w))
  <1>g. k \in Remaining(w)
        BY <1>e, FirstIsIn
  <1>r. /\ pc[w] = "phase2" /\ child[w][k] # "alive"
        /\ status' = [status EXCEPT ![w][k] = Outcome(w, k)]
        /\ Outcome(w, k) \in {"budget-exceeded", "completed", "failed"}
        /\ blocked' = [blocked EXCEPT ![w] = Outcome(w, k) # "completed"]
        /\ at' = [at EXCEPT ![w] = k + 1]
        /\ UNCHANGED <<left, batch, spawned, raising, over, strays>>
        /\ UNCHANGED <<pc, child>>
        /\ Give(w, k)
        BY DEF Reap, InTurn, SetStatus, Outcome
  <1> HIDE DEF k
  <1>f. /\ k \in spawned[w] /\ k \in Slot /\ k \in 0..MaxBatch
        /\ pc[w] = "phase2" /\ child[w][k] # "alive"
        /\ status' = [status EXCEPT ![w][k] = Outcome(w, k)]
        /\ Outcome(w, k) \in {"budget-exceeded", "completed", "failed"}
        /\ blocked' = [blocked EXCEPT ![w] = Outcome(w, k) # "completed"]
        /\ at' = [at EXCEPT ![w] = k + 1]
        /\ UNCHANGED <<left, batch, spawned, raising, over, strays>>
        /\ UNCHANGED <<pc, child>>
        /\ Give(w, k)
        BY <1>e, <1>g, <1>r, SlotFacts
  <1>k. k \in 0..MaxBatch /\ Give(w, k)
        BY <1>i, <1>f, SlotFacts DEF TypeOK, HoldsAt, Holds, Spawning, limiter
  <1>p. /\ Permits'
        /\ \A u, j : <<u, j>> \in held' <=> <<u, j>> \in held /\ ~(u = w /\ j = k)
        BY <1>i, <1>k, GivePermits
  <1>o. /\ pc[w] = "phase2" /\ pc'[w] = "phase2"
        /\ batch'[w] = batch[w]
        /\ spawned'[w] = spawned[w]
        /\ child'[w] = child[w] /\ child[w][k] # "alive"
        /\ status'[w] = [status[w] EXCEPT ![k] = Outcome(w, k)]
        /\ k \in Slot /\ k \in spawned[w]
        /\ spawned[w] \subseteq Slot
        /\ DOMAIN status[w] = Slot /\ DOMAIN child[w] = 0..MaxBatch
        BY <1>i, <1>f, SlotFacts DEF TypeOK, Goto, call, limiter
  <1>s. \A u \in Worker : u # w => Same(u)
        BY <1>i, <1>f, <1>k, <1>p DEF TypeOK, Same, Goto, call, limiter
  <1>t. TypeOK'
    <2>1. status' \in [Worker -> [Slot -> Status]] /\ child' \in [Worker -> [0..MaxBatch -> Child]]
          BY <1>i, <1>f, SlotFacts DEF TypeOK, Status, Child, call, limiter
    <2>2. /\ pc' \in [Worker -> Label] /\ at' \in [Worker -> 0..MaxBatch + 1]
          /\ batch' \in [Worker -> Seq(Agent)] /\ \A u \in Worker : Len(batch'[u]) <= MaxBatch
          BY <1>i, <1>f, <1>o, SlotsAssumption, SlotFacts DEF TypeOK, Label, Goto, call, limiter
    <2>3. /\ left' \in 0..Tasks /\ spawned' \in [Worker -> SUBSET Slot] /\ over' \in [Worker -> SUBSET Slot]
          /\ blocked' \in [Worker -> BOOLEAN] /\ raising' \in [Worker -> BOOLEAN]
          /\ strays' \in SUBSET Worker
          BY <1>i, <1>f, <1>o, SlotFacts DEF TypeOK, call, limiter
    <2> QED BY <1>p, <2>1, <2>2, <2>3 DEF TypeOK, Permits
  <1>l. HoldsAt(w)'
        BY <1>i, <1>k, <1>o, <1>p, SlotFacts DEF HoldsAt, KidsAt, Holds, Spawning, Outside
  <1>m. KidsAt(w)'
        BY <1>i, <1>k, <1>o, <1>p, SlotFacts DEF HoldsAt, KidsAt, Holds, Spawning, Outside
  <1> QED BY <1>p, <1>s, <1>t, <1>l, <1>m, Frame DEF IInv

LEMMA WaitTimesOutKeeps ==
  ASSUME IInv, NEW w \in Worker, WaitTimesOut(w)
  PROVE  IInv'
  <1>i. TypeOK /\ Permits /\ HoldsAt(w) /\ KidsAt(w)
        BY DEF IInv, Inner
  <1>e. Remaining(w) \in SUBSET Nat /\ Remaining(w) # {} /\ Remaining(w) \subseteq spawned[w] /\ spawned[w] \subseteq Slot
        BY <1>i, SlotFacts DEF TypeOK, Remaining, Undrained, WaitTimesOut, InTurn
  <1> DEFINE k == First(Remaining(w))
  <1>g. k \in Remaining(w)
        BY <1>e, FirstIsIn
  <1>r. /\ pc[w] = "phase2"
        /\ status' = [status EXCEPT ![w][k] = "timeout"]
        /\ child' = [child EXCEPT ![w][k] = "stopped"]
        /\ blocked' = [blocked EXCEPT ![w] = TRUE]
        /\ at' = [at EXCEPT ![w] = k + 1]
        /\ UNCHANGED <<left, batch, spawned, raising, over, strays>>
        /\ UNCHANGED pc
        /\ Give(w, k)
        BY DEF WaitTimesOut, InTurn, SetStatus, SetChild
  <1> HIDE DEF k
  <1>f. /\ k \in spawned[w] /\ k \in Slot /\ k \in 0..MaxBatch
        /\ pc[w] = "phase2"
        /\ status' = [status EXCEPT ![w][k] = "timeout"]
        /\ child' = [child EXCEPT ![w][k] = "stopped"]
        /\ blocked' = [blocked EXCEPT ![w] = TRUE]
        /\ at' = [at EXCEPT ![w] = k + 1]
        /\ UNCHANGED <<left, batch, spawned, raising, over, strays>>
        /\ UNCHANGED pc
        /\ Give(w, k)
        BY <1>e, <1>g, <1>r, SlotFacts
  <1>k. k \in 0..MaxBatch /\ Give(w, k)
        BY <1>i, <1>f, SlotFacts DEF TypeOK, HoldsAt, Holds, Spawning, limiter
  <1>p. /\ Permits'
        /\ \A u, j : <<u, j>> \in held' <=> <<u, j>> \in held /\ ~(u = w /\ j = k)
        BY <1>i, <1>k, GivePermits
  <1>o. /\ pc[w] = "phase2" /\ pc'[w] = "phase2"
        /\ batch'[w] = batch[w]
        /\ spawned'[w] = spawned[w]
        /\ status'[w] = [status[w] EXCEPT ![k] = "timeout"]
        /\ child'[w] = [child[w] EXCEPT ![k] = "stopped"]
        /\ k \in Slot /\ k \in spawned[w]
        /\ spawned[w] \subseteq Slot
        /\ DOMAIN status[w] = Slot /\ DOMAIN child[w] = 0..MaxBatch
        BY <1>i, <1>f, SlotFacts DEF TypeOK, Goto, call, limiter
  <1>s. \A u \in Worker : u # w => Same(u)
        BY <1>i, <1>f, <1>k, <1>p DEF TypeOK, Same, Goto, call, limiter
  <1>t. TypeOK'
    <2>1. status' \in [Worker -> [Slot -> Status]] /\ child' \in [Worker -> [0..MaxBatch -> Child]]
          BY <1>i, <1>f, SlotFacts DEF TypeOK, Status, Child, call, limiter
    <2>2. /\ pc' \in [Worker -> Label] /\ at' \in [Worker -> 0..MaxBatch + 1]
          /\ batch' \in [Worker -> Seq(Agent)] /\ \A u \in Worker : Len(batch'[u]) <= MaxBatch
          BY <1>i, <1>f, <1>o, SlotsAssumption, SlotFacts DEF TypeOK, Label, Goto, call, limiter
    <2>3. /\ left' \in 0..Tasks /\ spawned' \in [Worker -> SUBSET Slot] /\ over' \in [Worker -> SUBSET Slot]
          /\ blocked' \in [Worker -> BOOLEAN] /\ raising' \in [Worker -> BOOLEAN]
          /\ strays' \in SUBSET Worker
          BY <1>i, <1>f, <1>o, SlotFacts DEF TypeOK, call, limiter
    <2> QED BY <1>p, <2>1, <2>2, <2>3 DEF TypeOK, Permits
  <1>l. HoldsAt(w)'
        BY <1>i, <1>k, <1>o, <1>p, SlotFacts DEF HoldsAt, KidsAt, Holds, Spawning, Outside
  <1>m. KidsAt(w)'
        BY <1>i, <1>k, <1>o, <1>p, SlotFacts DEF HoldsAt, KidsAt, Holds, Spawning, Outside
  <1> QED BY <1>p, <1>s, <1>t, <1>l, <1>m, Frame DEF IInv

LEMMA DrainKeeps ==
  ASSUME IInv, NEW w \in Worker, Drain(w)
  PROVE  IInv'
  <1>i. TypeOK /\ Permits /\ HoldsAt(w) /\ KidsAt(w)
        BY DEF IInv, Inner
  <1>e. Undrained(w) \in SUBSET Nat /\ Undrained(w) # {} /\ Undrained(w) \subseteq spawned[w] /\ spawned[w] \subseteq Slot
        BY <1>i, SlotFacts DEF TypeOK, Remaining, Undrained, Drain, InTurn
  <1> DEFINE k == First(Undrained(w))
  <1>g. k \in Undrained(w)
        BY <1>e, FirstIsIn
  <1>r. /\ pc[w] = "finally"
        /\ IF status[w][k] = "running"
           THEN status' = [status EXCEPT ![w][k] = "terminated"] /\ child' = [child EXCEPT ![w][k] = Stopped(child[w][k])]
           ELSE UNCHANGED <<status, child>>
        /\ Stopped(child[w][k]) # "alive" /\ (Stopped(child[w][k]) \in {child[w][k], "stopped"})
        /\ UNCHANGED <<left, batch, spawned, raising, over, strays>>
        /\ UNCHANGED <<pc, at, blocked>>
        /\ Give(w, k)
        BY DEF Drain, SetStatus, SetChild, Stopped, call
  <1> HIDE DEF k
  <1>f. /\ k \in spawned[w] /\ k \in Slot /\ k \in 0..MaxBatch
        /\ pc[w] = "finally"
        /\ IF status[w][k] = "running"
           THEN status' = [status EXCEPT ![w][k] = "terminated"] /\ child' = [child EXCEPT ![w][k] = Stopped(child[w][k])]
           ELSE UNCHANGED <<status, child>>
        /\ Stopped(child[w][k]) # "alive" /\ (Stopped(child[w][k]) \in {child[w][k], "stopped"})
        /\ UNCHANGED <<left, batch, spawned, raising, over, strays>>
        /\ UNCHANGED <<pc, at, blocked>>
        /\ Give(w, k)
        BY <1>e, <1>g, <1>r, SlotFacts
  <1>k. k \in 0..MaxBatch /\ Give(w, k)
        BY <1>i, <1>f, SlotFacts DEF TypeOK, HoldsAt, Holds, Spawning, limiter
  <1>p. /\ Permits'
        /\ \A u, j : <<u, j>> \in held' <=> <<u, j>> \in held /\ ~(u = w /\ j = k)
        BY <1>i, <1>k, GivePermits
  <1>o. /\ pc[w] = "finally" /\ pc'[w] = "finally"
        /\ at'[w] = at[w] /\ batch'[w] = batch[w]
        /\ spawned'[w] = spawned[w]
        /\ IF status[w][k] = "running"
           THEN /\ status'[w] = [status[w] EXCEPT ![k] = "terminated"]
                /\ child'[w] = [child[w] EXCEPT ![k] = Stopped(child[w][k])]
           ELSE status'[w] = status[w] /\ child'[w] = child[w]
        /\ Stopped(child[w][k]) # "alive" /\ (Stopped(child[w][k]) \in {child[w][k], "stopped"})
        /\ k \in Slot /\ k \in spawned[w]
        /\ spawned[w] \subseteq Slot
        /\ DOMAIN status[w] = Slot /\ DOMAIN child[w] = 0..MaxBatch
        BY <1>i, <1>f, SlotFacts DEF TypeOK, Goto, call, limiter
  <1>s. \A u \in Worker : u # w => Same(u)
        BY <1>i, <1>f, <1>k, <1>p DEF TypeOK, Same, Goto, call, limiter
  <1>t. TypeOK'
    <2>1. status' \in [Worker -> [Slot -> Status]] /\ child' \in [Worker -> [0..MaxBatch -> Child]]
      <3>1. CASE status[w][k] = "running"
        <4>1. /\ status' = [status EXCEPT ![w][k] = "terminated"]
              /\ child' = [child EXCEPT ![w][k] = Stopped(child[w][k])]
              BY <1>f, <3>1
        <4>2. k \in Slot /\ k \in 0..MaxBatch
              BY <1>i, <1>f, <1>k DEF TypeOK
        <4>8. child \in [Worker -> [0..MaxBatch -> Child]]
              BY <1>i DEF TypeOK
        <4>9. child[w] \in [0..MaxBatch -> Child]
              BY <4>8
        <4>7. child[w][k] \in Child
              BY <4>2, <4>9
        <4>3. Stopped(child[w][k]) \in Child
              BY <1>i, <1>f, <4>2, <4>7 DEF Stopped, Child
        <4>4. status' \in [Worker -> [Slot -> Status]]
              BY <1>i, <4>1, <4>2 DEF TypeOK, Status
        <4>5. child' \in [Worker -> [0..MaxBatch -> Child]]
              BY <1>i, <4>1, <4>2, <4>3 DEF TypeOK
        <4> QED BY <4>4, <4>5
      <3>2. CASE status[w][k] # "running"
            BY <1>i, <1>f, <3>2 DEF TypeOK
      <3> QED BY <3>1, <3>2
    <2>2. /\ pc' \in [Worker -> Label] /\ at' \in [Worker -> 0..MaxBatch + 1]
          /\ batch' \in [Worker -> Seq(Agent)] /\ \A u \in Worker : Len(batch'[u]) <= MaxBatch
          BY <1>i, <1>f, <1>o, SlotsAssumption, SlotFacts DEF TypeOK, Label, Goto, call, limiter
    <2>3. /\ left' \in 0..Tasks /\ spawned' \in [Worker -> SUBSET Slot] /\ over' \in [Worker -> SUBSET Slot]
          /\ blocked' \in [Worker -> BOOLEAN] /\ raising' \in [Worker -> BOOLEAN]
          /\ strays' \in SUBSET Worker
          BY <1>i, <1>f, <1>o, SlotFacts DEF TypeOK, call, limiter
    <2> QED BY <1>p, <2>1, <2>2, <2>3 DEF TypeOK, Permits
  <1>l. HoldsAt(w)'
        BY <1>i, <1>k, <1>o, <1>p, SlotFacts DEF HoldsAt, KidsAt, Holds, Spawning, Outside
  <1>m. KidsAt(w)'
        BY <1>i, <1>k, <1>o, <1>p, SlotFacts DEF HoldsAt, KidsAt, Holds, Spawning, Outside
  <1> QED BY <1>p, <1>s, <1>t, <1>l, <1>m, Frame DEF IInv

LEMMA EndPhase2Keeps ==
  ASSUME IInv, NEW w \in Worker, EndPhase2(w)
  PROVE  IInv'
  <1>i. TypeOK /\ Permits /\ HoldsAt(w) /\ KidsAt(w)
        BY DEF IInv, Inner
  <1>p. Permits' /\ held' = held /\ free' = free
        BY <1>i DEF Permits, PermitsConserved, limiter, EndPhase2
  <1>o. /\ pc[w] = "phase2" /\ pc'[w] = "finally"
        /\ at'[w] = at[w] /\ batch'[w] = batch[w]
        /\ spawned'[w] = spawned[w]
        /\ status'[w] = status[w] /\ child'[w] = child[w]
        BY <1>i, SlotFacts DEF TypeOK, Goto, call, EndPhase2
  <1>s. \A u \in Worker : u # w => Same(u)
        BY <1>i, <1>p DEF TypeOK, Same, Goto, call, EndPhase2
  <1>t. TypeOK'
    <2>1. status' \in [Worker -> [Slot -> Status]] /\ child' \in [Worker -> [0..MaxBatch -> Child]]
          BY <1>i, SlotFacts DEF TypeOK, Status, Child, call, EndPhase2
    <2>2. /\ pc' \in [Worker -> Label] /\ at' \in [Worker -> 0..MaxBatch + 1]
          /\ batch' \in [Worker -> Seq(Agent)] /\ \A u \in Worker : Len(batch'[u]) <= MaxBatch
          BY <1>i, <1>o, SlotsAssumption, SlotFacts DEF TypeOK, Label, Goto, call, EndPhase2
    <2>3. /\ left' \in 0..Tasks /\ spawned' \in [Worker -> SUBSET Slot] /\ over' \in [Worker -> SUBSET Slot]
          /\ blocked' \in [Worker -> BOOLEAN] /\ raising' \in [Worker -> BOOLEAN]
          /\ strays' \in SUBSET Worker
          BY <1>i, <1>o, SlotFacts DEF TypeOK, call, EndPhase2
    <2> QED BY <1>p, <2>1, <2>2, <2>3 DEF TypeOK, Permits
  <1>l. HoldsAt(w)'
        BY <1>i, <1>o, <1>p, SlotFacts DEF HoldsAt, KidsAt, Holds, Spawning, Outside
  <1>m. KidsAt(w)'
        BY <1>i, <1>o, <1>p, SlotFacts DEF HoldsAt, KidsAt, Holds, Spawning, Outside
  <1> QED BY <1>p, <1>s, <1>t, <1>l, <1>m, Frame DEF IInv

\* The one session that may hold a permit outside batch_spawned is the one the
\* loop was at.
LEMMA StragglerHolds ==
  ASSUME TypeOK, NEW w \in Worker, HoldsAt(w), pc[w] = "finally", Undrained(w) = {}
  PROVE  /\ Straggler(w) \in SUBSET Nat /\ Straggler(w) \subseteq Slot
         /\ \A k \in Slot : <<w, k>> \in held => k \in Straggler(w) /\ k = at[w]
  BY SlotFacts DEF TypeOK, HoldsAt, Holds, Undrained, Straggler

LEMMA EndFinallyKeeps ==
  ASSUME IInv, NEW w \in Worker, EndFinally(w)
  PROVE  IInv'
  <1>i. TypeOK /\ Permits /\ HoldsAt(w) /\ KidsAt(w)
        BY DEF IInv, Inner
  <1>o. /\ pc[w] = "finally" /\ Undrained(w) = {} /\ pc' = [pc EXCEPT ![w] = "conclude"]
        /\ UNCHANGED <<left, batch, at, spawned, blocked, raising, status, over, strays>>
        BY DEF EndFinally, Goto, call
  <1>h. /\ Straggler(w) \in SUBSET Nat /\ Straggler(w) \subseteq Slot
        /\ \A k \in Slot : <<w, k>> \in held => k \in Straggler(w) /\ k = at[w]
        BY <1>i, <1>o, StragglerHolds
  <1>c. /\ Permits' /\ child' \in [Worker -> [0..MaxBatch -> Child]]
        /\ \A k \in 0..MaxBatch : child'[w][k] = "alive" => child[w][k] = "alive" /\ <<w, k>> \in held'
        /\ \A k \in Slot : <<w, k>> \notin held'
        /\ <<w, 0>> \in held' <=> <<w, 0>> \in held
        /\ \A u \in Worker : u # w =>
             child'[u] = child[u] /\ \A j : <<u, j>> \in held' <=> <<u, j>> \in held
    <2>1. CASE Straggler(w) = {}
          BY <1>i, <1>h, <2>1, SlotFacts DEF EndFinally, limiter, TypeOK, KidsAt, Holds, Permits, PermitsConserved
    <2>2. CASE Straggler(w) # {}
      <3> DEFINE k == First(Straggler(w))
      <3>1. k \in Straggler(w) /\ k \in Slot /\ k \in 0..MaxBatch /\ <<w, k>> \in held
            BY <1>h, <2>2, FirstIsIn, SlotFacts DEF Straggler
      <3>2. Give(w, k) /\ child' = [child EXCEPT ![w][k] = Stopped(child[w][k])]
            BY <2>2 DEF EndFinally, SetChild
      <3>3. /\ Permits'
            /\ \A u, j : <<u, j>> \in held' <=> <<u, j>> \in held /\ ~(u = w /\ j = k)
            BY <1>i, <3>1, <3>2, GivePermits
      <3>4. Stopped(child[w][k]) # "alive" /\ (Stopped(child[w][k]) \in {child[w][k], "stopped"})
            BY DEF Stopped
      <3> HIDE DEF k
      <3>5. /\ child' \in [Worker -> [0..MaxBatch -> Child]]
            /\ \A u \in Worker : u # w => child'[u] = child[u]
            /\ child'[w] = [child[w] EXCEPT ![k] = Stopped(child[w][k])]
            BY <1>i, <3>1, <3>2, <3>4 DEF TypeOK, Child
      <3>6. DOMAIN child[w] = 0..MaxBatch
            BY <1>i DEF TypeOK
      <3>7. \A j \in Slot : <<w, j>> \notin held'
            BY <1>h, <3>1, <3>3
      <3>8. \A j \in 0..MaxBatch : child'[w][j] = "alive" => child[w][j] = "alive" /\ <<w, j>> \in held'
            BY <1>i, <3>3, <3>4, <3>5, <3>6 DEF KidsAt, Holds
      <3> QED BY <3>1, <3>3, <3>5, <3>7, <3>8, SlotFacts
    <2> QED BY <2>1, <2>2
  <1>s. \A u \in Worker : u # w => Same(u)
        BY <1>i, <1>o, <1>c DEF TypeOK, Same
  <1>t. TypeOK'
        BY <1>i, <1>o, <1>c DEF TypeOK, Label, Permits
  <1>u. pc'[w] = "conclude" /\ at'[w] = at[w] /\ spawned'[w] = spawned[w] /\ status'[w] = status[w]
        BY <1>i, <1>o DEF TypeOK
  <1>l. HoldsAt(w)'
        BY <1>i, <1>o, <1>c, <1>u, SlotFacts DEF HoldsAt, Holds, Spawning, Outside
  <1>m. KidsAt(w)'
        BY <1>i, <1>o, <1>c, <1>u, SlotFacts DEF KidsAt, Holds
  <1> QED BY <1>c, <1>s, <1>t, <1>l, <1>m, Frame DEF IInv

LEMMA ConcludeKeeps ==
  ASSUME IInv, NEW w \in Worker, Conclude(w)
  PROVE  IInv'
  <1>i. TypeOK /\ Permits /\ HoldsAt(w) /\ KidsAt(w)
        BY DEF IInv, Inner
  <1>p. Permits' /\ held' = held /\ free' = free
        BY <1>i DEF Permits, PermitsConserved, limiter, Conclude, NoSession, NoChild
  <1>o. /\ pc[w] = "conclude" /\ pc'[w] \in {"idle", "patch"}
        /\ at'[w] = 0 /\ spawned'[w] = {}
        /\ \A k \in 0..MaxBatch : child'[w][k] = "none"
        BY <1>i, SlotFacts DEF TypeOK, Goto, call, Conclude, NoSession, NoChild
  <1>s. \A u \in Worker : u # w => Same(u)
        BY <1>i, <1>p DEF TypeOK, Same, Goto, call, Conclude, NoSession, NoChild
  <1>t. TypeOK'
    <2>1. status' \in [Worker -> [Slot -> Status]] /\ child' \in [Worker -> [0..MaxBatch -> Child]]
          BY <1>i, SlotFacts DEF TypeOK, Status, Child, call, Conclude, NoSession, NoChild
    <2>2. /\ pc' \in [Worker -> Label] /\ at' \in [Worker -> 0..MaxBatch + 1]
          /\ batch' \in [Worker -> Seq(Agent)] /\ \A u \in Worker : Len(batch'[u]) <= MaxBatch
          BY <1>i, <1>o, SlotsAssumption, SlotFacts DEF TypeOK, Label, Goto, call, Conclude, NoSession, NoChild
    <2>3. /\ left' \in 0..Tasks /\ spawned' \in [Worker -> SUBSET Slot] /\ over' \in [Worker -> SUBSET Slot]
          /\ blocked' \in [Worker -> BOOLEAN] /\ raising' \in [Worker -> BOOLEAN]
          /\ strays' \in SUBSET Worker
          BY <1>i, <1>o, SlotFacts DEF TypeOK, call, Conclude, NoSession, NoChild
    <2> QED BY <1>p, <2>1, <2>2, <2>3 DEF TypeOK, Permits
  <1>l. HoldsAt(w)'
        BY <1>i, <1>o, <1>p, SlotFacts DEF HoldsAt, KidsAt, Holds, Spawning, Outside
  <1>m. KidsAt(w)'
        BY <1>i, <1>o, <1>p, SlotFacts DEF HoldsAt, KidsAt, Holds, Spawning, Outside
  <1> QED BY <1>p, <1>s, <1>t, <1>l, <1>m, Frame DEF IInv

LEMMA PatchSlotKeeps ==
  ASSUME IInv, NEW w \in Worker, PatchSlot(w)
  PROVE  IInv'
  <1>i. TypeOK /\ Permits /\ HoldsAt(w) /\ KidsAt(w)
        BY DEF IInv, Inner
  <1>k. 0 \in 0..MaxBatch /\ <<w, 0>> \notin held /\ Take(w, 0)
        BY <1>i, SlotFacts DEF TypeOK, HoldsAt, Holds, Spawning, PatchSlot
  <1>p. /\ Permits'
        /\ \A u, j : <<u, j>> \in held' <=> <<u, j>> \in held \/ (u = w /\ j = 0)
        BY <1>i, <1>k, TakePermits
  <1>o. /\ pc[w] = "patch" /\ pc'[w] = "patching"
        /\ at'[w] = at[w] /\ batch'[w] = batch[w]
        /\ spawned'[w] = spawned[w]
        /\ status'[w] = status[w] /\ child'[w] = child[w]
        BY <1>i, SlotFacts DEF TypeOK, Goto, call, PatchSlot
  <1>s. \A u \in Worker : u # w => Same(u)
        BY <1>i, <1>k, <1>p DEF TypeOK, Same, Goto, call, PatchSlot
  <1>t. TypeOK'
    <2>1. status' \in [Worker -> [Slot -> Status]] /\ child' \in [Worker -> [0..MaxBatch -> Child]]
          BY <1>i, SlotFacts DEF TypeOK, Status, Child, call, PatchSlot
    <2>2. /\ pc' \in [Worker -> Label] /\ at' \in [Worker -> 0..MaxBatch + 1]
          /\ batch' \in [Worker -> Seq(Agent)] /\ \A u \in Worker : Len(batch'[u]) <= MaxBatch
          BY <1>i, <1>o, SlotsAssumption, SlotFacts DEF TypeOK, Label, Goto, call, PatchSlot
    <2>3. /\ left' \in 0..Tasks /\ spawned' \in [Worker -> SUBSET Slot] /\ over' \in [Worker -> SUBSET Slot]
          /\ blocked' \in [Worker -> BOOLEAN] /\ raising' \in [Worker -> BOOLEAN]
          /\ strays' \in SUBSET Worker
          BY <1>i, <1>o, SlotFacts DEF TypeOK, call, PatchSlot
    <2> QED BY <1>p, <2>1, <2>2, <2>3 DEF TypeOK, Permits
  <1>l. HoldsAt(w)'
        BY <1>i, <1>k, <1>o, <1>p, SlotFacts DEF HoldsAt, KidsAt, Holds, Spawning, Outside
  <1>m. KidsAt(w)'
        BY <1>i, <1>k, <1>o, <1>p, SlotFacts DEF HoldsAt, KidsAt, Holds, Spawning, Outside
  <1> QED BY <1>p, <1>s, <1>t, <1>l, <1>m, Frame DEF IInv

LEMMA PatchSpawnKeeps ==
  ASSUME IInv, NEW w \in Worker, PatchSpawn(w)
  PROVE  IInv'
  <1>i. TypeOK /\ Permits /\ HoldsAt(w) /\ KidsAt(w)
        BY DEF IInv, Inner
  <1>p. Permits' /\ held' = held /\ free' = free
        BY <1>i DEF Permits, PermitsConserved, limiter, PatchSpawn, SetChild
  <1>o. /\ pc[w] = "patching" /\ pc'[w] = "patchwait"
        /\ at'[w] = at[w] /\ batch'[w] = batch[w]
        /\ spawned'[w] = spawned[w]
        /\ status'[w] = status[w]
        /\ DOMAIN status[w] = Slot /\ DOMAIN child[w] = 0..MaxBatch
        /\ child'[w] = [child[w] EXCEPT ![0] = "alive"]
        BY <1>i, SlotFacts DEF TypeOK, Goto, call, PatchSpawn, SetChild
  <1>s. \A u \in Worker : u # w => Same(u)
        BY <1>i, <1>p DEF TypeOK, Same, Goto, call, PatchSpawn, SetChild
  <1>t. TypeOK'
    <2>1. status' \in [Worker -> [Slot -> Status]] /\ child' \in [Worker -> [0..MaxBatch -> Child]]
          BY <1>i, SlotFacts DEF TypeOK, Status, Child, call, PatchSpawn, SetChild
    <2>2. /\ pc' \in [Worker -> Label] /\ at' \in [Worker -> 0..MaxBatch + 1]
          /\ batch' \in [Worker -> Seq(Agent)] /\ \A u \in Worker : Len(batch'[u]) <= MaxBatch
          BY <1>i, <1>o, SlotsAssumption, SlotFacts DEF TypeOK, Label, Goto, call, PatchSpawn, SetChild
    <2>3. /\ left' \in 0..Tasks /\ spawned' \in [Worker -> SUBSET Slot] /\ over' \in [Worker -> SUBSET Slot]
          /\ blocked' \in [Worker -> BOOLEAN] /\ raising' \in [Worker -> BOOLEAN]
          /\ strays' \in SUBSET Worker
          BY <1>i, <1>o, SlotFacts DEF TypeOK, call, PatchSpawn, SetChild
    <2> QED BY <1>p, <2>1, <2>2, <2>3 DEF TypeOK, Permits
  <1>l. HoldsAt(w)'
        BY <1>i, <1>o, <1>p, SlotFacts DEF HoldsAt, KidsAt, Holds, Spawning, Outside
  <1>m. KidsAt(w)'
        BY <1>i, <1>o, <1>p, SlotFacts DEF HoldsAt, KidsAt, Holds, Spawning, Outside
  <1> QED BY <1>p, <1>s, <1>t, <1>l, <1>m, Frame DEF IInv

LEMMA PatchSpawnFailsKeeps ==
  ASSUME IInv, NEW w \in Worker, PatchSpawnFails(w)
  PROVE  IInv'
  <1>i. TypeOK /\ Permits /\ HoldsAt(w) /\ KidsAt(w)
        BY DEF IInv, Inner
  <1>k. 0 \in 0..MaxBatch /\ Give(w, 0)
        BY <1>i, SlotFacts DEF TypeOK, HoldsAt, Holds, Spawning, PatchSpawnFails, PatchOver
  <1>p. /\ Permits'
        /\ \A u, j : <<u, j>> \in held' <=> <<u, j>> \in held /\ ~(u = w /\ j = 0)
        BY <1>i, <1>k, GivePermits
  <1>o. /\ pc[w] = "patching" /\ pc'[w] \in {"idle", "patch"}
        /\ batch'[w] = batch[w]
        /\ spawned'[w] = spawned[w]
        /\ status'[w] = status[w] /\ child'[w] = child[w]
        /\ at' \in {at, [at EXCEPT ![w] = 1]}
        BY <1>i, SlotFacts DEF TypeOK, Goto, call, PatchSpawnFails, PatchOver
  <1>s. \A u \in Worker : u # w => Same(u)
        BY <1>i, <1>k, <1>p DEF TypeOK, Same, Goto, call, PatchSpawnFails, PatchOver
  <1>t. TypeOK'
    <2>1. status' \in [Worker -> [Slot -> Status]] /\ child' \in [Worker -> [0..MaxBatch -> Child]]
          BY <1>i, SlotFacts DEF TypeOK, Status, Child, call, PatchSpawnFails, PatchOver
    <2>4. pc' \in [Worker -> Label] /\ batch' = batch
          BY <1>i DEF TypeOK, Label, Goto, PatchSpawnFails, PatchOver
    <2>5. 1 \in 0..MaxBatch + 1
          BY SlotFacts
    <2>2. /\ pc' \in [Worker -> Label] /\ at' \in [Worker -> 0..MaxBatch + 1]
          /\ batch' \in [Worker -> Seq(Agent)] /\ \A u \in Worker : Len(batch'[u]) <= MaxBatch
          BY <1>i, <1>o, <2>4, <2>5 DEF TypeOK
    <2>3. /\ left' \in 0..Tasks /\ spawned' \in [Worker -> SUBSET Slot] /\ over' \in [Worker -> SUBSET Slot]
          /\ blocked' \in [Worker -> BOOLEAN] /\ raising' \in [Worker -> BOOLEAN]
          /\ strays' \in SUBSET Worker
          BY <1>i, <1>o, SlotFacts DEF TypeOK, call, PatchSpawnFails, PatchOver
    <2> QED BY <1>p, <2>1, <2>2, <2>3 DEF TypeOK, Permits
  <1>l. HoldsAt(w)'
        BY <1>i, <1>k, <1>o, <1>p, SlotFacts DEF HoldsAt, KidsAt, Holds, Spawning, Outside
  <1>m. KidsAt(w)'
        BY <1>i, <1>k, <1>o, <1>p, SlotFacts DEF HoldsAt, KidsAt, Holds, Spawning, Outside
  <1> QED BY <1>p, <1>s, <1>t, <1>l, <1>m, Frame DEF IInv

LEMMA PatchEndsKeeps ==
  ASSUME IInv, NEW w \in Worker, PatchEnds(w)
  PROVE  IInv'
  <1>i. TypeOK /\ Permits /\ HoldsAt(w) /\ KidsAt(w)
        BY DEF IInv, Inner
  <1>k. 0 \in 0..MaxBatch /\ Give(w, 0)
        BY <1>i, SlotFacts DEF TypeOK, HoldsAt, Holds, Spawning, PatchEnds, PatchOver, SetChild
  <1>p. /\ Permits'
        /\ \A u, j : <<u, j>> \in held' <=> <<u, j>> \in held /\ ~(u = w /\ j = 0)
        BY <1>i, <1>k, GivePermits
  <1>o. /\ pc[w] = "patchwait" /\ pc'[w] \in {"idle", "patch"}
        /\ batch'[w] = batch[w]
        /\ spawned'[w] = spawned[w]
        /\ status'[w] = status[w]
        /\ DOMAIN status[w] = Slot /\ DOMAIN child[w] = 0..MaxBatch
        /\ child'[w] = [child[w] EXCEPT ![0] = "none"]
        /\ at' \in {at, [at EXCEPT ![w] = 1]}
        BY <1>i, SlotFacts DEF TypeOK, Goto, call, PatchEnds, PatchOver, SetChild
  <1>s. \A u \in Worker : u # w => Same(u)
        BY <1>i, <1>k, <1>p DEF TypeOK, Same, Goto, call, PatchEnds, PatchOver, SetChild
  <1>t. TypeOK'
    <2>1. status' \in [Worker -> [Slot -> Status]] /\ child' \in [Worker -> [0..MaxBatch -> Child]]
          BY <1>i, SlotFacts DEF TypeOK, Status, Child, call, PatchEnds, PatchOver, SetChild
    <2>4. pc' \in [Worker -> Label] /\ batch' = batch
          BY <1>i DEF TypeOK, Label, Goto, PatchEnds, PatchOver, SetChild
    <2>5. 1 \in 0..MaxBatch + 1
          BY SlotFacts
    <2>2. /\ pc' \in [Worker -> Label] /\ at' \in [Worker -> 0..MaxBatch + 1]
          /\ batch' \in [Worker -> Seq(Agent)] /\ \A u \in Worker : Len(batch'[u]) <= MaxBatch
          BY <1>i, <1>o, <2>4, <2>5 DEF TypeOK
    <2>3. /\ left' \in 0..Tasks /\ spawned' \in [Worker -> SUBSET Slot] /\ over' \in [Worker -> SUBSET Slot]
          /\ blocked' \in [Worker -> BOOLEAN] /\ raising' \in [Worker -> BOOLEAN]
          /\ strays' \in SUBSET Worker
          BY <1>i, <1>o, SlotFacts DEF TypeOK, call, PatchEnds, PatchOver, SetChild
    <2> QED BY <1>p, <2>1, <2>2, <2>3 DEF TypeOK, Permits
  <1>l. HoldsAt(w)'
        BY <1>i, <1>k, <1>o, <1>p, SlotFacts DEF HoldsAt, KidsAt, Holds, Spawning, Outside
  <1>m. KidsAt(w)'
        BY <1>i, <1>k, <1>o, <1>p, SlotFacts DEF HoldsAt, KidsAt, Holds, Spawning, Outside
  <1> QED BY <1>p, <1>s, <1>t, <1>l, <1>m, Frame DEF IInv

LEMMA ChildEndsKeeps ==
  ASSUME IInv, NEW w \in Worker, NEW k \in 0..MaxBatch, ChildEnds(w, k)
  PROVE  IInv'
  <1>i. TypeOK /\ Permits /\ HoldsAt(w) /\ KidsAt(w)
        BY DEF IInv, Inner
  <1>p. Permits' /\ held' = held /\ free' = free
        BY <1>i DEF Permits, PermitsConserved, limiter, ChildEnds, SetChild
  <1>o. /\ pc'[w] = pc[w]
        /\ at'[w] = at[w] /\ batch'[w] = batch[w]
        /\ spawned'[w] = spawned[w]
        /\ status'[w] = status[w]
        /\ DOMAIN status[w] = Slot /\ DOMAIN child[w] = 0..MaxBatch
        /\ child[w][k] = "alive" /\ \E x \in {"ok", "bad"} : child'[w] = [child[w] EXCEPT ![k] = x]
        BY <1>i, SlotFacts DEF TypeOK, Goto, call, ChildEnds, SetChild
  <1>s. \A u \in Worker : u # w => Same(u)
        BY <1>i, <1>p DEF TypeOK, Same, Goto, call, ChildEnds, SetChild
  <1>t. TypeOK'
    <2>1. status' \in [Worker -> [Slot -> Status]] /\ child' \in [Worker -> [0..MaxBatch -> Child]]
          BY <1>i, SlotFacts DEF TypeOK, Status, Child, call, ChildEnds, SetChild
    <2>2. /\ pc' \in [Worker -> Label] /\ at' \in [Worker -> 0..MaxBatch + 1]
          /\ batch' \in [Worker -> Seq(Agent)] /\ \A u \in Worker : Len(batch'[u]) <= MaxBatch
          BY <1>i, <1>o, SlotsAssumption, SlotFacts DEF TypeOK, Label, Goto, call, ChildEnds, SetChild
    <2>3. /\ left' \in 0..Tasks /\ spawned' \in [Worker -> SUBSET Slot] /\ over' \in [Worker -> SUBSET Slot]
          /\ blocked' \in [Worker -> BOOLEAN] /\ raising' \in [Worker -> BOOLEAN]
          /\ strays' \in SUBSET Worker
          BY <1>i, <1>o, SlotFacts DEF TypeOK, call, ChildEnds, SetChild
    <2> QED BY <1>p, <2>1, <2>2, <2>3 DEF TypeOK, Permits
  <1>l. HoldsAt(w)'
        BY <1>i, <1>o, <1>p, SlotFacts DEF HoldsAt, KidsAt, Holds, Spawning, Outside
  <1>m. KidsAt(w)'
        BY <1>i, <1>o, <1>p, SlotFacts DEF HoldsAt, KidsAt, Holds, Spawning, Outside
  <1> QED BY <1>p, <1>s, <1>t, <1>l, <1>m, Frame DEF IInv

LEMMA OverBudgetKeeps ==
  ASSUME IInv, NEW w \in Worker, NEW k \in Slot, OverBudget(w, k)
  PROVE  IInv'
  <1>i. TypeOK /\ Permits /\ HoldsAt(w) /\ KidsAt(w)
        BY DEF IInv, Inner
  <1>p. Permits' /\ held' = held /\ free' = free
        BY <1>i DEF Permits, PermitsConserved, limiter, OverBudget, SetChild, Stopped
  <1>o. /\ pc'[w] = pc[w]
        /\ at'[w] = at[w] /\ batch'[w] = batch[w]
        /\ spawned'[w] = spawned[w]
        /\ status'[w] = status[w]
        /\ DOMAIN status[w] = Slot /\ DOMAIN child[w] = 0..MaxBatch
        /\ child'[w] = [child[w] EXCEPT ![k] = Stopped(child[w][k])]
        /\ Stopped(child[w][k]) # "alive" /\ (Stopped(child[w][k]) \in {child[w][k], "stopped"})
        BY <1>i, SlotFacts DEF TypeOK, Goto, call, OverBudget, SetChild, Stopped
  <1>s. \A u \in Worker : u # w => Same(u)
        BY <1>i, <1>p DEF TypeOK, Same, Goto, call, OverBudget, SetChild, Stopped
  <1>t. TypeOK'
    <2>1. status' \in [Worker -> [Slot -> Status]] /\ child' \in [Worker -> [0..MaxBatch -> Child]]
          BY <1>i, SlotFacts DEF TypeOK, Status, Child, call, OverBudget, SetChild, Stopped
    <2>2. /\ pc' \in [Worker -> Label] /\ at' \in [Worker -> 0..MaxBatch + 1]
          /\ batch' \in [Worker -> Seq(Agent)] /\ \A u \in Worker : Len(batch'[u]) <= MaxBatch
          BY <1>i, <1>o, SlotsAssumption, SlotFacts DEF TypeOK, Label, Goto, call, OverBudget, SetChild, Stopped
    <2>3. /\ left' \in 0..Tasks /\ spawned' \in [Worker -> SUBSET Slot] /\ over' \in [Worker -> SUBSET Slot]
          /\ blocked' \in [Worker -> BOOLEAN] /\ raising' \in [Worker -> BOOLEAN]
          /\ strays' \in SUBSET Worker
          BY <1>i, <1>o, SlotFacts DEF TypeOK, call, OverBudget, SetChild, Stopped
    <2> QED BY <1>p, <2>1, <2>2, <2>3 DEF TypeOK, Permits
  <1>l. HoldsAt(w)'
        BY <1>i, <1>o, <1>p, SlotFacts DEF HoldsAt, KidsAt, Holds, Spawning, Outside
  <1>m. KidsAt(w)'
        BY <1>i, <1>o, <1>p, SlotFacts DEF HoldsAt, KidsAt, Holds, Spawning, Outside
  <1> QED BY <1>p, <1>s, <1>t, <1>l, <1>m, Frame DEF IInv

LEMMA StrayEndsKeeps ==
  ASSUME IInv, NEW w \in Worker, StrayEnds(w)
  PROVE  IInv'
  <1>i. TypeOK /\ Permits /\ HoldsAt(w) /\ KidsAt(w)
        BY DEF IInv, Inner
  <1>p. Permits' /\ held' = held /\ free' = free
        BY <1>i DEF Permits, PermitsConserved, limiter, StrayEnds
  <1>o. /\ pc'[w] = pc[w]
        /\ at'[w] = at[w] /\ batch'[w] = batch[w]
        /\ spawned'[w] = spawned[w]
        /\ status'[w] = status[w] /\ child'[w] = child[w]
        BY <1>i, SlotFacts DEF TypeOK, Goto, call, StrayEnds
  <1>s. \A u \in Worker : u # w => Same(u)
        BY <1>i, <1>p DEF TypeOK, Same, Goto, call, StrayEnds
  <1>t. TypeOK'
    <2>1. status' \in [Worker -> [Slot -> Status]] /\ child' \in [Worker -> [0..MaxBatch -> Child]]
          BY <1>i, SlotFacts DEF TypeOK, Status, Child, call, StrayEnds
    <2>2. /\ pc' \in [Worker -> Label] /\ at' \in [Worker -> 0..MaxBatch + 1]
          /\ batch' \in [Worker -> Seq(Agent)] /\ \A u \in Worker : Len(batch'[u]) <= MaxBatch
          BY <1>i, <1>o, SlotsAssumption, SlotFacts DEF TypeOK, Label, Goto, call, StrayEnds
    <2>3. /\ left' \in 0..Tasks /\ spawned' \in [Worker -> SUBSET Slot] /\ over' \in [Worker -> SUBSET Slot]
          /\ blocked' \in [Worker -> BOOLEAN] /\ raising' \in [Worker -> BOOLEAN]
          /\ strays' \in SUBSET Worker
          BY <1>i, <1>o, SlotFacts DEF TypeOK, call, StrayEnds
    <2> QED BY <1>p, <2>1, <2>2, <2>3 DEF TypeOK, Permits
  <1>l. HoldsAt(w)'
        BY <1>i, <1>o, <1>p, SlotFacts DEF HoldsAt, KidsAt, Holds, Spawning, Outside
  <1>m. KidsAt(w)'
        BY <1>i, <1>o, <1>p, SlotFacts DEF HoldsAt, KidsAt, Holds, Spawning, Outside
  <1> QED BY <1>p, <1>s, <1>t, <1>l, <1>m, Frame DEF IInv

LEMMA StutterKeeps ==
  ASSUME IInv, UNCHANGED vars
  PROVE  IInv'
  <1>1. \A w \in Worker : Same(w)
        BY DEF vars, call, limiter, Same
  <1>2. Inner'
    <2> SUFFICES ASSUME NEW w \in Worker PROVE (HoldsAt(w) /\ KidsAt(w))'
        BY DEF Inner
    <2> QED BY <1>1 DEF IInv, Inner, Same, HoldsAt, KidsAt, Holds
  <1> QED BY <1>2 DEF IInv, TypeOK, Permits, PermitsConserved, vars, call, limiter

LEMMA StepKeeps == IInv /\ [Next]_vars => IInv'
  <1> SUFFICES ASSUME IInv, [Next]_vars PROVE IInv'
      OBVIOUS
  <1>1. ASSUME NEW w \in Worker, Cycle(w) PROVE IInv'
        BY <1>1, CreateTreeKeeps, TreeCreatedKeeps, PlanCallKeeps, StartTurnKeeps, EndTurnKeeps,
           AcquireKeeps, SpawnKeeps, SpawnFailsKeeps, ReaderFailsKeeps, EndPhase1Keeps,
           BreakOffKeeps, ReapKeeps, WaitTimesOutKeeps, EndPhase2Keeps, DrainKeeps,
           EndFinallyKeeps, ConcludeKeeps, PatchSlotKeeps, PatchSpawnKeeps,
           PatchSpawnFailsKeeps, PatchEndsKeeps DEF Cycle
  <1>2. ASSUME NEW w \in Worker, StartCycle(w) \/ StrayEnds(w) PROVE IInv'
        BY <1>2, StartCycleKeeps, StrayEndsKeeps
  <1>3. ASSUME NEW w \in Worker, NEW k \in 0..MaxBatch, ChildEnds(w, k) PROVE IInv'
        BY <1>3, ChildEndsKeeps
  <1>4. ASSUME NEW w \in Worker, NEW k \in Slot, OverBudget(w, k) PROVE IInv'
        BY <1>4, OverBudgetKeeps
  <1> QED BY <1>1, <1>2, <1>3, <1>4, StutterKeeps DEF Next
-----------------------------------------------------------------------------
\* Every reachable state satisfies the inductive invariant.
THEOREM Inductive == Spec => []IInv
  BY InitHolds, StepKeeps, PTL DEF Spec

\* The semaphore stays within its bounds, and the records of every call are of
\* their types.
THEOREM TypeCorrect == Spec => []TypeOK
  BY Inductive, PTL DEF IInv

\* No acquired slot is ever leaked and none is given back twice.
THEOREM NoPermitLeaks == Spec => []PermitsConserved
  BY Inductive, PTL DEF IInv, Permits

\* Every running child of a call is paid for by a permit of its own.
THEOREM ChildrenArePaid == Spec => []ChildrenHavePermits
  <1>1. IInv => ChildrenHavePermits
        BY DEF IInv, Inner, KidsAt, Holds, ChildrenHavePermits
  <1> QED BY Inductive, <1>1, PTL

\* A call that is over holds no permit and has left no child running.
THEOREM CallsCleanUp == Spec => []NothingLeftBehind
  <1>1. IInv => NothingLeftBehind
    <2> SUFFICES ASSUME IInv, NEW w \in Worker, pc[w] \in {"conclude", "idle", "patch"},
                        NEW k \in 0..MaxBatch
                 PROVE  <<w, k>> \notin held /\ child[w][k] # "alive"
        BY DEF NothingLeftBehind
    <2>1. k = 0 \/ k \in Slot
          BY SlotFacts
    <2>2. HoldsAt(w) /\ KidsAt(w)
          BY DEF IInv, Inner
    <2>3. <<w, k>> \notin held
          BY <2>1, <2>2 DEF HoldsAt, Holds, Outside
    <2> QED BY <2>2, <2>3 DEF KidsAt, Holds
  <1> QED BY Inductive, <1>1, PTL
-----------------------------------------------------------------------------
(* Hold and wait *)

\* Where a worker may have to wait in acquire().
AtAcquire(w) ==
  \/ pc[w] \in {"create", "patch"}
  \/ pc[w] = "phase1" /\ at[w] \in 1..Len(batch[w])

\* More permits than the workers can hold between them while each of them waits
\* for one more.
EnoughPermits == M > Cardinality(Worker) * (MaxBatch - 1)

\* When no permit is free, one is held by a worker that waits for none.
SomebodyGoesOn ==
  free = 0 => \E w \in Worker : ~AtAcquire(w) /\ \E k \in 0..MaxBatch : <<w, k>> \in held

\* Phase 1 holds permits while it waits for the next: with enough of them the
\* workers of a pool never all wait for each other, however they interleave
\* (the safety half of CycleEnds, for every pool, ceiling and batch).
THEOREM NobodyWaitsInACircle ==
  ASSUME EnoughPermits
  PROVE  Spec => []SomebodyGoesOn
  <1>1. ASSUME IInv, free = 0,
               \A w \in Worker : AtAcquire(w) \/ \A k \in 0..MaxBatch : <<w, k>> \notin held
        PROVE  FALSE
    <2> DEFINE few == 1..(MaxBatch - 1)
    <2>1. held \subseteq Worker \X few
      <3> SUFFICES ASSUME NEW w \in Worker, NEW k \in 0..MaxBatch, <<w, k>> \in held
                   PROVE  k \in few
          BY <1>1 DEF IInv, Permits
      <3>1. AtAcquire(w) /\ HoldsAt(w)
            BY <1>1 DEF IInv, Inner
      <3>2. k # 0 /\ k \in Slot
            BY <3>1, SlotFacts DEF HoldsAt, Holds, AtAcquire
      <3>3. pc[w] = "phase1" /\ at[w] \in 1..Len(batch[w])
        <4>1. pc[w] \in {"create", "patch"} => FALSE
              BY <3>1, <3>2 DEF HoldsAt, Holds, Outside
        <4> QED BY <3>1, <4>1 DEF AtAcquire
      <3>4. k < at[w]
            BY <3>1, <3>2, <3>3 DEF HoldsAt, Holds, Spawning
      <3>5. Len(batch[w]) <= MaxBatch /\ batch[w] \in Seq(Agent)
            BY <1>1 DEF IInv, TypeOK
      <3>6. Len(batch[w]) \in Nat
            BY <3>5
      <3> QED BY <3>2, <3>3, <3>4, <3>5, <3>6, SlotFacts
    <2>2. /\ IsFiniteSet(Worker) /\ IsFiniteSet(few)
          /\ Cardinality(few) = MaxBatch - 1
          BY SlotsAssumption, SlotFacts, FS_Interval
    <2>3. /\ IsFiniteSet(Worker \X few)
          /\ Cardinality(Worker \X few) = Cardinality(Worker) * (MaxBatch - 1)
          BY <2>2, FS_Product
    <2>4. Cardinality(held) <= Cardinality(Worker) * (MaxBatch - 1)
          BY <2>1, <2>3, FS_Subset
    <2>5. Cardinality(held) = M
      <3>1. Cardinality(held) \in Nat
            BY <1>1, HeldFinite, FS_CardinalityType DEF IInv, Permits
      <3> QED BY <1>1, <3>1, SlotFacts DEF IInv, Permits, PermitsConserved
    <2>6. Cardinality(Worker) * (MaxBatch - 1) \in Nat
          BY <2>2, <2>3, FS_CardinalityType
    <2> QED BY <2>4, <2>5, <2>6, SlotFacts DEF EnoughPermits
  <1>2. IInv => SomebodyGoesOn
        BY <1>1 DEF SomebodyGoesOn
  <1> QED BY <1>2, Inductive, PTL
=============================================================================
