------------------------- MODULE ActiveLeasesProofs -------------------------
(***************************************************************************)
(* The leases for any tasks, claims, pool size, term and clock: live       *)
(* leases are disjoint, a lane keeps its lease and gives it back, and what *)
(* it proposes lies within its own task's claim.                           *)
(***************************************************************************)
EXTENDS ActiveLeases, FiniteSetTheorems, WellFoundedInduction, TLAPS

\* A lease claims its task's files, ends within its term, and is labelled
\* otherwise than active only when it has expired.
WellMade ==
  \A i \in DOMAIN leases :
    /\ leases[i].files = Claim[leases[i].task]
    /\ leases[i].expires <= now + Ttl
    /\ leases[i].status # "active" => Expired(leases[i])

\* The lease that w's cycle claimed is active until it expires, and while w's
\* lane is at work its agent holds it.
Stands(w) ==
  ClaimsFiles(cyc[w].task) /\ pc[w] # "idle" /\ now <= cyc[w].until =>
    \E i \in DOMAIN leases :
      /\ leases[i].task = cyc[w].task /\ leases[i].status = "active"
      /\ leases[i].expires = cyc[w].until
      /\ pc[w] \in InLane => leases[i].agent = cyc[w].agent

ClaimsStand == pool => \A w \in Worker : Stands(w)

\* A patch is proposed against the files of its own task, wherever the lane is.
Scoped ==
  pool => \A w \in Worker :
    cyc[w].verdict = "proposed" /\ now <= cyc[w].until =>
      Claim[cyc[w].task] = {} \/ cyc[w].diff \subseteq Claim[cyc[w].task]

\* The lease a lane will give back is the one that is held.
Returnable ==
  crashes = 0 =>
    \A i \in DOMAIN leases :
      leases[i].agent # Free /\ ~Expired(leases[i]) /\ (pool => ClaimsFiles(leases[i].task)) =>
        \E w \in Worker : /\ pc[w] \in InLane /\ cyc[w].agent = leases[i].agent
                          /\ i \in Mine(w) /\ i = First(Mine(w))

IInv == TypeOK /\ WellMade /\ ClaimsDisjoint /\ ClaimsStand /\ Scoped /\ Returnable
-----------------------------------------------------------------------------
(* Positions *)

\* First is the least position of a set.
LEMMA FirstIsLeast ==
  ASSUME NEW S \in SUBSET Nat, S # {}
  PROVE  First(S) \in S /\ \A i \in S : First(S) <= i
  <1> DEFINE R == {ss \in Nat \X Nat : ss[1] < ss[2]}
  <1>1. IsWellFoundedOn(R, Nat)
    <2>1. OpToRel(<, Nat) = R
          BY DEF OpToRel
    <2>2. QED
          BY <2>1, NatLessThanWellFounded
  <1>2. PICK i \in S : \A j \in S : ~(<<j, i>> \in R)
    <2> HIDE DEF R
    <2> QED BY <1>1, WFMin
  <1>3. \A j \in S : i <= j
    <2> SUFFICES ASSUME NEW j \in S PROVE i <= j
        OBVIOUS
    <2>1. <<j, i>> \notin R /\ <<j, i>> \in Nat \X Nat /\ <<j, i>>[1] = j /\ <<j, i>>[2] = i
          BY <1>2
    <2>2. ~(j < i)
          BY <2>1
    <2>3. QED
          BY <2>2
  <1>4. QED
        BY <1>3 DEF First

\* Every number up to the size of a set of positions is the rank of one of them.
LEMMA RankFacts ==
  ASSUME NEW S \in SUBSET Nat, IsFiniteSet(S)
  PROVE  /\ Cardinality(S) \in Nat
         /\ \A i \in S : Rank(S, i) \in 1..Cardinality(S)
         /\ \A i, j \in S : Rank(S, i) = Rank(S, j) => i = j
         /\ \A n \in 1..Cardinality(S) : \E i \in S : Rank(S, i) = n
  <1> DEFINE upTo(i) == {j \in S : j <= i}
             rank == [i \in S |-> Rank(S, i)]
  <1>1. Cardinality(S) \in Nat
        BY FS_CardinalityType
  <1>2. ASSUME NEW i \in S
        PROVE  /\ IsFiniteSet(upTo(i)) /\ i \in upTo(i)
               /\ Rank(S, i) = Cardinality(upTo(i))
               /\ Rank(S, i) \in 1..Cardinality(S)
    <2>1. upTo(i) \in SUBSET S /\ i \in upTo(i) /\ upTo(i) # {}
          OBVIOUS
    <2>2. Rank(S, i) = Cardinality(upTo(i))
          BY DEF Rank
    <2> HIDE DEF upTo
    <2>3. IsFiniteSet(upTo(i)) /\ Cardinality(upTo(i)) <= Cardinality(S)
          BY <2>1, FS_Subset
    <2>4. Cardinality(upTo(i)) \in Nat /\ Cardinality(upTo(i)) # 0
          BY <2>1, <2>3, FS_CardinalityType, FS_EmptySet
    <2>5. QED
          BY <1>1, <2>1, <2>2, <2>3, <2>4
  <1>3. ASSUME NEW i \in S, NEW j \in S, i < j
        PROVE  Rank(S, i) # Rank(S, j)
    <2>1. upTo(i) \in SUBSET upTo(j) /\ j \in upTo(j) /\ j \notin upTo(i)
      <3>1. i \in Nat /\ j \in Nat /\ ~(j <= i) /\ j <= j
            BY <1>3
      <3>2. \A k \in S : k <= i => k <= j
            BY <1>3, <3>1
      <3>3. QED
            BY <3>1, <3>2
    <2> HIDE DEF upTo
    <2>2. QED
          BY <1>2, <2>1, FS_Subset
  <1>4. \A i, j \in S : Rank(S, i) = Rank(S, j) => i = j
    <2>1. \A i, j \in S : i = j \/ i < j \/ j < i
          OBVIOUS
    <2>2. QED
          BY <1>3, <2>1
  <1>5. rank \in Injection(S, 1..Cardinality(S))
        BY <1>2, <1>4 DEF Injection, IsInjective
  <1>6. IsFiniteSet(1..Cardinality(S)) /\ Cardinality(1..Cardinality(S)) = Cardinality(S)
        BY <1>1, FS_Interval
  <1>7. rank \in Surjection(S, 1..Cardinality(S))
    <2> HIDE DEF rank
    <2> QED BY <1>5, <1>6, FS_Injection
  <1>8. \A n \in 1..Cardinality(S) : \E i \in S : Rank(S, i) = n
        BY <1>7 DEF Surjection
  <1>9. QED
        BY <1>1, <1>2, <1>4, <1>8
-----------------------------------------------------------------------------
(* What a claim does to the leases *)

LEMMA LeaseTypes ==
  /\ NoCycle \in CycleLocals
  /\ \A l \in Lease : Live(l) <=> l.status # "expired"
  <1>1. (CHOOSE t \in Task : TRUE) \in Task
        BY LeasesAssumption
  <1>2. 0 \in 0..MaxTime + Ttl
        BY LeasesAssumption
  <1>3. NoCycle \in CycleLocals
        BY <1>1, <1>2 DEF NoCycle, CycleLocals, Agent
  <1>4. \A l \in Lease : Live(l) <=> l.status # "expired"
        BY DEF Lease, Live, Status
  <1>5. QED
        BY <1>3, <1>4

\* Labelling changes the status only, of expired leases only, and leaves it a
\* status.
LEMMA RefreshedFacts ==
  ASSUME NEW l \in Lease
  PROVE  /\ Refreshed(l) \in Lease
         /\ Refreshed(l).task = l.task /\ Refreshed(l).files = l.files
         /\ Refreshed(l).agent = l.agent /\ Refreshed(l).expires = l.expires
         /\ ~Expired(l) => Refreshed(l) = l
  BY DEF Refreshed, Lease, Status

\* A lease of the new list is an old one, as it was or labelled again.
Stems(l) == \E i \in DOMAIN leases : l \in {leases[i], Refreshed(leases[i])}

LEMMA KeptFacts ==
  ASSUME leases \in Seq(Lease), NEW t
  PROVE  /\ Kept(t) \in Seq(Lease)
         /\ \A n \in DOMAIN Kept(t) : Stems(Kept(t)[n])
         /\ \A i \in DOMAIN leases : ~Expired(leases[i]) =>
              \E n \in DOMAIN Kept(t) : Kept(t)[n] = leases[i]
  <1> DEFINE stay == {i \in DOMAIN leases : ~Cleared(leases[i], t)}
             Nth(n) == CHOOSE i \in stay : Rank(stay, i) = n
  <1>1. stay \in SUBSET Nat /\ IsFiniteSet(stay)
    <2>1. DOMAIN leases = 1..Len(leases) /\ Len(leases) \in Nat
          OBVIOUS
    <2>2. IsFiniteSet(1..Len(leases))
          BY <2>1, FS_Interval
    <2>3. stay \in SUBSET (1..Len(leases))
          BY <2>1
    <2>4. QED
          BY <2>1, <2>2, <2>3, FS_Subset
  <1>2. Kept(t) = [n \in 1..Cardinality(stay) |-> Refreshed(leases[Nth(n)])]
        BY DEF Kept
  <1>3. \A i \in stay : i \in DOMAIN leases /\ leases[i] \in Lease
        OBVIOUS
  <1>4. \A i \in DOMAIN leases : ~Expired(leases[i]) => i \in stay
        BY DEF Cleared
  <1> HIDE DEF stay
  <1>5. \A n \in 1..Cardinality(stay) : Nth(n) \in stay /\ Rank(stay, Nth(n)) = n
        BY <1>1, RankFacts
  <1>6. \A i \in stay : Rank(stay, i) \in 1..Cardinality(stay) /\ Nth(Rank(stay, i)) = i
        BY <1>1, <1>5, RankFacts
  <1> HIDE DEF Nth
  <1>7. \A n \in 1..Cardinality(stay) :
          Refreshed(leases[Nth(n)]) \in Lease /\ Stems(Refreshed(leases[Nth(n)]))
        BY <1>3, <1>5, RefreshedFacts DEF Stems
  <1>8. Cardinality(stay) \in Nat
        BY <1>1, RankFacts
  <1>9. Kept(t) \in Seq(Lease) /\ DOMAIN Kept(t) = 1..Cardinality(stay)
        BY <1>2, <1>7, <1>8
  <1>10. ASSUME NEW i \in DOMAIN leases, ~Expired(leases[i])
         PROVE  \E n \in DOMAIN Kept(t) : Kept(t)[n] = leases[i]
    <2>1. i \in stay
          BY <1>4, <1>10
    <2>2. Kept(t)[Rank(stay, i)] = Refreshed(leases[i])
          BY <1>2, <1>6, <2>1
    <2>3. Refreshed(leases[i]) = leases[i]
          BY <1>3, <1>10, <2>1, RefreshedFacts
    <2>4. QED
          BY <1>6, <1>9, <2>1, <2>2, <2>3
  <1>11. QED
         BY <1>2, <1>7, <1>9, <1>10

LEMMA BuiltFacts ==
  ASSUME leases \in Seq(Lease), now \in Nat, NEW t \in Task
  PROVE  /\ Built(t) \in Seq(Lease)
         /\ \A n \in DOMAIN Built(t) : Stems(Built(t)[n]) \/ Built(t)[n] = NewLease(t)
         /\ \A i \in DOMAIN leases : ~Expired(leases[i]) =>
              \E n \in DOMAIN Built(t) : Built(t)[n] = leases[i]
  <1>1. NewLease(t) \in Lease
        BY LeasesAssumption DEF NewLease, Lease, Status, Agent
  <1>2. CASE Built(t) = Kept(t)
        BY <1>2, KeptFacts
  <1>3. CASE Built(t) = Append(Kept(t), NewLease(t))
    <2> DEFINE kept == Kept(t)
               new == NewLease(t)
    <2>1. kept \in Seq(Lease)
          BY KeptFacts
    <2> HIDE DEF kept, new
    <2>2. /\ Append(kept, new) \in Seq(Lease)
          /\ \A n \in DOMAIN Append(kept, new) :
               Append(kept, new)[n] = new \/ (n \in DOMAIN kept /\ Append(kept, new)[n] = kept[n])
          /\ \A n \in DOMAIN kept :
               n \in DOMAIN Append(kept, new) /\ Append(kept, new)[n] = kept[n]
          BY <1>1, <2>1 DEF new
    <2>3. QED
          BY <1>3, <2>2, KeptFacts DEF kept, new
  <1>4. QED
        BY <1>2, <1>3 DEF Built

LEMMA WrittenFacts ==
  ASSUME leases \in Seq(Lease), now \in Nat, NEW t \in Task
  PROVE  /\ Written(t) \in Seq(Lease)
         /\ \A n \in DOMAIN Written(t) : Stems(Written(t)[n]) \/ Written(t)[n] = NewLease(t)
         /\ \A i \in DOMAIN leases : ~Expired(leases[i]) =>
              \E n \in DOMAIN Written(t) : Written(t)[n] = leases[i]
         /\ pool /\ ClaimsDisjoint => ~Overlap(Written(t))
  <1>1. CASE Written(t) = leases /\ (pool => Overlap(Built(t)))
    <2>1. pool /\ ClaimsDisjoint => ~Overlap(leases)
          BY LeaseTypes DEF ClaimsDisjoint, Overlap
    <2>2. QED
          BY <1>1, <2>1 DEF Stems
  <1>2. CASE Written(t) = Built(t) /\ (pool => ~Overlap(Built(t)))
        BY <1>2, BuiltFacts
  <1>3. QED
        BY <1>1, <1>2 DEF Written
-----------------------------------------------------------------------------
(* The invariant is inductive *)

LEMMA InitHolds == Init => IInv
  <1> SUFFICES ASSUME Init PROVE IInv
      OBVIOUS
  <1> USE DEF Init
  <1>1. /\ leases = <<>> /\ DOMAIN leases = {} /\ leases \in Seq(Lease)
        /\ now \in 1..MaxTime /\ left \in 0..Cycles /\ crashes \in 0..Crashes
    <2>1. MaxTime \in Nat /\ 1 <= MaxTime /\ Cycles \in Nat /\ Crashes \in Nat
          BY LeasesAssumption
    <2>2. QED
          BY <2>1
  <1>2. {dirty, pool} \subseteq BOOLEAN
    <2>1. dirty \in BOOLEAN
          OBVIOUS
    <2>2. pool \in BOOLEAN
          BY LeasesAssumption
    <2>3. QED
          BY <2>1, <2>2
  <1>3. /\ pc \in [Worker -> Label] /\ cyc \in [Worker -> CycleLocals]
        /\ \A w \in Worker : pc[w] = "idle" /\ cyc[w].verdict = "error"
        BY LeaseTypes DEF Idle, Label, NoCycle
  <1>4. TypeOK
        BY <1>1, <1>2, <1>3 DEF TypeOK
  <1>5. WellMade /\ ClaimsDisjoint /\ Returnable
        BY <1>1 DEF WellMade, ClaimsDisjoint, Returnable
  <1>6. ClaimsStand /\ Scoped
        BY <1>3 DEF ClaimsStand, Stands, Scoped
  <1>7. QED
        BY <1>4, <1>5, <1>6 DEF IInv

\* In the pool a task that claims files has one live lease at most.
LEMMA OneLiveLease ==
  ASSUME TypeOK, WellMade, ClaimsDisjoint, pool,
         NEW i \in DOMAIN leases, NEW j \in DOMAIN leases,
         leases[i].task = leases[j].task, ClaimsFiles(leases[i].task),
         leases[i].status # "expired", leases[j].status # "expired"
  PROVE  i = j
  BY DEF WellMade, ClaimsDisjoint, ClaimsFiles

\* The one lease that a lane can find is the one it does find.
HeldIsFound ==
  TypeOK /\ WellMade /\ ClaimsDisjoint /\ pool =>
    \A w \in Worker : \A i \in DOMAIN leases :
      /\ leases[i].task = cyc[w].task /\ leases[i].status # "expired"
      /\ ClaimsFiles(cyc[w].task)
      => i \in Mine(w) /\ First(Mine(w)) = i

LEMMA LeaseIsFound == HeldIsFound
  <1> SUFFICES ASSUME TypeOK, WellMade, ClaimsDisjoint, pool, NEW w \in Worker,
                      NEW i \in DOMAIN leases, leases[i].task = cyc[w].task,
                      leases[i].status # "expired", ClaimsFiles(cyc[w].task)
               PROVE  i \in Mine(w) /\ First(Mine(w)) = i
      BY DEF HeldIsFound
  <1>1. \A j \in DOMAIN leases : leases[j] \in Lease /\ j \in Nat
        BY DEF TypeOK
  <1>2. i \in Mine(w)
        BY <1>1, LeaseTypes DEF Mine
  <1>3. \A j \in Mine(w) : j = i
        BY <1>1, LeaseTypes, OneLiveLease DEF Mine
  <1>4. Mine(w) \in SUBSET Nat
        BY <1>1 DEF Mine
  <1>5. QED
        BY <1>2, <1>3, <1>4, FirstIsLeast

\* The same in the next state.
LEMMA NextLeaseIsFound == HeldIsFound'
  <1>1. QED
        BY LeaseIsFound, PTL

LEMMA MineFacts ==
  ASSUME TypeOK, NEW w \in Worker
  PROVE  /\ Mine(w) \in SUBSET Nat
         /\ \A i \in Mine(w) : /\ i \in DOMAIN leases /\ leases[i] \in Lease
                               /\ leases[i].status # "expired"
                               /\ pool => leases[i].task = cyc[w].task
         /\ Mine(w) # {} => First(Mine(w)) \in Mine(w)
  <1>1. \A i \in DOMAIN leases : leases[i] \in Lease /\ i \in Nat
        BY DEF TypeOK
  <1>2. Mine(w) \in SUBSET Nat
        BY <1>1 DEF Mine
  <1>3. QED
        BY <1>1, <1>2, FirstIsLeast, LeaseTypes DEF Mine

\* A claim leaves the list well made, and what is not expired as it was.
LEMMA ClaimFacts ==
  ASSUME IInv, NEW t \in Task, leases' = Written(t), UNCHANGED <<now, dirty, pool>>
  PROVE  /\ leases' \in Seq(Lease)
         /\ \A n \in DOMAIN leases' : leases'[n].agent # Free /\ ~Expired(leases'[n]) =>
              \E i \in DOMAIN leases : leases[i] = leases'[n]
         /\ \A i \in DOMAIN leases : ~Expired(leases[i]) =>
              \E n \in DOMAIN leases' : leases'[n] = leases[i]
         /\ WellMade' /\ ClaimsDisjoint'
  <1>1. /\ leases \in Seq(Lease) /\ now \in Nat
        /\ \A i \in DOMAIN leases : leases[i] \in Lease
        BY LeasesAssumption DEF IInv, TypeOK
  <1>2. /\ leases' \in Seq(Lease)
        /\ \A n \in DOMAIN leases' : Stems(leases'[n]) \/ leases'[n] = NewLease(t)
        /\ \A i \in DOMAIN leases : ~Expired(leases[i]) =>
              \E n \in DOMAIN leases' : leases'[n] = leases[i]
        /\ pool /\ ClaimsDisjoint => ~Overlap(leases')
        BY <1>1, WrittenFacts
  <1>3. ASSUME NEW n \in DOMAIN leases'
        PROVE  \/ leases'[n] = NewLease(t)
               \/ \E i \in DOMAIN leases :
                    /\ leases'[n].task = leases[i].task /\ leases'[n].files = leases[i].files
                    /\ leases'[n].agent = leases[i].agent /\ leases'[n].expires = leases[i].expires
                    /\ Expired(leases[i]) \/ leases'[n] = leases[i]
        BY <1>1, <1>2, RefreshedFacts DEF Stems
  <1>4. \A n \in DOMAIN leases' : leases'[n].agent # Free /\ ~Expired(leases'[n]) =>
              \E i \in DOMAIN leases : leases[i] = leases'[n]
        BY <1>3 DEF NewLease, Expired
  <1>5. ASSUME NEW n \in DOMAIN leases'
        PROVE  /\ leases'[n].files = Claim[leases'[n].task]
               /\ leases'[n].expires <= now + Ttl
               /\ leases'[n].status # "active" => Expired(leases'[n])
    <2>1. CASE leases'[n] = NewLease(t)
      <3>1. now + Ttl <= now + Ttl
            BY <1>1, LeasesAssumption
      <3>2. QED
            BY <2>1, <3>1 DEF NewLease
    <2>2. CASE leases'[n] # NewLease(t)
          BY <1>3, <2>2 DEF IInv, WellMade, Expired
    <2>3. QED
          BY <2>1, <2>2
  <1>6. WellMade'
        BY <1>5 DEF WellMade, Expired
  <1>7. ClaimsDisjoint'
    <2>1. \A n \in DOMAIN leases' : leases'[n] \in Lease
          BY <1>2
    <2>2. QED
          BY <1>2, <2>1, LeaseTypes DEF IInv, ClaimsDisjoint, Overlap
  <1>8. QED
        BY <1>2, <1>4, <1>6, <1>7

\* A claim by v leaves the leases of the other cycles standing, and gives none
\* away.
LEMMA ClaimSpares ==
  ASSUME IInv, NEW v \in Worker, NEW t \in Task, leases' = Written(t), TypeOK',
         UNCHANGED <<now, dirty, pool, crashes>>,
         pc[v] \notin InLane, pc'[v] \notin InLane,
         \A w \in Worker \ {v} : /\ pc'[w] = pc[w] /\ cyc'[w] = cyc[w]
                                 /\ pc[w] # "idle" => pool
  PROVE  /\ pool => \A w \in Worker \ {v} : Stands(w)'
         /\ Returnable'
  <1>1. /\ \A n \in DOMAIN leases' : leases'[n].agent # Free /\ ~Expired(leases'[n]) =>
             \E i \in DOMAIN leases : leases[i] = leases'[n]
        /\ \A i \in DOMAIN leases : ~Expired(leases[i]) =>
             \E n \in DOMAIN leases' : leases'[n] = leases[i]
        /\ WellMade' /\ ClaimsDisjoint'
        BY ClaimFacts
  <1>2. ASSUME pool, NEW w \in Worker \ {v}
        PROVE  Stands(w)'
    <2> SUFFICES ASSUME ClaimsFiles(cyc[w].task), pc[w] # "idle", now <= cyc[w].until
                 PROVE  \E n \in DOMAIN leases' :
                          /\ leases'[n].task = cyc[w].task /\ leases'[n].status = "active"
                          /\ leases'[n].expires = cyc[w].until
                          /\ pc[w] \in InLane => leases'[n].agent = cyc[w].agent
        BY DEF Stands, ClaimsFiles
    <2>1. PICK i \in DOMAIN leases :
             /\ leases[i].task = cyc[w].task /\ leases[i].status = "active"
             /\ leases[i].expires = cyc[w].until
             /\ pc[w] \in InLane => leases[i].agent = cyc[w].agent
          BY <1>2 DEF IInv, ClaimsStand, Stands
    <2>2. ~Expired(leases[i])
      <3>1. now \in Nat /\ cyc[w].until \in Nat /\ now <= cyc[w].until
            BY LeasesAssumption DEF IInv, TypeOK, CycleLocals
      <3>2. QED
            BY <2>1, <3>1 DEF Expired
    <2>3. QED
          BY <1>1, <2>1, <2>2
  <1>3. Returnable'
    <2> SUFFICES ASSUME crashes = 0, NEW n \in DOMAIN leases', leases'[n].agent # Free,
                        ~Expired(leases'[n]), pool => ClaimsFiles(leases'[n].task)
                 PROVE  \E w \in Worker : /\ pc'[w] \in InLane /\ cyc'[w].agent = leases'[n].agent
                                          /\ n \in Mine(w)' /\ n = First(Mine(w)')
        BY DEF Returnable, Expired, ClaimsFiles
    <2>1. PICK i \in DOMAIN leases : leases[i] = leases'[n]
          BY <1>1
    <2>2. PICK w \in Worker : /\ pc[w] \in InLane /\ cyc[w].agent = leases[i].agent
                              /\ i \in Mine(w)
          BY <2>1 DEF IInv, Returnable
    <2>3. w # v /\ pool /\ pc'[w] = pc[w] /\ cyc'[w] = cyc[w]
          BY <2>2 DEF InLane
    <2>4. leases[i].task = cyc[w].task /\ leases[i].status # "expired"
          BY <2>2, <2>3, MineFacts DEF IInv
    <2>5. n \in Mine(w)' /\ First(Mine(w)') = n
      <3>1. /\ leases'[n].task = cyc'[w].task /\ leases'[n].status # "expired"
            /\ ClaimsFiles(cyc'[w].task) /\ pool'
            BY <2>1, <2>3, <2>4
      <3>2. QED
            BY <1>1, <3>1, NextLeaseIsFound DEF HeldIsFound, ClaimsFiles
    <2>6. QED
          BY <2>1, <2>2, <2>3, <2>5
  <1>4. QED
        BY <1>2, <1>3

LEMMA OwnExpiryFacts ==
  ASSUME NEW s \in Seq(Lease), NEW t, OwnExpiry(s, t) # 0
  PROVE  \E i \in DOMAIN s : /\ s[i].task = t /\ s[i].status = "active"
                             /\ s[i].expires = OwnExpiry(s, t)
  <1> DEFINE own == {i \in DOMAIN s : s[i].task = t /\ s[i].status = "active"}
  <1>1. own # {} /\ OwnExpiry(s, t) = s[CHOOSE i \in own : TRUE].expires
        BY DEF OwnExpiry
  <1>2. (CHOOSE i \in own : TRUE) \in own
        BY <1>1
  <1>3. QED
        BY <1>1, <1>2

\* The start of a cycle.
LEMMA StartKeeps ==
  ASSUME IInv, NEW w \in Worker, NEW t \in Task, Start(w, t)
  PROVE  IInv'
  <1> DEFINE until == OwnExpiry(Written(t), t)
             blocked == Overlap(Built(t)) \/ NeedsRecovery(Built(t))
             local == [NoCycle EXCEPT !.task = t, !.blocked = blocked, !.until = until]
  <1>1. /\ pc[w] = "idle" /\ left > 0 /\ left' = left - 1
        /\ \A v \in Worker \ {w} : pc[v] # "idle" => pool /\ cyc[v].task # t
        /\ leases' = Written(t)
        /\ cyc' = [cyc EXCEPT ![w] = local] /\ pc' = [pc EXCEPT ![w] = "claimed"]
        /\ UNCHANGED <<now, dirty, pool, crashes>>
        BY DEF Start, Goto, clock
  <1>2. TypeOK
        BY DEF IInv
  <1>3. /\ leases' \in Seq(Lease) /\ WellMade' /\ ClaimsDisjoint'
        /\ \A n \in DOMAIN leases' : leases'[n] \in Lease
        BY <1>1, ClaimFacts
  <1>4. until = 0 \/ \E n \in DOMAIN leases' : /\ leases'[n].task = t /\ leases'[n].status = "active"
                                               /\ leases'[n].expires = until
        BY <1>1, <1>3, OwnExpiryFacts
  <1>5. until \in 0..MaxTime + Ttl
    <2>1. now \in Nat /\ now <= MaxTime /\ Ttl \in Nat /\ MaxTime \in Nat
          BY <1>2, LeasesAssumption DEF TypeOK
    <2>2. \A n \in DOMAIN leases' : leases'[n].expires \in Nat /\ leases'[n].expires <= now + Ttl
          BY <1>1, <1>3 DEF WellMade, Lease
    <2> HIDE DEF until
    <2>3. QED
          BY <1>4, <2>1, <2>2
  <1>6. local \in CycleLocals /\ local.task = t /\ local.until = until /\ local.verdict = "error"
    <2>1. blocked \in BOOLEAN
          BY DEF Overlap, NeedsRecovery
    <2> HIDE DEF until, blocked
    <2>2. QED
          BY <1>5, <2>1, LeaseTypes DEF CycleLocals, NoCycle
  <1> HIDE DEF until, local
  <1>7. /\ pc' \in [Worker -> Label] /\ cyc' \in [Worker -> CycleLocals]
        /\ pc'[w] = "claimed" /\ cyc'[w] = local
        /\ \A v \in Worker \ {w} : pc'[v] = pc[v] /\ cyc'[v] = cyc[v]
        BY <1>1, <1>2, <1>6 DEF TypeOK, Label
  <1>8. TypeOK'
    <2>1. left' \in 0..Cycles
          BY <1>1, <1>2, LeasesAssumption DEF TypeOK
    <2>2. \A u, v \in Worker : u # v /\ pc'[u] # "idle" /\ pc'[v] # "idle" =>
            pool /\ cyc'[u].task # cyc'[v].task
          BY <1>1, <1>2, <1>6, <1>7 DEF TypeOK
    <2>3. QED
          BY <1>1, <1>2, <1>3, <1>7, <2>1, <2>2 DEF TypeOK
  <1>9. (pool => \A v \in Worker \ {w} : Stands(v)') /\ Returnable'
        BY <1>1, <1>7, <1>8, ClaimSpares DEF InLane
  <1>10. Stands(w)'
    <2>1. now \in Nat /\ now # 0
          BY <1>2, LeasesAssumption DEF TypeOK
    <2>2. now' <= cyc'[w].until => until # 0
          BY <1>1, <1>5, <1>6, <1>7, <2>1
    <2>3. pc'[w] \notin InLane
          BY <1>7 DEF InLane
    <2>4. QED
          BY <1>4, <1>6, <1>7, <2>2, <2>3 DEF Stands
  <1>11. ClaimsStand'
         BY <1>1, <1>9, <1>10 DEF ClaimsStand
  <1>12. Scoped'
         BY <1>1, <1>6, <1>7 DEF IInv, Scoped
  <1>13. QED
         BY <1>3, <1>8, <1>9, <1>11, <1>12 DEF IInv

\* A worker that does no more than move on within its cycle, or end it, changes
\* nothing that the leases depend on.
LEMMA QuietKeeps ==
  ASSUME IInv, UNCHANGED <<leases, now, dirty, pool, left, crashes>>,
         NEW w \in Worker, NEW label \in Label, NEW local \in CycleLocals,
         pc' = [pc EXCEPT ![w] = label], cyc' = [cyc EXCEPT ![w] = local],
         \/ label = "idle"
         \/ pc[w] # "idle" /\ local.task = cyc[w].task /\ local.until = cyc[w].until,
         pc[w] \in InLane <=> label \in InLane,
         label \in InLane => local.agent = cyc[w].agent,
         pool /\ local.verdict = "proposed" /\ now <= local.until =>
           Claim[local.task] = {} \/ local.diff \subseteq Claim[local.task]
  PROVE  IInv'
  <1>1. TypeOK
        BY DEF IInv
  <1>2. /\ pc' \in [Worker -> Label] /\ cyc' \in [Worker -> CycleLocals]
        /\ pc'[w] = label /\ cyc'[w] = local
        /\ \A v \in Worker \ {w} : pc'[v] = pc[v] /\ cyc'[v] = cyc[v]
        BY <1>1 DEF TypeOK
  <1>3. TypeOK'
    <2>1. \A u, v \in Worker : u # v /\ pc'[u] # "idle" /\ pc'[v] # "idle" =>
            pool /\ cyc'[u].task # cyc'[v].task
          BY <1>1, <1>2 DEF TypeOK
    <2>2. QED
          BY <1>1, <1>2, <2>1 DEF TypeOK
  <1>4. WellMade' /\ ClaimsDisjoint'
        BY DEF IInv, WellMade, ClaimsDisjoint, Expired
  <1>5. ClaimsStand'
    <2>1. ASSUME pool, NEW v \in Worker PROVE Stands(v)'
      <3>1. Stands(v)
            BY <2>1 DEF IInv, ClaimsStand
      <3>2. CASE v # w
            BY <1>2, <3>1, <3>2 DEF Stands, ClaimsFiles
      <3>3. CASE v = w
            BY <1>2, <3>1, <3>3 DEF Stands, ClaimsFiles
      <3>4. QED
            BY <3>2, <3>3
    <2>2. QED
          BY <2>1 DEF ClaimsStand
  <1>6. Scoped'
        BY <1>2 DEF IInv, Scoped
  <1>7. Returnable'
    <2>1. \A v \in Worker : pc[v] \in InLane =>
            /\ pc'[v] \in InLane /\ cyc'[v].agent = cyc[v].agent /\ Mine(v)' = Mine(v)
      <3>1. "idle" \notin InLane
            BY DEF InLane
      <3>2. \A v \in Worker : pc[v] \in InLane =>
              pc'[v] \in InLane /\ cyc'[v].agent = cyc[v].agent /\ cyc'[v].task = cyc[v].task
            BY <1>2, <3>1
      <3>3. QED
            BY <3>2 DEF Mine
    <2>2. QED
          BY <2>1 DEF IInv, Returnable, Expired, ClaimsFiles
  <1>8. QED
        BY <1>3, <1>4, <1>5, <1>6, <1>7 DEF IInv

LEMMA LaneOverKeeps ==
  ASSUME IInv, NEW w \in Worker, pc[w] \in {"borrow", "judged"}, LaneOver(w),
         UNCHANGED <<leases, clock, run>>
  PROVE  IInv'
  <1>1. UNCHANGED <<leases, now, dirty, pool, left, crashes>> /\ cyc[w] \in CycleLocals
        BY DEF clock, run, IInv, TypeOK
  <1>2. CASE End(w)
    <2>1. pc' = [pc EXCEPT ![w] = "idle"] /\ cyc' = [cyc EXCEPT ![w] = NoCycle]
          BY <1>2 DEF End, Goto
    <2>2. "idle" \in Label /\ NoCycle \in CycleLocals /\ NoCycle.verdict # "proposed"
          BY LeaseTypes DEF Label, NoCycle
    <2>3. pc[w] \notin InLane /\ "idle" \notin InLane
          BY DEF InLane
    <2>4. QED
          BY <1>1, <2>1, <2>2, <2>3, QuietKeeps
  <1>3. CASE ~End(w)
    <2> DEFINE other == CHOOSE g \in Agent : g # cyc[w].agent
               local == [cyc[w] EXCEPT !.retried = TRUE, !.diff = {}, !.verdict = "error",
                                       !.agent = other]
    <2>1. other \in Agent
          BY DEF Agent
    <2>2. pc' = [pc EXCEPT ![w] = "borrow"] /\ cyc' = [cyc EXCEPT ![w] = local]
          BY <1>1, <1>3 DEF LaneOver, Goto, CycleLocals, IInv, TypeOK
    <2> HIDE DEF other
    <2>3. /\ local \in CycleLocals /\ local.task = cyc[w].task /\ local.until = cyc[w].until
          /\ local.verdict = "error"
          BY <1>1, <2>1 DEF CycleLocals
    <2>4. "borrow" \in Label /\ "borrow" \notin InLane /\ pc[w] \notin InLane /\ pc[w] # "idle"
          BY DEF Label, InLane
    <2> HIDE DEF local
    <2>5. QED
          BY <1>1, <2>2, <2>3, <2>4, QuietKeeps
  <1>4. QED
        BY <1>2, <1>3

LEMMA RouteKeeps ==
  ASSUME IInv, NEW w \in Worker, Route(w)
  PROVE  IInv'
  <1>1. /\ UNCHANGED <<leases, now, dirty, pool, left, crashes>> /\ cyc[w] \in CycleLocals
        /\ pc[w] = "claimed"
        BY DEF Route, clock, run, IInv, TypeOK
  <1>2. "claimed" \notin InLane /\ "idle" \notin InLane /\ "borrow" \notin InLane
        BY DEF InLane
  <1>3. CASE End(w)
    <2>1. pc' = [pc EXCEPT ![w] = "idle"] /\ cyc' = [cyc EXCEPT ![w] = NoCycle]
          BY <1>3 DEF End, Goto
    <2>2. "idle" \in Label /\ NoCycle \in CycleLocals /\ NoCycle.verdict # "proposed"
          BY LeaseTypes DEF Label, NoCycle
    <2>3. QED
          BY <1>1, <1>2, <2>1, <2>2, QuietKeeps
  <1>4. CASE ~End(w)
    <2>1. PICK g \in Agent : pc' = [pc EXCEPT ![w] = "borrow"] /\ cyc' = [cyc EXCEPT ![w].agent = g]
          BY <1>4 DEF Route, Goto
    <2> DEFINE local == [cyc[w] EXCEPT !.agent = g]
    <2>2. /\ cyc' = [cyc EXCEPT ![w] = local] /\ local \in CycleLocals
          /\ local.task = cyc[w].task /\ local.until = cyc[w].until
          /\ local.verdict = cyc[w].verdict /\ local.diff = cyc[w].diff
          BY <1>1, <2>1 DEF CycleLocals
    <2>3. "borrow" \in Label
          BY DEF Label
    <2> HIDE DEF local
    <2>4. pool /\ local.verdict = "proposed" /\ now <= local.until =>
            Claim[local.task] = {} \/ local.diff \subseteq Claim[local.task]
          BY <2>2 DEF IInv, Scoped
    <2>5. QED
          BY <1>1, <1>2, <2>1, <2>2, <2>3, <2>4, QuietKeeps
  <1>5. QED
        BY <1>3, <1>4

LEMMA GuardKeeps ==
  ASSUME IInv, NEW w \in Worker, Guard(w)
  PROVE  IInv'
  <1>1. /\ UNCHANGED <<leases, now, dirty, pool, left, crashes>> /\ cyc[w] \in CycleLocals
        /\ pc[w] = "guard" /\ cyc' = cyc /\ cyc \in [Worker -> CycleLocals]
        BY DEF Guard, clock, run, IInv, TypeOK
  <1>2. PICK label \in {"release", "edit"} : pc' = [pc EXCEPT ![w] = label]
        BY DEF Guard, Goto
  <1>3. cyc' = [cyc EXCEPT ![w] = cyc[w]]
        BY <1>1
  <1>4. label \in Label /\ label \in InLane /\ pc[w] \in InLane
        BY <1>1 DEF Label, InLane
  <1>5. pool /\ cyc[w].verdict = "proposed" /\ now <= cyc[w].until =>
          Claim[cyc[w].task] = {} \/ cyc[w].diff \subseteq Claim[cyc[w].task]
        BY DEF IInv, Scoped
  <1>6. QED
        BY <1>1, <1>2, <1>3, <1>4, <1>5, QuietKeeps

LEMMA JudgeKeeps ==
  ASSUME IInv, NEW w \in Worker, Judge(w)
  PROVE  IInv'
  <1>1. /\ UNCHANGED <<leases, now, dirty, pool, left, crashes>> /\ cyc[w] \in CycleLocals
        /\ pc[w] = "edit" /\ pc' = [pc EXCEPT ![w] = "release"]
        /\ cyc \in [Worker -> CycleLocals]
        BY DEF Judge, Goto, clock, run, IInv, TypeOK
  <1>2. "release" \in Label /\ "release" \in InLane /\ pc[w] \in InLane /\ pc[w] # "idle"
        BY <1>1 DEF Label, InLane
  <1>3. pool /\ cyc[w].verdict = "proposed" /\ now <= cyc[w].until =>
          Claim[cyc[w].task] = {} \/ cyc[w].diff \subseteq Claim[cyc[w].task]
        BY DEF IInv, Scoped
  <1>4. CASE cyc' = cyc
    <2>1. cyc' = [cyc EXCEPT ![w] = cyc[w]]
          BY <1>1, <1>4
    <2>2. QED
          BY <1>1, <1>2, <1>3, <2>1, QuietKeeps
  <1>5. CASE cyc' # cyc
    <2>1. PICK files \in SUBSET File :
            cyc' = [cyc EXCEPT ![w].diff = files, ![w].verdict = Judgement(w, files)]
          BY <1>5 DEF Judge
    <2> DEFINE local == [cyc[w] EXCEPT !.diff = files, !.verdict = Judgement(w, files)]
    <2>2. Judgement(w, files) \in {"empty", "proposed", "blocked"}
          BY DEF Judgement
    <2>3. /\ cyc' = [cyc EXCEPT ![w] = local] /\ local \in CycleLocals
          /\ local.task = cyc[w].task /\ local.until = cyc[w].until /\ local.agent = cyc[w].agent
          /\ local.diff = files /\ local.verdict = Judgement(w, files)
          BY <1>1, <2>1, <2>2 DEF CycleLocals
    <2> HIDE DEF local
    <2>4. ASSUME pool, Judgement(w, files) = "proposed", now <= cyc[w].until,
                 Claim[cyc[w].task] # {}
          PROVE  files \subseteq Claim[cyc[w].task]
      <3>1. PICK i \in DOMAIN leases : leases[i].task = cyc[w].task /\ leases[i].status = "active"
            BY <1>2, <2>4 DEF IInv, ClaimsStand, Stands, ClaimsFiles
      <3>2. i \in Mine(w) /\ First(Mine(w)) = i
            BY <2>4, <3>1, LeaseIsFound DEF IInv, HeldIsFound, ClaimsFiles
      <3>3. ClaimedNow(w) = Claim[cyc[w].task]
            BY <3>1, <3>2 DEF ClaimedNow, Found, IInv, WellMade
      <3>4. QED
            BY <2>4, <3>3 DEF Judgement
    <2>5. pool /\ local.verdict = "proposed" /\ now <= local.until =>
            Claim[local.task] = {} \/ local.diff \subseteq Claim[local.task]
          BY <2>3, <2>4
    <2>6. QED
          BY <1>1, <1>2, <2>3, <2>5, QuietKeeps
  <1>6. QED
        BY <1>4, <1>5

LEMMA EndLaneKeeps ==
  ASSUME IInv, NEW w \in Worker, EndLane(w)
  PROVE  IInv'
  BY LaneOverKeeps DEF EndLane, LaneOver

LEMMA AcquireFailsKeeps ==
  ASSUME IInv, NEW w \in Worker, AcquireFails(w)
  PROVE  IInv'
  BY LaneOverKeeps DEF AcquireFails

LEMMA ShipKeeps ==
  ASSUME IInv, NEW w \in Worker, Ship(w)
  PROVE  IInv'
  <1>1. /\ pc[w] = "claimed" /\ leases' = Written(cyc[w].task)
        /\ pc' = [pc EXCEPT ![w] = "idle"] /\ cyc' = [cyc EXCEPT ![w] = NoCycle]
        /\ UNCHANGED <<now, dirty, pool, left, crashes>>
        BY DEF Ship, End, Goto, clock, run
  <1>2. TypeOK /\ cyc[w].task \in Task
        BY DEF IInv, TypeOK, CycleLocals
  <1>3. leases' \in Seq(Lease) /\ WellMade' /\ ClaimsDisjoint'
        BY <1>1, <1>2, ClaimFacts
  <1>4. /\ pc' \in [Worker -> Label] /\ cyc' \in [Worker -> CycleLocals]
        /\ pc'[w] = "idle" /\ cyc'[w] = NoCycle
        /\ \A v \in Worker \ {w} : pc'[v] = pc[v] /\ cyc'[v] = cyc[v]
        BY <1>1, <1>2, LeaseTypes DEF TypeOK, Label
  <1>5. TypeOK'
    <2>1. \A u, v \in Worker : u # v /\ pc'[u] # "idle" /\ pc'[v] # "idle" =>
            pool /\ cyc'[u].task # cyc'[v].task
          BY <1>2, <1>4 DEF TypeOK
    <2>2. QED
          BY <1>1, <1>2, <1>3, <1>4, <2>1 DEF TypeOK
  <1>6. \A v \in Worker \ {w} : pc[v] # "idle" => pool
        BY <1>1, <1>2 DEF TypeOK
  <1>7. (pool => \A v \in Worker \ {w} : Stands(v)') /\ Returnable'
        BY <1>1, <1>2, <1>4, <1>5, <1>6, ClaimSpares DEF InLane
  <1>8. ClaimsStand'
    <2>1. Stands(w)'
          BY <1>4 DEF Stands
    <2>2. QED
          BY <1>1, <1>7, <2>1 DEF ClaimsStand
  <1>9. Scoped'
        BY <1>1, <1>4 DEF IInv, Scoped, NoCycle
  <1>10. QED
         BY <1>3, <1>5, <1>7, <1>8, <1>9 DEF IInv

\* Lending a lease or taking it back changes its agent and nothing else.
LEMMA LendFacts ==
  ASSUME IInv, NEW i \in DOMAIN leases, NEW g \in Agent \cup {Free},
         leases' = [leases EXCEPT ![i].agent = g],
         UNCHANGED <<now, dirty, pool, left, crashes, cyc>>
  PROVE  /\ leases' \in Seq(Lease) /\ DOMAIN leases' = DOMAIN leases
         /\ leases'[i].agent = g
         /\ \A j \in DOMAIN leases :
              /\ leases'[j].task = leases[j].task /\ leases'[j].files = leases[j].files
              /\ leases'[j].status = leases[j].status /\ leases'[j].expires = leases[j].expires
              /\ j # i => leases'[j] = leases[j]
         /\ \A v \in Worker : Mine(v)' = Mine(v)
         /\ WellMade' /\ ClaimsDisjoint' /\ Scoped'
  <1>1. leases \in Seq(Lease) /\ leases[i] \in Lease
        BY DEF IInv, TypeOK
  <1>2. [leases[i] EXCEPT !.agent = g] \in Lease
        BY <1>1 DEF Lease
  <1>3. leases' \in Seq(Lease) /\ DOMAIN leases' = DOMAIN leases
        BY <1>1, <1>2
  <1>4. /\ leases'[i].agent = g
        /\ \A j \in DOMAIN leases :
              /\ leases'[j].task = leases[j].task /\ leases'[j].files = leases[j].files
              /\ leases'[j].status = leases[j].status /\ leases'[j].expires = leases[j].expires
              /\ j # i => leases'[j] = leases[j]
        BY <1>1 DEF Lease
  <1>5. \A v \in Worker : Mine(v)' = Mine(v)
        BY <1>3, <1>4 DEF Mine, Live
  <1>6. WellMade' /\ ClaimsDisjoint' /\ Scoped'
    <2>1. WellMade'
          BY <1>3, <1>4 DEF IInv, WellMade, Expired
    <2>2. ClaimsDisjoint'
          BY <1>3, <1>4 DEF IInv, ClaimsDisjoint
    <2>3. Scoped'
          BY DEF IInv, Scoped
    <2>4. QED
          BY <2>1, <2>2, <2>3
  <1>7. QED
        BY <1>3, <1>4, <1>5, <1>6

\* A worker at its own lease does not touch those of other cycles.
LEMMA LendSpares ==
  ASSUME IInv, NEW w \in Worker, pc[w] # "idle", Mine(w) # {}, pool,
         NEW g \in Agent \cup {Free},
         leases' = [leases EXCEPT ![First(Mine(w))].agent = g],
         UNCHANGED <<now, dirty, pool, left, crashes, cyc>>,
         NEW v \in Worker \ {w}, pc'[v] = pc[v]
  PROVE  Stands(v)'
  <1> DEFINE i == First(Mine(w))
  <1>1. i \in DOMAIN leases /\ leases[i].task = cyc[w].task
        BY MineFacts DEF IInv
  <1>2. /\ DOMAIN leases' = DOMAIN leases
        /\ \A j \in DOMAIN leases :
              /\ leases'[j].task = leases[j].task
              /\ leases'[j].status = leases[j].status /\ leases'[j].expires = leases[j].expires
              /\ j # i => leases'[j] = leases[j]
        BY <1>1, LendFacts
  <1> SUFFICES ASSUME ClaimsFiles(cyc[v].task), pc[v] # "idle", now <= cyc[v].until
               PROVE  \E n \in DOMAIN leases' :
                        /\ leases'[n].task = cyc[v].task /\ leases'[n].status = "active"
                        /\ leases'[n].expires = cyc[v].until
                        /\ pc[v] \in InLane => leases'[n].agent = cyc[v].agent
      BY DEF Stands, ClaimsFiles
  <1>3. cyc[v].task # cyc[w].task
        BY DEF IInv, TypeOK
  <1>4. PICK j \in DOMAIN leases :
           /\ leases[j].task = cyc[v].task /\ leases[j].status = "active"
           /\ leases[j].expires = cyc[v].until
           /\ pc[v] \in InLane => leases[j].agent = cyc[v].agent
        BY DEF IInv, ClaimsStand, Stands
  <1>5. j # i
        BY <1>1, <1>3, <1>4
  <1>6. QED
        BY <1>2, <1>4, <1>5

LEMMA AcquireKeeps ==
  ASSUME IInv, NEW w \in Worker, Acquire(w)
  PROVE  IInv'
  <1> DEFINE i == First(Mine(w))
             g == cyc[w].agent
  <1>1. /\ pc[w] = "borrow" /\ Mine(w) # {}
        /\ leases' = [leases EXCEPT ![i].agent = g]
        /\ pc' = [pc EXCEPT ![w] = "guard"]
        /\ UNCHANGED <<now, dirty, pool, left, crashes, cyc>>
        BY DEF Acquire, Available, Goto, clock, run
  <1>2. TypeOK /\ g \in Agent
        BY DEF IInv, TypeOK, CycleLocals
  <1>3. i \in Mine(w) /\ i \in DOMAIN leases
        BY <1>1, <1>2, MineFacts
  <1>4. /\ leases' \in Seq(Lease) /\ DOMAIN leases' = DOMAIN leases
        /\ leases'[i].agent = g
        /\ \A j \in DOMAIN leases :
              /\ leases'[j].task = leases[j].task
              /\ leases'[j].status = leases[j].status /\ leases'[j].expires = leases[j].expires
              /\ j # i => leases'[j] = leases[j]
        /\ \A v \in Worker : Mine(v)' = Mine(v)
        /\ WellMade' /\ ClaimsDisjoint' /\ Scoped'
    <2> HIDE DEF i, g
    <2> QED BY <1>1, <1>2, <1>3, LendFacts
  <1>5. /\ pc' \in [Worker -> Label] /\ pc'[w] = "guard"
        /\ \A v \in Worker \ {w} : pc'[v] = pc[v]
        BY <1>1, <1>2 DEF TypeOK, Label, InLane
  <1>6. TypeOK'
    <2>1. \A u, v \in Worker : u # v /\ pc'[u] # "idle" /\ pc'[v] # "idle" =>
            pool /\ cyc[u].task # cyc[v].task
          BY <1>1, <1>2, <1>5 DEF TypeOK
    <2>2. QED
          BY <1>1, <1>2, <1>4, <1>5, <2>1 DEF TypeOK
  <1>7. ClaimsStand'
    <2>1. ASSUME pool, NEW v \in Worker PROVE Stands(v)'
      <3>1. CASE v # w
            BY <1>1, <1>2, <1>5, <2>1, <3>1, LendSpares
      <3>2. CASE v = w
        <4> SUFFICES ASSUME ClaimsFiles(cyc[w].task), now <= cyc[w].until
                     PROVE  \E n \in DOMAIN leases' :
                              /\ leases'[n].task = cyc[w].task /\ leases'[n].status = "active"
                              /\ leases'[n].expires = cyc[w].until /\ leases'[n].agent = g
            BY <1>1, <3>2 DEF Stands, ClaimsFiles
        <4>1. PICK j \in DOMAIN leases :
                 /\ leases[j].task = cyc[w].task /\ leases[j].status = "active"
                 /\ leases[j].expires = cyc[w].until
              BY <1>1, <2>1 DEF IInv, ClaimsStand, Stands
        <4>2. j = i
              BY <2>1, <4>1, LeaseIsFound DEF IInv, HeldIsFound
        <4>3. QED
              BY <1>4, <4>1, <4>2
      <3>3. QED
            BY <3>1, <3>2
    <2>2. QED
          BY <1>1, <2>1 DEF ClaimsStand
  <1>8. Returnable'
    <2>1. /\ UNCHANGED <<now, pool, crashes, cyc>> /\ DOMAIN leases' = DOMAIN leases
          /\ \A j \in DOMAIN leases : leases'[j].task = leases[j].task
                                    /\ leases'[j].expires = leases[j].expires
          /\ \A v \in Worker : Mine(v)' = Mine(v)
          BY <1>1, <1>4
    <2> SUFFICES ASSUME crashes = 0, NEW n \in DOMAIN leases, leases'[n].agent # Free,
                        ~Expired(leases[n]), pool => ClaimsFiles(leases[n].task)
                 PROVE  \E v \in Worker : /\ pc'[v] \in InLane /\ cyc[v].agent = leases'[n].agent
                                          /\ n \in Mine(v) /\ n = First(Mine(v))
        BY <2>1 DEF Returnable, Expired, ClaimsFiles
    <2>2. CASE n = i
          BY <1>3, <1>4, <1>5, <2>2 DEF InLane
    <2>3. CASE n # i
      <3>1. leases'[n] = leases[n]
            BY <1>4, <2>3
      <3>2. PICK v \in Worker : /\ pc[v] \in InLane /\ cyc[v].agent = leases[n].agent
                                /\ n \in Mine(v) /\ n = First(Mine(v))
            BY <3>1 DEF IInv, Returnable
      <3>3. v # w
            BY <1>1, <3>2 DEF InLane
      <3>4. QED
            BY <1>5, <3>1, <3>2, <3>3
    <2>4. QED
          BY <2>2, <2>3
  <1>9. QED
        BY <1>4, <1>6, <1>7, <1>8 DEF IInv

LEMMA ReleaseKeeps ==
  ASSUME IInv, NEW w \in Worker, Release(w)
  PROVE  IInv'
  <1> DEFINE i == First(Mine(w))
             own == Mine(w) # {} /\ leases[i].agent = cyc[w].agent
  <1>1. /\ pc[w] = "release"
        /\ leases' = IF own THEN [leases EXCEPT ![i].agent = Free] ELSE leases
        /\ pc' = [pc EXCEPT ![w] = "judged"]
        /\ UNCHANGED <<now, dirty, pool, left, crashes, cyc>>
        BY DEF Release, Found, Goto, clock, run
  <1>2. TypeOK
        BY DEF IInv
  <1>3. own => i \in Mine(w) /\ i \in DOMAIN leases
        BY <1>2, MineFacts
  <1>4. /\ leases' \in Seq(Lease) /\ DOMAIN leases' = DOMAIN leases
        /\ own => leases'[i].agent = Free
        /\ \A j \in DOMAIN leases :
              /\ leases'[j].task = leases[j].task
              /\ leases'[j].status = leases[j].status /\ leases'[j].expires = leases[j].expires
              /\ ~own \/ j # i => leases'[j] = leases[j]
        /\ \A v \in Worker : Mine(v)' = Mine(v)
        /\ WellMade' /\ ClaimsDisjoint' /\ Scoped'
    <2>1. CASE own
      <3> HIDE DEF i
      <3> QED BY <1>1, <1>3, <2>1, LendFacts
    <2>2. CASE ~own
          BY <1>1, <1>2, <2>2 DEF IInv, TypeOK, WellMade, ClaimsDisjoint, Scoped, Expired, Mine
    <2>3. QED
          BY <2>1, <2>2
  <1>5. /\ pc' \in [Worker -> Label] /\ pc'[w] = "judged" /\ pc'[w] \notin InLane
        /\ \A v \in Worker \ {w} : pc'[v] = pc[v]
        BY <1>1, <1>2 DEF TypeOK, Label, InLane
  <1>6. TypeOK'
    <2>1. \A u, v \in Worker : u # v /\ pc'[u] # "idle" /\ pc'[v] # "idle" =>
            pool /\ cyc[u].task # cyc[v].task
          BY <1>1, <1>2, <1>5 DEF TypeOK
    <2>2. QED
          BY <1>1, <1>2, <1>4, <1>5, <2>1 DEF TypeOK
  <1>7. ClaimsStand'
    <2>1. ASSUME pool, NEW v \in Worker PROVE Stands(v)'
      <3>1. Stands(v)
            BY <2>1 DEF IInv, ClaimsStand
      <3>2. CASE v # w /\ own
            BY <1>1, <1>5, <2>1, <3>2, LendSpares
      <3>3. CASE v # w /\ ~own
            BY <1>1, <1>5, <3>1, <3>3 DEF Stands, ClaimsFiles
      <3>4. CASE v = w
            BY <1>1, <1>4, <1>5, <3>1, <3>4 DEF Stands, ClaimsFiles
      <3>5. QED
            BY <3>2, <3>3, <3>4
    <2>2. QED
          BY <1>1, <2>1 DEF ClaimsStand
  <1>8. Returnable'
    <2> SUFFICES ASSUME crashes = 0, NEW n \in DOMAIN leases, leases'[n].agent # Free,
                        ~Expired(leases[n]), pool => ClaimsFiles(leases[n].task)
                 PROVE  \E v \in Worker : /\ pc'[v] \in InLane /\ cyc[v].agent = leases'[n].agent
                                          /\ n \in Mine(v) /\ n = First(Mine(v))
        BY <1>1, <1>4 DEF Returnable, Expired, ClaimsFiles
    <2>1. leases'[n] = leases[n] /\ ~(own /\ n = i)
          BY <1>4
    <2>2. PICK v \in Worker : /\ pc[v] \in InLane /\ cyc[v].agent = leases[n].agent
                              /\ n \in Mine(v) /\ n = First(Mine(v))
          BY <2>1 DEF IInv, Returnable
    <2>3. v # w
          BY <2>1, <2>2
    <2>4. QED
          BY <1>5, <2>1, <2>2, <2>3
  <1>9. QED
        BY <1>4, <1>6, <1>7, <1>8 DEF IInv

LEMMA CrashKeeps ==
  ASSUME IInv, Crash
  PROVE  IInv'
  <1>1. /\ UNCHANGED <<leases, now, dirty, pool, left>> /\ crashes < Crashes
        /\ crashes' = crashes + 1 /\ pc' = Idle /\ cyc' = [w \in Worker |-> NoCycle]
        /\ crashes \in Nat /\ Crashes \in Nat
        BY LeasesAssumption DEF Crash, clock, IInv, TypeOK
  <1>2. /\ pc' \in [Worker -> Label] /\ cyc' \in [Worker -> CycleLocals]
        /\ \A w \in Worker : pc'[w] = "idle" /\ cyc'[w].verdict = "error"
        BY <1>1, LeaseTypes DEF Idle, Label, NoCycle
  <1>3. crashes' \in 0..Crashes /\ crashes' # 0
        BY <1>1
  <1>4. TypeOK'
        BY <1>1, <1>2, <1>3 DEF IInv, TypeOK
  <1>5. WellMade' /\ ClaimsDisjoint'
        BY <1>1 DEF IInv, WellMade, ClaimsDisjoint, Expired
  <1>6. ClaimsStand' /\ Scoped' /\ Returnable'
        BY <1>2, <1>3 DEF ClaimsStand, Stands, Scoped, Returnable
  <1>7. QED
        BY <1>4, <1>5, <1>6 DEF IInv

LEMMA TickKeeps ==
  ASSUME IInv, Tick
  PROVE  IInv'
  <1>1. /\ UNCHANGED <<leases, dirty, pool, left, crashes, pc, cyc>>
        /\ now < MaxTime /\ now' = now + 1
        BY DEF Tick, run
  <1>2. /\ now \in Nat /\ MaxTime \in Nat /\ Ttl \in Nat /\ now' \in 1..MaxTime
        /\ \A i \in DOMAIN leases : leases[i].expires \in Nat
        /\ \A w \in Worker : cyc[w].until \in Nat
    <2>1. now \in Nat /\ MaxTime \in Nat /\ Ttl \in Nat
          BY LeasesAssumption DEF IInv, TypeOK
    <2>2. now' \in 1..MaxTime
          BY <1>1, <2>1
    <2>3. \A i \in DOMAIN leases : leases[i].expires \in Nat
      <3>1. \A i \in DOMAIN leases : leases[i] \in Lease
            BY DEF IInv, TypeOK
      <3>2. QED
            BY <3>1 DEF Lease
    <2>4. \A w \in Worker : cyc[w] \in CycleLocals
          BY DEF IInv, TypeOK
    <2>5. \A w \in Worker : cyc[w].until \in Nat
          BY <2>1, <2>4 DEF CycleLocals
    <2>6. QED
          BY <2>1, <2>2, <2>3, <2>5
  <1>3. /\ \A i \in DOMAIN leases : Expired(leases[i]) => leases[i].expires < now'
        /\ \A i \in DOMAIN leases : leases[i].expires <= now + Ttl => leases[i].expires <= now' + Ttl
        /\ \A w \in Worker : now' <= cyc[w].until => now <= cyc[w].until
        BY <1>1, <1>2 DEF Expired
  <1>4. TypeOK'
        BY <1>1, <1>2 DEF IInv, TypeOK
  <1>5. WellMade' /\ ClaimsDisjoint'
        BY <1>1, <1>3 DEF IInv, WellMade, ClaimsDisjoint, Expired
  <1>6. ClaimsStand' /\ Scoped'
        BY <1>1, <1>3 DEF IInv, ClaimsStand, Stands, Scoped, ClaimsFiles
  <1>7. Returnable'
    <2>1. \A w \in Worker : Mine(w)' = Mine(w)
          BY <1>1 DEF Mine
    <2>2. QED
          BY <1>1, <1>3, <2>1 DEF IInv, Returnable, Expired, ClaimsFiles
  <1>8. QED
        BY <1>4, <1>5, <1>6, <1>7 DEF IInv

LEMMA EditKeeps ==
  ASSUME IInv, UNCHANGED <<leases, now, run, pc, cyc>>, dirty' \in BOOLEAN
  PROVE  IInv'
  <1>1. TypeOK'
        BY DEF IInv, TypeOK, run
  <1>2. WellMade' /\ ClaimsDisjoint' /\ ClaimsStand' /\ Scoped'
        BY DEF IInv, WellMade, ClaimsDisjoint, ClaimsStand, Stands, Scoped, Expired, ClaimsFiles, run
  <1>3. Returnable'
    <2>1. \A w \in Worker : Mine(w)' = Mine(w)
          BY DEF Mine, run
    <2>2. QED
          BY <2>1 DEF IInv, Returnable, Expired, ClaimsFiles, run
  <1>4. QED
        BY <1>1, <1>2, <1>3 DEF IInv

LEMMA NextKeeps == IInv /\ [Next]_vars => IInv'
  <1> SUFFICES ASSUME IInv, [Next]_vars PROVE IInv'
      OBVIOUS
  <1>1. CASE \E w \in Worker : Step(w)
    <2>1. PICK w \in Worker : Step(w)
          BY <1>1
    <2>2. CASE \E t \in Task : Start(w, t)
          BY <2>2, StartKeeps
    <2>3. CASE Route(w) \/ Ship(w) \/ Guard(w) \/ Judge(w) \/ EndLane(w)
          BY <2>3, RouteKeeps, ShipKeeps, GuardKeeps, JudgeKeeps, EndLaneKeeps
    <2>4. CASE Acquire(w) \/ AcquireFails(w) \/ Release(w)
          BY <2>4, AcquireKeeps, AcquireFailsKeeps, ReleaseKeeps
    <2>5. QED
          BY <2>1, <2>2, <2>3, <2>4 DEF Step
  <1>2. CASE Crash
        BY <1>2, CrashKeeps
  <1>3. CASE Tick
        BY <1>3, TickKeeps
  <1>4. CASE Edit
        BY <1>4, EditKeeps DEF Edit
  <1>5. CASE UNCHANGED vars
    <2>1. dirty' \in BOOLEAN
          BY <1>5 DEF IInv, TypeOK, vars, clock
    <2>2. QED
          BY <1>5, <2>1, EditKeeps DEF vars, clock
  <1>6. QED
        BY <1>1, <1>2, <1>3, <1>4, <1>5 DEF Next

LEMMA InductiveInvariant == Spec => []IInv
  <1>1. QED
        BY InitHolds, NextKeeps, PTL DEF Spec
-----------------------------------------------------------------------------
(* The theorems *)

\* Types: one worker at a time unless the pool is wider, no task in two cycles,
\* and no other status in leases.json than the three that are looked for.
THEOREM TypeCorrect == Spec => []TypeOK
  <1>1. IInv => TypeOK
        BY DEF IInv
  <1>2. QED
        BY <1>1, InductiveInvariant, PTL

\* claim_disjoint: the pool's live leases claim disjoint files.
THEOREM LeasesAreDisjoint == Spec => []ClaimsDisjoint
  <1>1. IInv => ClaimsDisjoint
        BY DEF IInv
  <1>2. QED
        BY <1>1, InductiveInvariant, PTL

\* claim_disjoint, acquire_active_agent: a lane keeps its lease until it expires.
THEOREM HoldersKeepLeases == Spec => []HolderKeepsLease
  <1>1. IInv => HolderKeepsLease
    <2>1. "idle" \notin InLane
          BY DEF InLane
    <2>2. QED
          BY <2>1 DEF IInv, ClaimsStand, Stands, HolderKeepsLease
  <1>2. QED
        BY <1>1, InductiveInvariant, PTL

\* The scope guard of the patch lane: in the pool a patch stays within the claim
\* of its own task.
THEOREM ProposalsStayInScope == Spec => []ProposedInScope
  <1>1. IInv => ProposedInScope
        BY DEF IInv, Scoped, ProposedInScope, InOwnScope
  <1>2. QED
        BY <1>1, InductiveInvariant, PTL

\* release_active_agent: what is borrowed is given back, unless a crash prevents it.
THEOREM LeasesAreReturned == Spec => []BorrowedIsReturned
  <1>1. IInv => BorrowedIsReturned
    <2> SUFFICES ASSUME IInv, crashes = 0, NEW i \in DOMAIN leases, leases[i].agent # Free,
                        ~Expired(leases[i]), pool => ClaimsFiles(leases[i].task)
                 PROVE  \E w \in Worker : /\ pc[w] \in InLane /\ cyc[w].agent = leases[i].agent
                                          /\ pool => cyc[w].task = leases[i].task
        BY DEF BorrowedIsReturned
    <2>1. PICK w \in Worker : /\ pc[w] \in InLane /\ cyc[w].agent = leases[i].agent /\ i \in Mine(w)
          BY DEF IInv, Returnable
    <2>2. QED
          BY <2>1, MineFacts DEF IInv
  <1>2. QED
        BY <1>1, InductiveInvariant, PTL
=============================================================================
