------------------------- MODULE GateRegistryProofs -------------------------
(***************************************************************************)
(* The session registry for any roles, times and budgets: a ship runs on    *)
(* passes that every role spoke itself and no longer ago than the TTL, and, *)
(* where calls do not overlap, on every role's latest verdict.              *)
(***************************************************************************)
EXTENDS GateRegistry, SequenceTheorems, TLAPS

\* What a call has still to record fits where it is.
SaidRight(p) ==
  /\ Len(said[p]) <= 3
  /\ p \in Role => said[p] \in Seq(Verdict)
  /\ p \notin Role => said[p] \in {<<>>, <<"none">>}
  /\ pc[p] = "idle" => said[p] = <<>>
  /\ pc[p] \in {"turn", "settle"} => p \in Role /\ said[p] # <<>>
  /\ pc[p] \in {"look", "shipping"} => p = Loop /\ said[p] = <<>>
  /\ pc[p] = "shipping" => Passes(snap[p])

\* Whoever writes whatever when, a pass on file or about to be written was
\* spoken by its own role at the time it carries.
PassesAreOwn == \A r \in Role : file[r].status = "passed" => file[r].beat \in spoken[r]
SnapsAreOwn ==
  \A p \in Process : \A r \in Role : snap[p][r].status = "passed" => snap[p][r].beat \in spoken[r]
SpokenBefore == \A r \in Role : spoken[r] \subseteq 1..now
Fresh == PassesAreOwn /\ SnapsAreOwn /\ SpokenBefore /\ ShipsOnFreshPasses

\* One call at a time.
OneCall == alone => \A p, q \in Process : pc[p] # "idle" /\ pc[q] # "idle" => p = q

\* A call that nobody overlaps fills the file that it has emptied.
FillsEmpty == alone => \A p \in Process : pc[p] = "fill" => file = Empty

\* What last[r] will be once p's snapshot is on file.
WillBe(p, r) == IF said[p] # <<>> /\ p \in {r, Loop} THEN Head(said[p]) ELSE last[r]

\* A pass on file is the role's latest verdict, and so is one about to be.
FileIsLatest == alone => \A r \in Role : file[r].status = "passed" => last[r] = "passed"
SnapIsLatest(p) ==
  alone /\ pc[p] \in {"write", "fill", "shipping"} =>
    \A r \in Role : snap[p][r].status = "passed" => WillBe(p, r) = "passed"

Saids == \A p \in Process : SaidRight(p)
Latest == OneCall /\ FillsEmpty /\ FileIsLatest /\ \A p \in Process : SnapIsLatest(p)
IInv == TypeOK /\ Saids /\ Fresh /\ Latest
-----------------------------------------------------------------------------
LEMMA Shapes ==
  /\ Empty \notin Registry /\ Garbled \notin Registry /\ Empty # Garbled
  /\ \A f \in Broken : \A q \in Role : f[q].status \notin {"passed", "blocked"}
  /\ NoRegistry \in Registry
  /\ MaxTime \in Nat \ {0} /\ Ttl \in Nat \ {0} /\ Crashes \in Nat
  /\ Loop \notin Role /\ Loop \in Process /\ Role \subseteq Process /\ Role # {}
  /\ \A p \in Process : p \notin Role => p = Loop
  <1>1. /\ Empty = [q \in Role |-> [status |-> "empty", beat |-> 0]]
        /\ Garbled = [q \in Role |-> [status |-> "garbled", beat |-> 0]]
        /\ Broken = {Empty, Garbled}
        BY DEF Empty, Garbled, Unreadable, Broken
  <1>2. PICK q \in Role : TRUE
        BY GateAssumption
  <1>3. \A f \in Registry : f[q].status \in Verdict \cup {"none", "idle", "stale", "pending-omc-review"}
        BY DEF Registry, Record
  <1>4. Empty[q].status = "empty" /\ Garbled[q].status = "garbled"
        BY <1>1
  <1>5. Empty \notin Registry /\ Garbled \notin Registry /\ Empty # Garbled
        BY <1>3, <1>4 DEF Verdict
  <1>6. \A f \in Broken : \A u \in Role : f[u].status \notin {"passed", "blocked"}
        BY <1>1
  <1>7. NoRegistry \in Registry
        BY GateAssumption DEF Registry, Record, NoRegistry, NoRecord
  <1> QED BY <1>5, <1>6, <1>7, GateAssumption DEF Process

LEMMA Budgets ==
  ASSUME alone \in Modes
  PROVE  Turns[alone] \in Nat /\ Calls[alone] \in Nat /\ Crashes \in Nat
  BY GateAssumption

\* What is left of the budget stays in its bounds.
LEMMA Spend ==
  ASSUME TypeOK
  PROVE  LET Left == [turns : 0..Turns[alone], calls : 0..Calls[alone], crashes : 0..Crashes] IN
         /\ left.turns > 0 => /\ [left EXCEPT !.turns = left.turns - 1] \in Left
                              /\ [left EXCEPT !.turns = left.turns - 1].crashes = left.crashes
         /\ left.calls > 0 => /\ [left EXCEPT !.calls = left.calls - 1] \in Left
                              /\ [left EXCEPT !.calls = left.calls - 1].crashes = left.crashes
         /\ left.crashes > 0 => /\ [left EXCEPT !.crashes = left.crashes - 1] \in Left
                                /\ [left EXCEPT !.crashes = left.crashes - 1].crashes < Crashes
  <1> DEFINE Left == [turns : 0..Turns[alone], calls : 0..Calls[alone], crashes : 0..Crashes]
  <1>1. left \in Left /\ Turns[alone] \in Nat /\ Calls[alone] \in Nat /\ Crashes \in Nat
        BY Budgets DEF TypeOK
  <1>2. left.turns \in 0..Turns[alone] /\ left.calls \in 0..Calls[alone] /\ left.crashes \in 0..Crashes
        BY <1>1
  <1>3. left.turns > 0 => left.turns - 1 \in 0..Turns[alone]
        BY <1>1, <1>2
  <1>4. left.calls > 0 => left.calls - 1 \in 0..Calls[alone]
        BY <1>1, <1>2
  <1>5. left.crashes > 0 => left.crashes - 1 \in 0..Crashes /\ left.crashes - 1 < Crashes
        BY <1>1, <1>2
  <1> QED BY <1>1, <1>3, <1>4, <1>5

LEMMA InitHolds == Init => IInv
  <1> SUFFICES ASSUME Init PROVE IInv
      OBVIOUS
  <1>1. Turns[alone] \in Nat /\ Calls[alone] \in Nat /\ Crashes \in Nat /\ 1 \in Time /\ alone \in Modes
        BY GateAssumption DEF Init, Time
  <1>2. TypeOK
    <2>1. file \in Registry /\ file # Empty /\ file # Garbled
          BY Shapes DEF Init
    <2>2. left \in [turns : 0..Turns[alone], calls : 0..Calls[alone], crashes : 0..Crashes]
          BY <1>1 DEF Init
    <2>3. /\ pc \in [Process -> Label] /\ snap \in [Process -> Registry]
          /\ said \in [Process -> Seq(Verdict \cup {"none"})]
          /\ spoken \in [Role -> SUBSET Time] /\ last \in [Role -> Verdict \cup {"none"}]
          BY Shapes DEF Init, Label
    <2>4. now \in Time /\ readAt \in Time
          BY <1>1 DEF Init
    <2> QED BY <1>1, <2>1, <2>2, <2>3, <2>4 DEF TypeOK
  <1>3. Saids
    <2>1. <<>> \in Seq(Verdict) /\ Len(<<>>) = 0
          OBVIOUS
    <2> QED BY <2>1, Shapes DEF Init, Saids, SaidRight
  <1>4. Fresh
        BY Shapes DEF Init, Fresh, PassesAreOwn, SnapsAreOwn, SpokenBefore, ShipsOnFreshPasses,
                      NoRegistry, NoRecord
  <1>5. Latest
        BY Shapes DEF Init, Latest, OneCall, FillsEmpty, FileIsLatest, SnapIsLatest, NoRegistry, NoRecord
  <1> QED BY <1>2, <1>3, <1>4, <1>5 DEF IInv
-----------------------------------------------------------------------------
(* The steps *)

\* A file that nobody touches stays empty for the same reason.
LEMMA StillEmpty ==
  ASSUME TypeOK, file' = file, left'.crashes = left.crashes,
         \A p \in Process : pc[p] = "fill" => pc'[p] = "fill"
  PROVE  file' = Empty => left'.crashes < Crashes \/ \E p \in Process : pc'[p] = "fill"
  BY DEF TypeOK

LEMMA TurnKeeps ==
  ASSUME IInv, NEW r \in Role, Turn(r)
  PROVE  IInv'
  <1>i. TypeOK /\ Saids /\ Fresh /\ Latest /\ r \in Process /\ r # Loop
        BY Shapes DEF IInv
  <1>1. PICK u \in Verdict, v \in Verdict : said' = [said EXCEPT ![r] = IF u = v THEN <<u>> ELSE Dual(u, v)]
        BY DEF Turn
  <1> DEFINE new == IF u = v THEN <<u>> ELSE Dual(u, v)
  <1>2. new \in Seq(Verdict) /\ new \in Seq(Verdict \cup {"none"}) /\ new # <<>> /\ Len(new) <= 3
    <2>1. Stricter(u, v) \in Verdict
          BY DEF Stricter, Verdict
    <2>2. Dual(u, v) = <<u, v, Stricter(u, v)>>
          BY DEF Dual
    <2>3. CASE u = v
          BY <2>3
    <2>4. CASE u # v
          BY <2>1, <2>2, <2>4
    <2> QED BY <2>3, <2>4
  <1>3. /\ said' \in [Process -> Seq(Verdict \cup {"none"})] /\ said'[r] = new
        /\ \A p \in Process : p # r => said'[p] = said[p] /\ pc'[p] = pc[p]
        /\ pc' \in [Process -> Label] /\ pc[r] = "idle" /\ pc'[r] = "turn"
        BY <1>1, <1>2, <1>i DEF TypeOK, Turn, MayCall, Goto, Label
  <1>4. TypeOK'
    <2>1. left' \in [turns : 0..Turns[alone], calls : 0..Calls[alone], crashes : 0..Crashes]
          /\ left'.crashes = left.crashes
      <3>1. left.turns > 0 /\ left' = [left EXCEPT !.turns = left.turns - 1]
            BY DEF Turn
      <3> QED BY <1>i, <3>1, Spend
    <2>2. file = Empty => left.crashes < Crashes \/ \E p \in Process : pc'[p] = "fill"
      <3>1. \A p \in Process : pc[p] = "fill" => pc'[p] = "fill"
            BY <1>3
      <3> QED BY <1>i, <3>1 DEF TypeOK
    <2>3. UNCHANGED <<file, now, alone, snap, readAt, spoken, last>>
          BY DEF Turn, history
    <2> QED BY <1>i, <1>3, <2>1, <2>2, <2>3 DEF TypeOK
  <1>5. Saids'
    <2>1. SaidRight(r)'
          BY <1>2, <1>3 DEF SaidRight
    <2>2. ASSUME NEW p \in Process, p # r PROVE SaidRight(p)'
      <3>1. SaidRight(p) /\ said'[p] = said[p] /\ pc'[p] = pc[p] /\ snap' = snap
            BY <1>i, <1>3, <2>2 DEF Saids, Turn
      <3> QED BY <3>1 DEF SaidRight, Passes
    <2> QED BY <2>1, <2>2 DEF Saids
  <1>6. Fresh'
        BY <1>i, <1>3, Shapes DEF Fresh, PassesAreOwn, SnapsAreOwn, SpokenBefore, ShipsOnFreshPasses, Turn, history
  <1>7. Latest'
        BY <1>i, <1>3, Shapes DEF Latest, OneCall, FillsEmpty, FileIsLatest, SnapIsLatest, WillBe, Turn, MayCall, history
  <1> QED BY <1>4, <1>5, <1>6, <1>7 DEF IInv

LEMMA HeartbeatKeeps ==
  ASSUME IInv, NEW r \in Role, Heartbeat(r)
  PROVE  IInv'
  <1>i. TypeOK /\ Saids /\ Fresh /\ Latest /\ r \in Process /\ r # Loop
        BY Shapes DEF IInv
  <1> DEFINE v == Head(said[r])
  <1>1. v \in Verdict /\ said[r] # <<>>
    <2>1. said[r] \in Seq(Verdict) /\ said[r] # <<>>
          BY <1>i DEF Saids, SaidRight, Heartbeat
    <2> QED BY <2>1, HeadTailProperties
  <1>2. /\ file \in Registry /\ file # Empty /\ file # Garbled /\ now \in Time /\ now \in 0..MaxTime
        /\ snap' = [snap EXCEPT ![r] = Set(file, r, v)]
        /\ spoken' = IF v = "passed" THEN [spoken EXCEPT ![r] = @ \cup {now}] ELSE spoken
        /\ pc[r] \in {"turn", "settle"} /\ pc' = [pc EXCEPT ![r] = "write"]
        /\ UNCHANGED <<file, now, alone, said, readAt, last, left>>
        BY <1>i, Shapes DEF TypeOK, Heartbeat, Goto, Time, Broken
  <1>3. /\ Set(file, r, v) \in Registry
        /\ Set(file, r, v)[r] = [status |-> v, beat |-> now]
        /\ \A q \in Role : q # r => Set(file, r, v)[q] = file[q]
    <2>1. [status |-> v, beat |-> now] \in Record
          BY <1>1, <1>2 DEF Record
    <2> QED BY <1>2, <2>1 DEF Set, Registry
  <1>4. /\ snap' \in [Process -> Registry] /\ snap'[r] = Set(file, r, v)
        /\ \A p \in Process : p # r => snap'[p] = snap[p] /\ pc'[p] = pc[p]
        /\ pc' \in [Process -> Label] /\ pc'[r] = "write"
        /\ spoken' \in [Role -> SUBSET Time]
        /\ \A q \in Role : spoken[q] \subseteq spoken'[q] /\ spoken'[q] \subseteq spoken[q] \cup {now}
        /\ v = "passed" => now \in spoken'[r]
        BY <1>i, <1>2, <1>3 DEF TypeOK, Label
  <1>5. TypeOK'
    <2>1. \A p \in Process : pc[p] = "fill" => pc'[p] = "fill"
          BY <1>2, <1>4
    <2>2. file' = Empty => left'.crashes < Crashes \/ \E p \in Process : pc'[p] = "fill"
          BY <1>i, <1>2, <2>1, StillEmpty
    <2> QED BY <1>i, <1>2, <1>4, <2>2 DEF TypeOK
  <1>6. Saids'
    <2>1. ASSUME NEW p \in Process PROVE SaidRight(p)'
      <3>1. SaidRight(p) /\ said'[p] = said[p]
            BY <1>i, <1>2 DEF Saids
      <3>2. CASE p = r
            BY <1>i, <1>4, <3>1, <3>2 DEF SaidRight
      <3>3. CASE p # r
        <4>1. pc'[p] = pc[p] /\ snap'[p] = snap[p]
              BY <1>4, <3>3
        <4> QED BY <3>1, <4>1 DEF SaidRight, Passes
      <3> QED BY <3>2, <3>3
    <2> QED BY <2>1 DEF Saids
  <1>7. Fresh'
    <2>1. PassesAreOwn' /\ ShipsOnFreshPasses'
          BY <1>i, <1>2, <1>4, Shapes DEF Fresh, PassesAreOwn, ShipsOnFreshPasses
    <2>2. SnapsAreOwn'
          BY <1>i, <1>2, <1>3, <1>4 DEF Fresh, SnapsAreOwn, PassesAreOwn
    <2>3. SpokenBefore'
      <3>1. now \in 1..now
            BY <1>2 DEF Time
      <3> QED BY <1>i, <1>2, <1>4, <3>1 DEF Fresh, SpokenBefore
    <2> QED BY <2>1, <2>2, <2>3 DEF Fresh
  <1>8. Latest'
    <2>1. OneCall' /\ FillsEmpty' /\ FileIsLatest'
          BY <1>i, <1>2, <1>4 DEF Latest, OneCall, FillsEmpty, FileIsLatest
    <2>2. SnapIsLatest(r)'
          BY <1>i, <1>1, <1>2, <1>3, <1>4 DEF Latest, FileIsLatest, SnapIsLatest, WillBe
    <2>3. ASSUME NEW p \in Process, p # r PROVE SnapIsLatest(p)'
          BY <1>i, <1>2, <1>4, <2>3 DEF Latest, SnapIsLatest, WillBe
    <2> QED BY <2>1, <2>2, <2>3 DEF Latest
  <1> QED BY <1>5, <1>6, <1>7, <1>8 DEF IInv

\* A call that is given up has nothing more to write.
LEMMA GiveUpKeeps ==
  ASSUME IInv, NEW p \in Process, GiveUp(p),
         UNCHANGED <<file, now, alone, spoken, last>>,
         readAt' \in Time, p # Loop => readAt' = readAt,
         left' \in [turns : 0..Turns[alone], calls : 0..Calls[alone], crashes : 0..Crashes],
         left'.crashes < Crashes \/ (left' = left /\ pc[p] # "fill")
  PROVE  IInv'
  <1>i. TypeOK /\ Saids /\ Fresh /\ Latest
        BY DEF IInv
  <1>1. /\ pc' \in [Process -> Label] /\ pc'[p] = "idle"
        /\ snap' \in [Process -> Registry] /\ snap'[p] = NoRegistry
        /\ said' \in [Process -> Seq(Verdict \cup {"none"})] /\ said'[p] = <<>>
        /\ \A q \in Process : q # p => snap'[q] = snap[q] /\ pc'[q] = pc[q] /\ said'[q] = said[q]
        BY <1>i, Shapes DEF TypeOK, GiveUp, Goto, Label
  <1>2. TypeOK'
    <2>1. file' = Empty => left'.crashes < Crashes \/ \E q \in Process : pc'[q] = "fill"
      <3>1. CASE left'.crashes < Crashes
            BY <3>1
      <3>2. CASE left' = left /\ pc[p] # "fill"
        <4>1. \A q \in Process : pc[q] = "fill" => pc'[q] = "fill"
              BY <1>1, <3>2
        <4> QED BY <1>i, <3>2, <4>1, StillEmpty
      <3> QED BY <3>1, <3>2
    <2> QED BY <1>i, <1>1, <2>1 DEF TypeOK
  <1>3. Saids'
    <2>1. SaidRight(p)'
      <3>1. <<>> \in Seq(Verdict) /\ Len(<<>>) = 0
            OBVIOUS
      <3> QED BY <1>1, <3>1 DEF SaidRight
    <2>2. ASSUME NEW q \in Process, q # p PROVE SaidRight(q)'
      <3>1. SaidRight(q) /\ said'[q] = said[q] /\ pc'[q] = pc[q] /\ snap'[q] = snap[q]
            BY <1>i, <1>1, <2>2 DEF Saids
      <3> QED BY <3>1 DEF SaidRight, Passes
    <2> QED BY <2>1, <2>2 DEF Saids
  <1>4. Fresh'
    <2>1. PassesAreOwn' /\ SpokenBefore'
          BY <1>i DEF Fresh, PassesAreOwn, SpokenBefore
    <2>2. SnapsAreOwn'
      <3>1. \A r \in Role : snap'[p][r].status # "passed"
            BY <1>1 DEF NoRegistry, NoRecord
      <3>2. ASSUME NEW q \in Process, q # p, NEW r \in Role, snap'[q][r].status = "passed"
            PROVE  snap'[q][r].beat \in spoken'[r]
            BY <1>i, <1>1, <3>2 DEF Fresh, SnapsAreOwn
      <3> QED BY <3>1, <3>2 DEF SnapsAreOwn
    <2>3. ShipsOnFreshPasses'
          BY <1>i, <1>1, Shapes DEF Fresh, ShipsOnFreshPasses
    <2> QED BY <2>1, <2>2, <2>3 DEF Fresh
  <1>5. Latest'
    <2>1. OneCall' /\ FillsEmpty' /\ FileIsLatest'
          BY <1>i, <1>1 DEF Latest, OneCall, FillsEmpty, FileIsLatest
    <2>2. SnapIsLatest(p)'
          BY <1>1 DEF SnapIsLatest
    <2>3. ASSUME NEW q \in Process, q # p PROVE SnapIsLatest(q)'
      <3>1. SnapIsLatest(q) /\ said'[q] = said[q] /\ pc'[q] = pc[q] /\ snap'[q] = snap[q]
            BY <1>i, <1>1, <2>3 DEF Latest
      <3> QED BY <3>1 DEF SnapIsLatest, WillBe
    <2> QED BY <2>1, <2>2, <2>3 DEF Latest
  <1> QED BY <1>2, <1>3, <1>4, <1>5 DEF IInv

LEMMA HeartbeatFailsKeeps ==
  ASSUME IInv, NEW r \in Role, HeartbeatFails(r)
  PROVE  IInv'
  BY GiveUpKeeps, Shapes DEF HeartbeatFails, history, IInv, TypeOK

LEMMA CrashKeeps ==
  ASSUME IInv, NEW p \in Process, Crash(p)
  PROVE  IInv'
  <1>1. left' = [left EXCEPT !.crashes = left.crashes - 1] /\ left.crashes > 0
        BY DEF Crash
  <1>2. left' \in [turns : 0..Turns[alone], calls : 0..Calls[alone], crashes : 0..Crashes]
        /\ left'.crashes < Crashes
        BY <1>1, Spend DEF IInv
  <1>3. readAt' \in Time /\ (p # Loop => readAt' = readAt)
        BY Shapes DEF Crash, IInv, TypeOK, Time
  <1> QED BY <1>2, <1>3, GiveUpKeeps DEF Crash, history

LEMMA TruncateKeeps ==
  ASSUME IInv, NEW p \in Process, Truncate(p)
  PROVE  IInv'
  <1>i. TypeOK /\ Saids /\ Fresh /\ Latest
        BY DEF IInv
  <1>1. /\ pc[p] = "write" /\ pc' \in [Process -> Label] /\ pc'[p] = "fill"
        /\ \A q \in Process : q # p => pc'[q] = pc[q]
        /\ file' = Empty /\ file' \in Broken /\ file' # Garbled
        /\ UNCHANGED <<now, alone, snap, said, readAt, spoken, last, left>>
        BY <1>i, Shapes DEF TypeOK, Truncate, Goto, Label, history, Broken
  <1>2. TypeOK'
        BY <1>i, <1>1 DEF TypeOK
  <1>3. Saids'
    <2>1. ASSUME NEW q \in Process PROVE SaidRight(q)'
      <3>1. SaidRight(q) /\ said'[q] = said[q] /\ snap'[q] = snap[q]
            BY <1>i, <1>1 DEF Saids
      <3>2. CASE q = p
            BY <1>1, <3>1, <3>2 DEF SaidRight
      <3>3. CASE q # p
            BY <1>1, <3>1, <3>3 DEF SaidRight, Passes
      <3> QED BY <3>2, <3>3
    <2> QED BY <2>1 DEF Saids
  <1>4. Fresh'
    <2>1. PassesAreOwn'
          BY <1>1, Shapes DEF PassesAreOwn
    <2>2. SnapsAreOwn' /\ SpokenBefore'
          BY <1>i, <1>1 DEF Fresh, SnapsAreOwn, SpokenBefore
    <2>3. ShipsOnFreshPasses'
          BY <1>i, <1>1, Shapes DEF Fresh, ShipsOnFreshPasses
    <2> QED BY <2>1, <2>2, <2>3 DEF Fresh
  <1>5. Latest'
    <2>1. OneCall' /\ FillsEmpty'
          BY <1>i, <1>1 DEF Latest, OneCall, FillsEmpty
    <2>2. FileIsLatest'
          BY <1>1, Shapes DEF FileIsLatest
    <2>3. ASSUME NEW q \in Process PROVE SnapIsLatest(q)'
      <3>1. SnapIsLatest(q) /\ (pc'[q] \in {"write", "fill", "shipping"} => pc[q] \in {"write", "fill", "shipping"})
            BY <1>i, <1>1 DEF Latest
      <3> QED BY <1>1, <3>1 DEF SnapIsLatest, WillBe
    <2> QED BY <2>1, <2>2, <2>3 DEF Latest
  <1> QED BY <1>2, <1>3, <1>4, <1>5 DEF IInv

LEMMA FillKeeps ==
  ASSUME IInv, NEW p \in Process, Fill(p)
  PROVE  IInv'
  <1>i. TypeOK /\ Saids /\ Fresh /\ Latest
        BY DEF IInv
  <1> DEFINE words == said[p]
  <1>1. /\ pc[p] = "fill" /\ snap[p] \in Registry
        /\ file' \in {snap[p], Garbled} /\ file' # Empty /\ (alone => file' = snap[p])
        /\ snap' \in [Process -> Registry] /\ snap'[p] = NoRegistry
        /\ \A q \in Process : q # p => snap'[q] = snap[q]
        /\ UNCHANGED <<now, alone, readAt, spoken, left>>
        BY <1>i, Shapes DEF TypeOK, Fill, Written, Latest, FillsEmpty
  <1>2. /\ words \in Seq(Verdict \cup {"none"}) /\ Len(words) <= 3
        /\ p \in Role => words \in Seq(Verdict)
        /\ p \notin Role => words \in {<<>>, <<"none">>}
        BY <1>i DEF TypeOK, Saids, SaidRight
  <1>3. ASSUME words # <<>>
        PROVE  /\ Len(words) \in {1, 2, 3} /\ Head(words) \in Verdict \cup {"none"}
               /\ Tail(words) \in Seq(Verdict \cup {"none"})
               /\ Len(Tail(words)) = Len(words) - 1
               /\ p \in Role => Tail(words) \in Seq(Verdict)
               /\ p \notin Role => words = <<"none">>
               /\ Tail(words) = <<>> <=> Len(words) = 1
               /\ Len(words) # 1 => p \in Role
    <2>1. /\ Head(words) \in Verdict \cup {"none"} /\ Tail(words) \in Seq(Verdict \cup {"none"})
          /\ Len(Tail(words)) = Len(words) - 1
          BY <1>2, <1>3, HeadTailProperties
    <2>2. Len(words) \in {1, 2, 3}
      <3>1. Len(words) \in Nat /\ Len(words) # 0
            BY <1>2, <1>3, EmptySeq
      <3>2. Len(words) <= 3
            BY <1>2
      <3>3. \A n \in Nat : n # 0 /\ n <= 3 => n \in {1, 2, 3}
            OBVIOUS
      <3> HIDE DEF words
      <3> QED BY <3>1, <3>2, <3>3
    <2>3. p \in Role => Tail(words) \in Seq(Verdict)
          BY <1>2, <1>3, HeadTailProperties
    <2>4. p \notin Role => words = <<"none">>
          BY <1>2, <1>3
    <2>5. Tail(words) = <<>> <=> Len(words) = 1
      <3> HIDE DEF words
      <3> QED BY <2>1, <2>2, EmptySeq
    <2>6. Len(words) # 1 => p \in Role
      <3>1. Len(<<"none">>) = 1
            OBVIOUS
      <3> HIDE DEF words
      <3> QED BY <2>4, <3>1
    <2> HIDE DEF words
    <2> QED BY <2>1, <2>2, <2>3, <2>4, <2>5, <2>6
  <1>10. ASSUME NEW n \in {1, 2, 3}
        PROVE  /\ <<"idle", "settle", "turn">>[n] \in {"idle", "settle", "turn"}
               /\ n = 1 => <<"idle", "settle", "turn">>[n] = "idle"
               /\ n # 1 => <<"idle", "settle", "turn">>[n] \in {"settle", "turn"}
    <2>1. /\ <<"idle", "settle", "turn">>[1] = "idle"
          /\ <<"idle", "settle", "turn">>[2] = "settle"
          /\ <<"idle", "settle", "turn">>[3] = "turn"
          OBVIOUS
    <2> QED BY <2>1
  <1>4. /\ pc' \in [Process -> Label] /\ \A q \in Process : q # p => pc'[q] = pc[q]
        /\ said' \in [Process -> Seq(Verdict \cup {"none"})]
        /\ \A q \in Process : q # p => said'[q] = said[q]
        /\ pc'[p] \in {"idle", "settle", "turn"}
        /\ last' \in [Role -> Verdict \cup {"none"}]
    <2>1. CASE words = <<>>
      <3>1. pc' = [pc EXCEPT ![p] = "idle"] /\ said' = said /\ last' = last
            BY <2>1 DEF Fill, Goto
      <3> QED BY <1>i, <3>1 DEF TypeOK, Label
    <2>2. CASE words # <<>>
      <3>1. /\ pc' = [pc EXCEPT ![p] = <<"idle", "settle", "turn">>[Len(words)]]
            /\ said' = [said EXCEPT ![p] = Tail(words)]
            /\ last' = [r \in Role |-> IF alone /\ p \in {r, Loop} THEN Head(words) ELSE last[r]]
            BY <2>2 DEF Fill, Goto
      <3>2. <<"idle", "settle", "turn">>[Len(words)] \in {"idle", "settle", "turn"}
        <4> HIDE DEF words
        <4> QED BY <1>3, <2>2, <1>10
      <3> QED BY <1>i, <1>3, <2>2, <3>1, <3>2 DEF TypeOK, Label
    <2> QED BY <2>1, <2>2
  <1>5. TypeOK'
    <2>1. file' \in Registry \cup Broken /\ (file' = Garbled => ~alone)
          BY <1>1, Shapes DEF Broken
    <2> QED BY <1>i, <1>1, <1>4, <2>1 DEF TypeOK
  <1>6. Saids'
    <2>1. SaidRight(p)'
      <3>1. CASE words = <<>>
        <4>1. pc'[p] = "idle" /\ said'[p] = <<>> /\ Len(<<>>) = 0
              BY <1>i, <3>1 DEF Fill, Goto, TypeOK
        <4> QED BY <4>1, <1>2, <3>1 DEF SaidRight
      <3>2. CASE words # <<>>
        <4>1. pc'[p] = <<"idle", "settle", "turn">>[Len(words)] /\ said'[p] = Tail(words)
              BY <1>i, <3>2 DEF Fill, Goto, TypeOK
        <4>2. Len(words) = 1 => pc'[p] = "idle" /\ Tail(words) = <<>>
          <5> HIDE DEF words
          <5> QED BY <1>3, <3>2, <4>1, <1>10
        <4>3. Len(words) # 1 => pc'[p] \in {"settle", "turn"} /\ Tail(words) # <<>> /\ p \in Role
          <5> HIDE DEF words
          <5> QED BY <1>3, <3>2, <4>1, <1>10
        <4>4. Len(words) \in {1, 2, 3}
              BY <1>3, <3>2
        <4>5. Len(Tail(words)) <= 3 /\ Tail(words) \in Seq(Verdict \cup {"none"})
          <5>1. Len(Tail(words)) = Len(words) - 1
                BY <1>3, <3>2
          <5>2. \A n \in {1, 2, 3} : n - 1 <= 3
                OBVIOUS
          <5>3. Len(Tail(words)) <= 3
            <6> HIDE DEF words
            <6> QED BY <4>4, <5>1, <5>2
          <5> QED BY <1>3, <3>2, <5>3
        <4>6. p \notin Role => Tail(words) = <<>>
              BY <1>3, <3>2, <4>3, <4>2
        <4> QED BY <1>3, <3>2, <4>1, <4>2, <4>3, <4>5, <4>6 DEF SaidRight
      <3> QED BY <3>1, <3>2
    <2>2. ASSUME NEW q \in Process, q # p PROVE SaidRight(q)'
      <3>1. SaidRight(q) /\ said'[q] = said[q] /\ pc'[q] = pc[q] /\ snap'[q] = snap[q]
            BY <1>i, <1>1, <1>4, <2>2 DEF Saids
      <3> QED BY <3>1 DEF SaidRight, Passes
    <2> QED BY <2>1, <2>2 DEF Saids
  <1>7. Fresh'
    <2>1. PassesAreOwn' /\ SpokenBefore'
      <3>1. \A r \in Role : Garbled[r].status # "passed"
            BY Shapes DEF Broken
      <3> QED BY <1>i, <1>1, <3>1 DEF Fresh, PassesAreOwn, SnapsAreOwn, SpokenBefore
    <2>2. SnapsAreOwn'
      <3>1. \A r \in Role : snap'[p][r].status # "passed"
            BY <1>1 DEF NoRegistry, NoRecord
      <3>2. ASSUME NEW q \in Process, q # p, NEW r \in Role, snap'[q][r].status = "passed"
            PROVE  snap'[q][r].beat \in spoken'[r]
            BY <1>i, <1>1, <3>2 DEF Fresh, SnapsAreOwn
      <3> QED BY <3>1, <3>2 DEF SnapsAreOwn
    <2>3. ShipsOnFreshPasses'
          BY <1>i, <1>1, <1>4, Shapes DEF Fresh, ShipsOnFreshPasses
    <2> QED BY <2>1, <2>2, <2>3 DEF Fresh
  <1>8. Latest'
    <2>1. OneCall' /\ FillsEmpty'
          BY <1>i, <1>1, <1>4 DEF Latest, OneCall, FillsEmpty
    <2>2. FileIsLatest'
      <3>1. alone => \A r \in Role : last'[r] = WillBe(p, r)
            BY DEF Fill, WillBe
      <3> QED BY <1>i, <1>1, <3>1 DEF Latest, FileIsLatest, SnapIsLatest
    <2>3. SnapIsLatest(p)'
          BY <1>4 DEF SnapIsLatest
    <2>4. ASSUME NEW q \in Process, q # p PROVE SnapIsLatest(q)'
          BY <1>i, <1>1, <1>4, <2>4 DEF Latest, OneCall, SnapIsLatest
    <2> QED BY <2>1, <2>2, <2>3, <2>4 DEF Latest
  <1> QED BY <1>5, <1>6, <1>7, <1>8 DEF IInv

\* What the loop makes of a record is a record, and a pass only of a pass that
\* is no older than the TTL.
LEMMA AgedRecord ==
  ASSUME NEW rec \in Record, readAt \in Time
  PROVE  /\ Aged(rec) \in Record
         /\ Aged(rec).status = "passed" => Aged(rec) = rec /\ readAt <= rec.beat + Ttl
  <1>1. readAt \in Nat /\ readAt \in 0..MaxTime /\ rec.beat \in Nat /\ Ttl \in Nat
        BY Shapes DEF Time, Record
  <1>2. CASE rec.status = "none"
        BY <1>1, <1>2 DEF Aged, Record
  <1>3. CASE rec.status # "none" /\ readAt > rec.beat + Ttl
        BY <1>1, <1>3 DEF Aged, Record
  <1>4. CASE rec.status # "none" /\ ~(readAt > rec.beat + Ttl)
        BY <1>1, <1>4 DEF Aged, Record
  <1> QED BY <1>2, <1>3, <1>4

LEMMA ActiveLoopKeeps ==
  ASSUME IInv, ActiveLoop
  PROVE  IInv'
  <1>i. TypeOK /\ Saids /\ Fresh /\ Latest /\ Loop \in Process
        BY Shapes DEF IInv
  <1> DEFINE registry == [r \in Role |-> Aged(file[r])]
  <1>1. /\ pc[Loop] = "look" /\ said[Loop] = <<>>
        /\ alone => \A q \in Process : pc[q] # "idle" => q = Loop
        /\ file \in Registry /\ file # Empty /\ file # Garbled
        /\ readAt \in Time
        BY <1>i, Shapes DEF TypeOK, ActiveLoop, Saids, SaidRight, Latest, OneCall, Broken
  <1>2. /\ registry \in Registry
        /\ \A r \in Role : registry[r].status = "passed" =>
             registry[r] = file[r] /\ readAt <= file[r].beat + Ttl
        BY <1>1, AgedRecord DEF Registry
  <1>3. /\ snap' = [snap EXCEPT ![Loop] = registry]
        /\ \/ pc' = [pc EXCEPT ![Loop] = "write"] /\ readAt' = 1
           \/ Passes(registry) /\ pc' = [pc EXCEPT ![Loop] = "shipping"] /\ readAt' = readAt
        /\ UNCHANGED <<file, now, alone, said, spoken, last, left>>
        BY DEF ActiveLoop, Goto, history
  <1>4. /\ snap' \in [Process -> Registry] /\ snap'[Loop] = registry
        /\ pc' \in [Process -> Label] /\ pc'[Loop] \in {"write", "shipping"} /\ readAt' \in Time
        /\ pc'[Loop] = "shipping" => Passes(registry) /\ readAt' = readAt
        /\ \A p \in Process : p # Loop => snap'[p] = snap[p] /\ pc'[p] = pc[p]
    <2> HIDE DEF registry
    <2>1. 1 \in Time /\ readAt \in Time
          BY <1>1, Shapes DEF Time
    <2>2. pc \in [Process -> Label] /\ snap \in [Process -> Registry]
          BY <1>i DEF TypeOK
    <2> QED BY <1>i, <1>2, <1>3, <2>1, <2>2 DEF Label
  <1>5. TypeOK'
        BY <1>i, <1>1, <1>3, <1>4 DEF TypeOK
  <1>6. Saids'
    <2>1. SaidRight(Loop)'
      <3>1. SaidRight(Loop)
            BY <1>i DEF Saids
      <3> QED BY <1>1, <1>3, <1>4, <3>1, Shapes DEF SaidRight, Passes
    <2>2. ASSUME NEW q \in Process, q # Loop PROVE SaidRight(q)'
      <3>1. SaidRight(q) /\ said'[q] = said[q] /\ pc'[q] = pc[q] /\ snap'[q] = snap[q]
            BY <1>i, <1>3, <1>4, <2>2 DEF Saids
      <3> QED BY <3>1 DEF SaidRight, Passes
    <2> QED BY <2>1, <2>2 DEF Saids
  <1>7. Fresh'
    <2>1. PassesAreOwn' /\ SpokenBefore'
          BY <1>i, <1>3 DEF Fresh, PassesAreOwn, SpokenBefore
    <2>2. SnapsAreOwn'
      <3>1. \A r \in Role : snap'[Loop][r].status = "passed" => snap'[Loop][r].beat \in spoken'[r]
        <4> HIDE DEF registry
        <4> QED BY <1>i, <1>2, <1>3, <1>4 DEF Fresh, PassesAreOwn
      <3>2. ASSUME NEW q \in Process, q # Loop, NEW r \in Role, snap'[q][r].status = "passed"
            PROVE  snap'[q][r].beat \in spoken'[r]
            BY <1>i, <1>3, <1>4, <3>2 DEF Fresh, SnapsAreOwn
      <3> QED BY <3>1, <3>2 DEF SnapsAreOwn
    <2>3. ShipsOnFreshPasses'
      <3> SUFFICES ASSUME pc'[Loop] = "shipping", NEW r \in Role
                   PROVE  \E beat \in spoken'[r] : readAt' <= beat + Ttl
          BY DEF ShipsOnFreshPasses
      <3>1. file[r].status = "passed" /\ readAt <= file[r].beat + Ttl /\ readAt' = readAt
        <4> HIDE DEF registry
        <4> QED BY <1>2, <1>4 DEF Passes
      <3>2. file[r].beat \in spoken[r]
            BY <1>i, <3>1 DEF Fresh, PassesAreOwn
      <3> QED BY <1>3, <3>1, <3>2
    <2> QED BY <2>1, <2>2, <2>3 DEF Fresh
  <1>8. Latest'
    <2>1. OneCall' /\ FillsEmpty' /\ FileIsLatest'
          BY <1>i, <1>1, <1>3, <1>4 DEF Latest, OneCall, FillsEmpty, FileIsLatest
    <2>2. SnapIsLatest(Loop)'
      <3> HIDE DEF registry
      <3> QED BY <1>i, <1>1, <1>2, <1>3, <1>4 DEF Latest, FileIsLatest, SnapIsLatest, WillBe
    <2>3. ASSUME NEW q \in Process, q # Loop PROVE SnapIsLatest(q)'
          BY <1>i, <1>3, <1>4, <2>3 DEF Latest, SnapIsLatest, WillBe
    <2> QED BY <2>1, <2>2, <2>3 DEF Latest
  <1> QED BY <1>5, <1>6, <1>7, <1>8 DEF IInv

LEMMA LookKeeps ==
  ASSUME IInv, Look
  PROVE  IInv'
  <1>i. TypeOK /\ Saids /\ Fresh /\ Latest /\ Loop \in Process
        BY Shapes DEF IInv
  <1>1. /\ pc[Loop] = "idle" /\ said[Loop] = <<>> /\ readAt' = now
        /\ alone => \A q \in Process : pc[q] = "idle"
        /\ pc' \in [Process -> Label] /\ pc'[Loop] = "look"
        /\ \A q \in Process : q # Loop => pc'[q] = pc[q]
        /\ UNCHANGED <<file, now, alone, snap, said, spoken, last>>
        /\ left.calls > 0 /\ left' = [left EXCEPT !.calls = left.calls - 1]
        BY <1>i DEF TypeOK, Look, LoopCall, MayCall, Goto, Label, Saids, SaidRight, history
  <1>2. TypeOK'
    <2>1. left' \in [turns : 0..Turns[alone], calls : 0..Calls[alone], crashes : 0..Crashes]
          /\ left'.crashes = left.crashes
          BY <1>i, <1>1, Spend
    <2>2. \A q \in Process : pc[q] = "fill" => pc'[q] = "fill"
          BY <1>1
    <2>3. file' = Empty => left'.crashes < Crashes \/ \E q \in Process : pc'[q] = "fill"
          BY <1>i, <1>1, <2>1, <2>2, StillEmpty
    <2> QED BY <1>i, <1>1, <2>1, <2>3 DEF TypeOK
  <1>3. Saids'
    <2>1. ASSUME NEW q \in Process PROVE SaidRight(q)'
      <3>1. SaidRight(q)
            BY <1>i DEF Saids
      <3>2. CASE q = Loop
            BY <1>1, <3>1, <3>2, Shapes DEF SaidRight
      <3>3. CASE q # Loop
            BY <1>1, <3>1, <3>3 DEF SaidRight, Passes
      <3> QED BY <3>2, <3>3
    <2> QED BY <2>1 DEF Saids
  <1>4. Fresh'
        BY <1>i, <1>1 DEF Fresh, PassesAreOwn, SnapsAreOwn, SpokenBefore, ShipsOnFreshPasses
  <1>5. Latest'
        BY <1>i, <1>1 DEF Latest, OneCall, FillsEmpty, FileIsLatest, SnapIsLatest, WillBe
  <1> QED BY <1>2, <1>3, <1>4, <1>5 DEF IInv

LEMMA ActiveLoopFailsKeeps ==
  ASSUME IInv, ActiveLoopFails
  PROVE  IInv'
  <1>1. Loop \in Process /\ readAt' \in Time /\ pc[Loop] # "fill" /\ left' = left
        BY Shapes DEF ActiveLoopFails, Time
  <1>2. left' \in [turns : 0..Turns[alone], calls : 0..Calls[alone], crashes : 0..Crashes]
        BY <1>1 DEF IInv, TypeOK
  <1> QED BY <1>1, <1>2, GiveUpKeeps DEF ActiveLoopFails, history

LEMMA ShippedKeeps ==
  ASSUME IInv, Shipped
  PROVE  IInv'
  <1>i. TypeOK /\ Saids /\ Fresh /\ Latest /\ Loop \in Process
        BY Shapes DEF IInv
  <1>1. /\ pc[Loop] = "shipping" /\ pc' = [pc EXCEPT ![Loop] = "write"] /\ readAt' = 1
        /\ pc' \in [Process -> Label] /\ pc'[Loop] = "write"
        /\ \A p \in Process : p # Loop => pc'[p] = pc[p]
        /\ UNCHANGED <<file, now, alone, snap, said, spoken, last, left>>
        BY <1>i DEF TypeOK, Shipped, Goto, Label, history
  <1>2. TypeOK'
    <2>1. \A p \in Process : pc[p] = "fill" => pc'[p] = "fill"
          BY <1>1
    <2>2. file' = Empty => left'.crashes < Crashes \/ \E p \in Process : pc'[p] = "fill"
          BY <1>i, <1>1, <2>1, StillEmpty
    <2> QED BY <1>i, <1>1, <2>2, Shapes DEF TypeOK, Time
  <1>3. Saids'
    <2>1. ASSUME NEW q \in Process PROVE SaidRight(q)'
      <3>1. SaidRight(q) /\ said'[q] = said[q] /\ snap'[q] = snap[q]
            BY <1>i, <1>1 DEF Saids
      <3>2. CASE q = Loop
            BY <1>1, <3>1, <3>2, Shapes DEF SaidRight
      <3>3. CASE q # Loop
            BY <1>1, <3>1, <3>3 DEF SaidRight, Passes
      <3> QED BY <3>2, <3>3
    <2> QED BY <2>1 DEF Saids
  <1>4. Fresh'
        BY <1>i, <1>1 DEF Fresh, PassesAreOwn, SnapsAreOwn, SpokenBefore, ShipsOnFreshPasses
  <1>5. Latest'
    <2>1. OneCall' /\ FillsEmpty' /\ FileIsLatest'
          BY <1>i, <1>1 DEF Latest, OneCall, FillsEmpty, FileIsLatest
    <2>2. ASSUME NEW q \in Process PROVE SnapIsLatest(q)'
      <3>1. SnapIsLatest(q) /\ (pc'[q] \in {"write", "fill", "shipping"} => pc[q] \in {"write", "fill", "shipping"})
            BY <1>i, <1>1 DEF Latest
      <3> QED BY <1>1, <3>1 DEF SnapIsLatest, WillBe
    <2> QED BY <2>1, <2>2 DEF Latest
  <1> QED BY <1>2, <1>3, <1>4, <1>5 DEF IInv

LEMMA InvalidateKeeps ==
  ASSUME IInv, Invalidate
  PROVE  IInv'
  <1>i. TypeOK /\ Saids /\ Fresh /\ Latest /\ Loop \in Process
        BY Shapes DEF IInv
  <1> DEFINE registry == [r \in Role |-> Reset(file[r])]
  <1>1. /\ pc[Loop] = "idle" /\ alone => \A q \in Process : pc[q] = "idle"
        /\ file \in Registry /\ file # Empty /\ file # Garbled
        BY <1>i, Shapes DEF TypeOK, Invalidate, LoopCall, MayCall, Broken
  <1>2. registry \in Registry /\ \A r \in Role : registry[r].status # "passed"
        BY <1>1 DEF Registry, Record, Reset
  <1>3. /\ snap' = [snap EXCEPT ![Loop] = registry] /\ said' = [said EXCEPT ![Loop] = <<"none">>]
        /\ pc' = [pc EXCEPT ![Loop] = "write"]
        /\ UNCHANGED <<file, now, alone, readAt, spoken, last>>
        BY DEF Invalidate, Goto, history
  <1>4. /\ snap' \in [Process -> Registry] /\ snap'[Loop] = registry
        /\ said' \in [Process -> Seq(Verdict \cup {"none"})] /\ said'[Loop] = <<"none">>
        /\ pc' \in [Process -> Label] /\ pc'[Loop] = "write"
        /\ \A p \in Process : p # Loop => snap'[p] = snap[p] /\ pc'[p] = pc[p] /\ said'[p] = said[p]
    <2>1. <<"none">> \in Seq(Verdict \cup {"none"})
          OBVIOUS
    <2> HIDE DEF registry
    <2> QED BY <1>i, <1>2, <1>3, <2>1 DEF TypeOK, Label
  <1>5. TypeOK'
    <2>1. left.calls > 0 /\ left' = [left EXCEPT !.calls = left.calls - 1]
          BY DEF Invalidate, LoopCall
    <2>2. left' \in [turns : 0..Turns[alone], calls : 0..Calls[alone], crashes : 0..Crashes]
          BY <1>i, <2>1, Spend
    <2> QED BY <1>i, <1>1, <1>3, <1>4, <2>2 DEF TypeOK
  <1>6. Saids'
    <2>1. SaidRight(Loop)'
      <3>1. Len(<<"none">>) = 1
            OBVIOUS
      <3> QED BY <1>4, <3>1, Shapes DEF SaidRight
    <2>2. ASSUME NEW q \in Process, q # Loop PROVE SaidRight(q)'
      <3>1. SaidRight(q) /\ said'[q] = said[q] /\ pc'[q] = pc[q] /\ snap'[q] = snap[q]
            BY <1>i, <1>4, <2>2 DEF Saids
      <3> QED BY <3>1 DEF SaidRight, Passes
    <2> QED BY <2>1, <2>2 DEF Saids
  <1>7. Fresh'
    <2>1. PassesAreOwn' /\ SpokenBefore' /\ ShipsOnFreshPasses'
          BY <1>i, <1>3, <1>4 DEF Fresh, PassesAreOwn, SpokenBefore, ShipsOnFreshPasses
    <2>2. SnapsAreOwn'
      <3>1. \A r \in Role : snap'[Loop][r].status # "passed"
            BY <1>2, <1>4
      <3>2. ASSUME NEW q \in Process, q # Loop, NEW r \in Role, snap'[q][r].status = "passed"
            PROVE  snap'[q][r].beat \in spoken'[r]
            BY <1>i, <1>3, <1>4, <3>2 DEF Fresh, SnapsAreOwn
      <3> QED BY <3>1, <3>2 DEF SnapsAreOwn
    <2> QED BY <2>1, <2>2 DEF Fresh
  <1>8. Latest'
    <2>1. OneCall' /\ FillsEmpty' /\ FileIsLatest'
          BY <1>i, <1>1, <1>3, <1>4 DEF Latest, OneCall, FillsEmpty, FileIsLatest
    <2>2. SnapIsLatest(Loop)'
          BY <1>2, <1>4 DEF SnapIsLatest
    <2>3. ASSUME NEW q \in Process, q # Loop PROVE SnapIsLatest(q)'
          BY <1>i, <1>3, <1>4, <2>3 DEF Latest, SnapIsLatest, WillBe
    <2> QED BY <2>1, <2>2, <2>3 DEF Latest
  <1> QED BY <1>5, <1>6, <1>7, <1>8 DEF IInv

\* Steps that touch neither a call nor the file: a reset that finds the file
\* broken, the clock, and a stutter.
LEMMA QuietKeeps ==
  ASSUME IInv, UNCHANGED <<file, alone, calls, history>>, now' \in Time, now <= now',
         left' \in [turns : 0..Turns[alone], calls : 0..Calls[alone], crashes : 0..Crashes],
         left'.crashes = left.crashes
  PROVE  IInv'
  <1>i. TypeOK /\ Saids /\ Fresh /\ Latest
        BY DEF IInv
  <1>1. UNCHANGED <<file, alone, pc, snap, said, readAt, spoken, last>>
        BY DEF calls, history
  <1>2. TypeOK'
        BY <1>i, <1>1 DEF TypeOK
  <1>3. Saids'
    <2>1. ASSUME NEW q \in Process PROVE SaidRight(q)'
      <3>1. SaidRight(q)
            BY <1>i DEF Saids
      <3> QED BY <1>1, <3>1 DEF SaidRight, Passes
    <2> QED BY <2>1 DEF Saids
  <1>4. Fresh'
    <2>1. SpokenBefore'
      <3>1. now \in Nat /\ now' \in Nat
            BY <1>i, Shapes DEF TypeOK, Time
      <3>2. 1..now \subseteq 1..now'
            BY <3>1
      <3> QED BY <1>i, <1>1, <3>2 DEF Fresh, SpokenBefore
    <2> QED BY <1>i, <1>1, <2>1 DEF Fresh, PassesAreOwn, SnapsAreOwn, ShipsOnFreshPasses
  <1>5. Latest'
        BY <1>i, <1>1 DEF Latest, OneCall, FillsEmpty, FileIsLatest, SnapIsLatest, WillBe
  <1> QED BY <1>2, <1>3, <1>4, <1>5 DEF IInv

LEMMA InvalidateFailsKeeps ==
  ASSUME IInv, InvalidateFails
  PROVE  IInv'
  <1>1. left.calls > 0 /\ left' = [left EXCEPT !.calls = left.calls - 1]
        BY DEF InvalidateFails, LoopCall
  <1>2. /\ left' \in [turns : 0..Turns[alone], calls : 0..Calls[alone], crashes : 0..Crashes]
        /\ left'.crashes = left.crashes
        BY <1>1, Spend DEF IInv
  <1>3. now' \in Time /\ now <= now'
        BY Shapes DEF InvalidateFails, IInv, TypeOK, Time
  <1> QED BY <1>2, <1>3, QuietKeeps DEF InvalidateFails

LEMMA TickKeeps ==
  ASSUME IInv, Tick
  PROVE  IInv'
  <1>1. now' \in Time /\ now <= now'
        BY Shapes DEF Tick, IInv, TypeOK, Time
  <1>2. /\ left' \in [turns : 0..Turns[alone], calls : 0..Calls[alone], crashes : 0..Crashes]
        /\ left'.crashes = left.crashes
        BY DEF Tick, IInv, TypeOK
  <1> QED BY <1>1, <1>2, QuietKeeps DEF Tick

LEMMA StutterKeeps ==
  ASSUME IInv, UNCHANGED vars
  PROVE  IInv'
  <1>1. /\ UNCHANGED <<file, alone, calls, history>> /\ left' = left
        /\ now' \in Time /\ now <= now'
        BY Shapes DEF vars, IInv, TypeOK, Time
  <1>2. /\ left' \in [turns : 0..Turns[alone], calls : 0..Calls[alone], crashes : 0..Crashes]
        /\ left'.crashes = left.crashes
        BY <1>1 DEF IInv, TypeOK
  <1> QED BY <1>1, <1>2, QuietKeeps
-----------------------------------------------------------------------------
(* The theorems *)

\* The inductive invariant holds in every state the calls can reach.
THEOREM Inductive == Spec => []IInv
  <1>1. IInv /\ [Next]_vars => IInv'
    <2> SUFFICES ASSUME IInv, [Next]_vars PROVE IInv'
        OBVIOUS
    <2>1. ASSUME NEW r \in Role, Session(r) PROVE IInv'
          BY <2>1, TurnKeeps, HeartbeatKeeps, HeartbeatFailsKeeps DEF Session
    <2>2. CASE ActiveLoop
          BY <2>2, ActiveLoopKeeps
    <2>3. CASE Shipped
          BY <2>3, ShippedKeeps
    <2>4. CASE Invalidate
          BY <2>4, InvalidateKeeps
    <2>5. CASE InvalidateFails
          BY <2>5, InvalidateFailsKeeps
    <2>6. ASSUME NEW p \in Process, Truncate(p) \/ Fill(p) \/ Crash(p) PROVE IInv'
          BY <2>6, TruncateKeeps, FillKeeps, CrashKeeps
    <2>7. CASE Tick
          BY <2>7, TickKeeps
    <2>8. CASE UNCHANGED vars
          BY <2>8, StutterKeeps
    <2>9. CASE Look
          BY <2>9, LookKeeps
    <2>10. CASE ActiveLoopFails
          BY <2>10, ActiveLoopFailsKeeps
    <2> QED BY <2>1, <2>2, <2>3, <2>4, <2>5, <2>6, <2>7, <2>8, <2>9, <2>10 DEF Next
  <1> QED BY InitHolds, <1>1, PTL DEF Spec

\* The registry is a whole one, empty or garbled: empty only while somebody
\* writes it or after a crash has cut a write short, garbled only where two
\* write_text calls may overlap (write_session_heartbeat, write_active_loop,
\* _invalidate_omc_blocking_gate_heartbeats), and then with no crash at all.
THEOREM TypeCorrect == Spec => []TypeOK
  <1>1. IInv => TypeOK
        BY DEF IInv
  <1> QED BY Inductive, <1>1, PTL

\* A pass on file carries a time at which the role's own session said that it
\* passed: whole-file writes lose verdicts, they never forge or move one.
THEOREM PassesBelong == Spec => []PassesAreOwn
  <1>1. IInv => PassesAreOwn
        BY DEF IInv, Fresh
  <1> QED BY Inductive, <1>1, PTL

\* Full Ship Gate (write_active_loop): a ship runs only on passes that every
\* gating role's own session spoke within the TTL, however the calls overlap.
THEOREM ShipsAreFresh == Spec => []ShipsOnFreshPasses
  <1>1. IInv => ShipsOnFreshPasses
        BY DEF IInv, Fresh
  <1> QED BY Inductive, <1>1, PTL

\* Where calls do not overlap, only the latest verdicts of all gating roles
\* make the gate evidence ready or let a ship run.
THEOREM LatestGates == Spec => []LatestVerdictGates
  <1>1. IInv => LatestVerdictGates
    <2> SUFFICES ASSUME IInv, alone, pc[Loop] = "shipping" \/ Ready, NEW r \in Role
                 PROVE  last[r] = "passed"
        BY DEF LatestVerdictGates
    <2>i. TypeOK /\ Saids /\ Fresh /\ Latest /\ Loop \in Process
          BY Shapes DEF IInv
    <2>1. CASE pc[Loop] = "shipping"
      <3>1. said[Loop] = <<>> /\ snap[Loop][r].status = "passed"
            BY <2>i, <2>1 DEF Saids, SaidRight, Passes
      <3> QED BY <2>i, <2>1, <3>1 DEF Latest, SnapIsLatest, WillBe
    <2>2. CASE Ready
          BY <2>i, <2>2 DEF Ready, Passes, Latest, FileIsLatest
    <2> QED BY <2>1, <2>2
  <1> QED BY Inductive, <1>1, PTL
=============================================================================
