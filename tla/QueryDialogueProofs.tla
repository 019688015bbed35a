------------------------- MODULE QueryDialogueProofs -------------------------
(***************************************************************************)
(* The dialogue for any index, questions and pipeline settings: what is    *)
(* answered about one document is grounded in one document, a supported    *)
(* comparison is covered, and a follow-up has one subject.                 *)
(***************************************************************************)
EXTENDS QueryDialogue, FiniteSetTheorems, WellFoundedInduction, TLAPS

\* While a question is under way it has no answer, and an attempt left.
UnderWay ==
  /\ pc # "idle" => answer = NoAnswer
  /\ pc = "search" => attempt < Len(StageSequence)

\* What was found is a list.
Listed == DOMAIN found \subseteq Nat

\* The reasons are the verifier's of the latest attempt.
Judged ==
  pipeline.verifierRetry /\ (pc = "reply" \/ Answered) =>
    reasons = VerifyEvidence(analysis, found, weak, attempt = Len(StageSequence))

\* An answer is made from the latest attempt and its reasons.
Replied ==
  Answered =>
    /\ answer.claims \in ClaimSets(analysis, found, Evidence)
    /\ answer.status = AnswerStatus(analysis, answer.claims, Accepted(reasons),
                                    AnswerReasons(analysis, reasons))

IInv == TypeOK /\ UnderWay /\ Listed /\ Judged /\ Replied /\ FollowUpHasOneSubject
-----------------------------------------------------------------------------
(* Least and greatest numbers *)

\* A set of numbers that is not empty has a least one.
LEMMA Least ==
  ASSUME NEW S \in SUBSET Nat, S # {}
  PROVE  \E n \in S : \A m \in S : n <= m
  <1> DEFINE R == {ss \in Nat \X Nat : ss[1] < ss[2]}
  <1>0. OpToRel(<,Nat) = R
        BY DEF OpToRel
  <1>a. IsWellFoundedOn(OpToRel(<,Nat),Nat)
        BY NatLessThanWellFounded
  <1>c. IsWellFoundedOn(R,Nat)
        BY <1>a, <1>0
  <1>1. PICK n \in S : \A m \in S : ~ (<<m, n>> \in R)
    <2> HIDE DEF R
    <2> QED BY <1>c, WFMin
  <1>2. ASSUME NEW m \in S PROVE n <= m
    <2>1. <<m, n>> \in Nat \X Nat /\ <<m, n>>[1] = m /\ <<m, n>>[2] = n
          OBVIOUS
    <2>2. <<m, n>> \notin R
          BY <1>1
    <2>3. ~ (m < n)
          BY <2>1, <2>2
    <2>4. QED
          BY <2>3
  <1>3. QED
        BY <1>2

\* Max of a set of numbers with an upper bound is one of them, and no smaller
\* than any.
LEMMA Greatest ==
  ASSUME NEW S \in SUBSET Nat, S # {}, NEW b \in Nat, \A n \in S : n <= b
  PROVE  Max(S) \in S /\ \A n \in S : Max(S) >= n
  <1> DEFINE gaps == {b - n : n \in S}
  <1>1. gaps \in SUBSET Nat /\ gaps # {}
    <2>1. \A n \in S : b - n \in Nat
          OBVIOUS
    <2>2. QED
          BY <2>1
  <1>2. PICK g \in gaps : \A h \in gaps : g <= h
        BY <1>1, Least
  <1>3. \E x \in S : \A y \in S : x >= y
    <2>1. PICK x \in S : g = b - x
          BY <1>2
    <2>2. ASSUME NEW y \in S PROVE x >= y
      <3>1. b - x <= b - y
            BY <1>2, <2>1
      <3> QED BY <3>1
    <2> QED BY <2>2
  <1>4. QED
        BY <1>3 DEF Max
-----------------------------------------------------------------------------
(* Types *)

LEMMA ChunkTypes ==
  ASSUME NEW c \in Corpus
  PROVE  /\ c \in Chunk /\ c.doc \in Doc /\ AgencyOf[c.doc] \in Agency
         /\ c.literal \subseteq c.forms /\ c.forms \subseteq Topic
  BY ContractAssumption DEF Chunk

LEMMA AgencyTypes ==
  /\ \A D \in SUBSET Doc : AgenciesOf(D) \subseteq Agency
  /\ \A S \in SUBSET Corpus : DocsOf(S) \subseteq Doc
  BY ContractAssumption, ChunkTypes DEF AgenciesOf, DocsOf

LEMMA AnalyzeType ==
  ASSUME NEW q \in Question, NEW source \in {"query", "memory", "context"},
         NEW terms \in SUBSET Agency
  PROVE  Analyze(q, source, terms) \in Analysis
  <1> DEFINE named == {d \in Doc : AgencyOf[d] \in terms}
             docs == q.reduced \cup named
             requested == q.requested \cup terms
             compares == q.compares \/ (q.joins /\ Cardinality(AgenciesOf(docs)) > 1)
             type == CASE source # "query" -> "follow_up"
                       [] source = "query" /\ compares -> "comparison"
                       [] OTHER -> "single_doc"
             entities == AgenciesOf(docs) \cup IF compares THEN requested ELSE {}
             ambiguous == Ambiguous(compares, docs, q.close \/ Cardinality(named) > 1)
  <1>1. type \in {"single_doc", "follow_up", "comparison"}
        OBVIOUS
  <1>2. docs \subseteq Doc /\ requested \subseteq Agency /\ q.strict \cup named \subseteq Doc
        BY DEF Question
  <1>3. AgenciesOf(docs) \subseteq Agency
        BY <1>2, AgencyTypes
  <1>4. entities \subseteq Agency /\ requested \ AgenciesOf(docs) \subseteq Agency
        BY <1>2, <1>3
  <1>5. ambiguous \in BOOLEAN
        BY DEF Ambiguous
  <1>6. q.topics \subseteq Topic
        BY DEF Question
  <1> HIDE DEF docs, requested, type, entities, ambiguous
  <1>7. [type |-> type, source |-> source, strict |-> q.strict \cup named, docs |-> docs,
         entities |-> entities, missing |-> requested \ AgenciesOf(docs),
         topics |-> q.topics, ambiguous |-> ambiguous] \in Analysis
        BY <1>1, <1>2, <1>4, <1>5, <1>6 DEF Analysis
  <1>8. QED
        BY <1>7 DEF Analyze, docs, requested, type, entities, ambiguous

LEMMA StagesAreFew ==
  /\ StageSequence \in Seq({"strict", "reduced", "relaxed"})
  /\ Len(StageSequence) \in 1..MAX_AGENT_ITERATIONS
  <1> DEFINE strict == IF analysis.strict # {} THEN <<"strict">> ELSE <<>>
             reduced == IF analysis.docs # {} /\ analysis.docs # analysis.strict
                        THEN <<"reduced">> ELSE <<>>
             relaxed == IF pipeline.verifierRetry THEN <<"relaxed">> ELSE <<>>
             Stage == {"strict", "reduced", "relaxed"}
  <1>1. /\ strict \in Seq(Stage) /\ Len(strict) \in {0, 1}
        /\ reduced \in Seq(Stage) /\ Len(reduced) \in {0, 1}
        /\ relaxed \in Seq(Stage) /\ Len(relaxed) \in {0, 1}
        /\ <<"relaxed">> \in Seq(Stage) /\ Len(<<"relaxed">>) = 1
    <2>1. \A s \in Stage : <<s>> \in Seq(Stage) /\ Len(<<s>>) = 1
          OBVIOUS
    <2>2. <<>> \in Seq(Stage) /\ Len(<<>>) = 0
          OBVIOUS
    <2>3. QED
          BY <2>1, <2>2
  <1>2. analysis.docs # {} => Len(strict) = 1 \/ Len(reduced) = 1
    <2>1. CASE analysis.strict # {}
      <3>1. strict = <<"strict">>
            BY <2>1
      <3>2. QED
            BY <3>1
    <2>2. CASE analysis.strict = {} /\ analysis.docs # {}
      <3>1. reduced = <<"reduced">>
            BY <2>2
      <3>2. QED
            BY <3>1
    <2>3. QED
          BY <2>1, <2>2
  <1> HIDE DEF strict, reduced, relaxed
  <1>3. /\ strict \o reduced \o relaxed \in Seq(Stage)
        /\ Len(strict \o reduced \o relaxed) = Len(strict) + Len(reduced) + Len(relaxed)
        /\ <<"relaxed">> \o relaxed \in Seq(Stage)
        /\ Len(<<"relaxed">> \o relaxed) = 1 + Len(relaxed)
    <2> HIDE DEF Stage
    <2> QED BY <1>1
  <1>4. CASE ~pipeline.metadataFirst
    <2>1. StageSequence = <<"relaxed">>
          BY <1>4 DEF StageSequence
    <2>2. QED
          BY <2>1, <1>1 DEF MAX_AGENT_ITERATIONS
  <1>5. CASE pipeline.metadataFirst /\ analysis.docs = {}
    <2>1. StageSequence = <<"relaxed">> \o relaxed
          BY <1>5 DEF StageSequence, relaxed
    <2>2. Len(StageSequence) \in 1..2
          BY <2>1, <1>1, <1>3
    <2>3. QED
          BY <2>1, <2>2, <1>3 DEF MAX_AGENT_ITERATIONS
  <1>6. CASE pipeline.metadataFirst /\ analysis.docs # {}
    <2>1. StageSequence = strict \o reduced \o relaxed
          BY <1>6 DEF StageSequence, strict, reduced, relaxed
    <2>2. Len(StageSequence) = Len(strict) + Len(reduced) + Len(relaxed)
      <3> HIDE DEF Stage
      <3> QED BY <2>1, <1>3
    <2>3. Len(StageSequence) \in 1..3
      <3>1. \A i, j, k \in {0, 1} : i = 1 \/ j = 1 => i + j + k \in 1..3
            OBVIOUS
      <3>2. Len(strict) \in {0, 1} /\ Len(reduced) \in {0, 1} /\ Len(relaxed) \in {0, 1}
            BY <1>1
      <3>3. QED
            BY <2>2, <3>1, <3>2, <1>2, <1>6
    <2>4. StageSequence \in Seq(Stage)
          BY <2>1, <1>3
    <2>5. QED
          BY <2>3, <2>4 DEF MAX_AGENT_ITERATIONS
  <1>7. QED
        BY <1>4, <1>5, <1>6

\* The same of the next state's stages.
LEMMA NextStagesAreFew == Len(StageSequence') \in 1..MAX_AGENT_ITERATIONS
  <1>1. (Len(StageSequence) \in 1..MAX_AGENT_ITERATIONS)'
        BY StagesAreFew, PTL
  <1>2. QED
        BY <1>1 DEF MAX_AGENT_ITERATIONS

LEMMA RankingFacts ==
  ASSUME NEW S \in SUBSET Corpus, NEW k, NEW f \in Rankings(S, k)
  PROVE  /\ DOMAIN f \subseteq Nat
         /\ ToSet(f) \subseteq Corpus
         /\ IsInjective(f)
  <1>1. PICK cut \in SUBSET S : f \in SetToSeqs(cut)
        BY DEF Rankings, kSubset
  <1>2. Cardinality(cut) \in Nat
        BY ContractAssumption, FS_Subset, FS_CardinalityType
  <1>3. /\ f \in [1..Cardinality(cut) -> cut]
        /\ \A i, j \in 1..Cardinality(cut) : i # j => f[i] # f[j]
        BY <1>1 DEF SetToSeqs
  <1>4. QED
        BY <1>2, <1>3 DEF ToSet, IsInjective

LEMMA CandidateTypes == \A stage : Candidates(stage) \in SUBSET Corpus
  BY DEF Candidates

LEMMA VerifierType ==
  ASSUME NEW an, NEW S, NEW low, NEW last
  PROVE  VerifyEvidence(an, S, low, last) \subseteq Reason
  BY DEF VerifyEvidence, TopicReasons, CoverageReasons, Given, Reason, CoverageReason

LEMMA ChoiceTypes ==
  ASSUME NEW S, NEW an
  PROVE  /\ SelectSupporting(an, S) \subseteq DOMAIN S
         /\ \A places \in SUBSET DOMAIN S :
              /\ Chosen(S, places) \subseteq ToSet(S)
              /\ \A claims \in ClaimSets(an, S, places) : claims \subseteq ToSet(S)
  <1>1. /\ Literally(an, S) \subseteq DOMAIN S
        /\ \A places, n : FirstFew(places, n) \subseteq places
        /\ \A places : FirstPerAgency(an, S, places) \subseteq places
        BY DEF Literally, FirstFew, FirstPerAgency
  <1>2. SelectSupporting(an, S) \subseteq DOMAIN S
        BY <1>1 DEF SelectSupporting
  <1>3. \A places \in SUBSET DOMAIN S : Chosen(S, places) \subseteq ToSet(S)
        BY DEF Chosen, ToSet
  <1>4. QED
        BY <1>1, <1>2, <1>3 DEF ClaimSets
-----------------------------------------------------------------------------
(* The invariant is inductive *)

LEMMA InitHolds == Init => IInv
  <1> SUFFICES ASSUME Init PROVE IInv
      OBVIOUS
  <1> USE DEF Init
  <1>1. query \in Query /\ query \in Question
        BY DialogueAssumption
  <1>2. pipeline \in Pipeline
        BY DialogueAssumption
  <1>3. analysis \in Analysis
        BY <1>1, AnalyzeType
  <1>4. ToSet(found) \subseteq Corpus /\ IsInjective(found)
        BY DEF ToSet, IsInjective
  <1>5. TypeOK
    <2>1. memory \in [docs : SUBSET Doc, agencies : SUBSET Agency,
                      confidence : {0, AmbiguousConfidence, FirmConfidence}]
          BY DEF NoMemory
    <2>2. answer \in [status : {"none", "clarify", "supported", "partial", "insufficient"},
                      claims : SUBSET Corpus, evidence : SUBSET Corpus]
          BY DEF NoAnswer
    <2>3. asks \in 0..MaxAsks /\ attempt \in 0..MAX_AGENT_ITERATIONS
          BY DialogueAssumption DEF MAX_AGENT_ITERATIONS
    <2>4. weak \in BOOLEAN /\ reasons \subseteq Reason /\ pc \in {"idle", "search", "reply"}
          OBVIOUS
    <2> QED
          BY <1>1, <1>2, <1>3, <1>4, <2>1, <2>2, <2>3, <2>4 DEF TypeOK
  <1>6. UnderWay /\ Listed
        BY DEF UnderWay, Listed
  <1>7. Judged /\ Replied
        BY DEF Judged, Replied, Answered, NoAnswer
  <1>8. analysis.source = "query"
        BY DEF Analyze
  <1>9. FollowUpHasOneSubject
        BY <1>8 DEF FollowUpHasOneSubject
  <1>10. QED
        BY <1>5, <1>6, <1>7, <1>9 DEF IInv

\* A question that is asked starts a turn with nothing found.
LEMMA AskTypes ==
  ASSUME TypeOK, NEW q \in Query, NEW p \in Pipeline, Ask(q, p)
  PROVE  /\ q \in Question
         /\ Listed'
         /\ analysis' \in Analysis /\ pc' \in {"idle", "search", "reply"}
              /\ answer' \in {NoAnswer, Clarification} => TypeOK'
         /\ Resolved(q) \in Analysis /\ Analyze(q, "query", {}) \in Analysis
  <1>1. q \in Question
        BY DialogueAssumption
  <1>2. /\ asks' \in 0..MaxAsks /\ query' \in Question /\ pipeline' \in Pipeline
        /\ attempt' \in 0..MAX_AGENT_ITERATIONS /\ weak' \in BOOLEAN /\ reasons' \subseteq Reason
    <2>1. asks' = asks + 1 /\ asks \in 0..MaxAsks /\ asks < MaxAsks /\ MaxAsks \in Nat
          BY DialogueAssumption DEF TypeOK, Ask
    <2>2. asks' \in 0..MaxAsks
          BY <2>1
    <2>3. query' \in Question /\ pipeline' \in Pipeline
          BY <1>1 DEF Ask
    <2>4. attempt' \in 0..MAX_AGENT_ITERATIONS
          BY DEF Ask, MAX_AGENT_ITERATIONS
    <2>5. weak' \in BOOLEAN /\ reasons' \subseteq Reason
          BY DEF Ask
    <2>6. QED
          BY <2>2, <2>3, <2>4, <2>5
  <1>3. DOMAIN found' = {} /\ ToSet(found') = {} /\ IsInjective(found')
        BY DEF Ask, ToSet, IsInjective
  <1>4. /\ memory' \in [docs : SUBSET Doc, agencies : SUBSET Agency,
                        confidence : {0, AmbiguousConfidence, FirmConfidence}]
        /\ memory.agencies \in SUBSET Agency
        BY DEF TypeOK, Ask
  <1>5. answer' \in {NoAnswer, Clarification} =>
          answer' \in [status : {"none", "clarify", "supported", "partial", "insufficient"},
                       claims : SUBSET Corpus, evidence : SUBSET Corpus]
        BY DEF NoAnswer, Clarification
  <1>6. Listed'
        BY <1>3 DEF Listed
  <1>7. Resolved(q) \in Analysis /\ Analyze(q, "query", {}) \in Analysis
    <2>1. q.context \in SUBSET Agency
          BY <1>1 DEF Question
    <2>2. QED
          BY <1>1, <1>4, <2>1, AnalyzeType DEF Resolved
  <1>8. QED
        BY <1>1, <1>2, <1>3, <1>4, <1>5, <1>6, <1>7 DEF TypeOK

\* A clarification answers nothing.
LEMMA ClarificationKeeps ==
  ASSUME IInv, NEW q \in Query, NEW p \in Pipeline, Ask(q, p),
         analysis' \in Analysis, answer' = Clarification, pc' = pc
  PROVE  IInv'
  <1>1. TypeOK' /\ Listed'
        BY AskTypes DEF IInv, TypeOK
  <1>2. pc' = "idle"
        BY DEF Ask
  <1>3. UnderWay' /\ Judged' /\ Replied' /\ FollowUpHasOneSubject'
        BY <1>2 DEF UnderWay, Judged, Replied, FollowUpHasOneSubject, Answered, Says, Clarification
  <1>4. QED
        BY <1>1, <1>3 DEF IInv

\* The documents of one agency at most belong to one agency at most.
LEMMA FewAgencies ==
  ASSUME NEW D \in SUBSET Doc
  PROVE  /\ IsFiniteSet(D) /\ Cardinality(D) \in Nat
         /\ IsFiniteSet(AgenciesOf(D)) /\ Cardinality(AgenciesOf(D)) \in Nat
         /\ Cardinality(D) <= 1 => Cardinality(AgenciesOf(D)) <= 1
         /\ \A T \in SUBSET Agency :
              AgenciesOf(D) \subseteq T => Cardinality(AgenciesOf(D)) <= Cardinality(T)
  <1>1. IsFiniteSet(D) /\ Cardinality(D) \in Nat
        BY ContractAssumption, FS_Subset, FS_CardinalityType
  <1>2. IsFiniteSet(AgenciesOf(D)) /\ Cardinality(AgenciesOf(D)) \in Nat
        BY AgencyTypes, ContractAssumption, FS_Subset, FS_CardinalityType
  <1>3. ASSUME NEW T \in SUBSET Agency, AgenciesOf(D) \subseteq T
        PROVE  Cardinality(AgenciesOf(D)) <= Cardinality(T)
    <2>1. IsFiniteSet(T)
          BY ContractAssumption, FS_Subset
    <2>2. QED
          BY <2>1, <1>3, FS_Subset
  <1>4. ASSUME Cardinality(D) <= 1 PROVE Cardinality(AgenciesOf(D)) <= 1
    <2>1. CASE D = {}
      <3>1. AgenciesOf(D) = {}
            BY <2>1 DEF AgenciesOf
      <3>2. QED
            BY <3>1, FS_EmptySet
    <2>2. CASE D # {}
      <3>1. Cardinality(D) = 1
            BY <1>1, <1>4, <2>2, FS_EmptySet
      <3>2. PICK d : D = {d}
            BY <1>1, <3>1, FS_Singleton
      <3>3. AgenciesOf(D) = {AgencyOf[d]}
            BY <3>2 DEF AgenciesOf
      <3>4. Cardinality({AgencyOf[d]}) = 1
            BY FS_Singleton
      <3>5. QED
            BY <3>3, <3>4
    <2>3. QED
          BY <2>1, <2>2
  <1>5. QED
        BY <1>1, <1>2, <1>3, <1>4

\* What is searched for from the conversation is one thing, or a choice was
\* asked for.
LEMMA OneSubject ==
  ASSUME TypeOK, NEW q \in Question, LeansOnMemory(q), ~MemoryUnclear(q), ~q.compares,
         NEW an, an = Analyze(q, "memory", memory.agencies), ~NeedsChoice(an)
  PROVE  Cardinality(an.docs) <= 1 /\ Cardinality(an.entities) <= 1
  <1> DEFINE named == {d \in Doc : AgencyOf[d] \in memory.agencies}
             compares == q.compares \/ (q.joins /\ Cardinality(AgenciesOf(named)) > 1)
  <1>1. q.reduced \cup named = named
        BY DEF LeansOnMemory
  <1>2. /\ an.docs = named
        /\ an.type = "follow_up"
        /\ ~compares => an.entities = AgenciesOf(named)
        /\ an.ambiguous = Ambiguous(compares, named, q.close \/ Cardinality(named) > 1)
        BY <1>1 DEF Analyze
  <1>3. memory.agencies \in SUBSET Agency /\ memory.docs \in SUBSET Doc
        BY DEF TypeOK
  <1>4. Cardinality(memory.agencies) \in Nat /\ Cardinality(memory.docs) \in Nat
        BY <1>3, ContractAssumption, FS_Subset, FS_CardinalityType
  <1>5. Cardinality(memory.agencies) <= 1
    <2> DEFINE sizes == {Cardinality(memory.docs), Cardinality(memory.agencies)}
          bound == Cardinality(memory.docs) + Cardinality(memory.agencies)
    <2>1. sizes \in SUBSET Nat /\ sizes # {} /\ bound \in Nat /\ \A n \in sizes : n <= bound
          BY <1>4
    <2>2. Max(sizes) \in sizes /\ \A n \in sizes : Max(sizes) >= n
      <3> HIDE DEF sizes, bound
      <3> QED BY <2>1, Greatest
    <2>3. ~(Max(sizes) > 1)
          BY DEF MemoryUnclear, MemorySize
    <2>4. Max(sizes) \in Nat /\ Max(sizes) >= Cardinality(memory.agencies)
          BY <2>1, <2>2
    <2>5. QED
      <3> HIDE DEF sizes
      <3> QED BY <1>4, <2>3, <2>4
  <1>6. named \in SUBSET Doc /\ AgenciesOf(named) \subseteq memory.agencies
        BY DEF AgenciesOf
  <1>7. Cardinality(AgenciesOf(named)) <= 1 /\ Cardinality(AgenciesOf(named)) \in Nat
        BY <1>3, <1>4, <1>5, <1>6, FewAgencies
  <1>8. ~compares
        BY <1>7
  <1>9. ~an.ambiguous
        BY <1>2 DEF NeedsChoice
  <1>10. Cardinality(named) <= 1
    <2>1. Cardinality(named) \in Nat
          BY <1>6, FewAgencies
    <2>2. ~(Cardinality(named) > 1)
          BY <1>2, <1>8, <1>9 DEF Ambiguous
    <2>3. QED
          BY <2>1, <2>2
  <1>11. QED
        BY <1>2, <1>7, <1>8, <1>10

LEMMA AskUnclearKeeps ==
  ASSUME IInv, NEW q \in Query, NEW p \in Pipeline, AskUnclear(q, p)
  PROVE  IInv'
  <1>1. Ask(q, p) /\ answer' = Clarification /\ pc' = pc
        BY DEF AskUnclear
  <1>2. analysis' \in Analysis
        BY <1>1, AskTypes DEF IInv, AskUnclear
  <1>3. QED
        BY <1>1, <1>2, ClarificationKeeps

LEMMA AskAmbiguousKeeps ==
  ASSUME IInv, NEW q \in Query, NEW p \in Pipeline, AskAmbiguous(q, p)
  PROVE  IInv'
  <1>1. Ask(q, p) /\ answer' = Clarification /\ pc' = pc
        BY DEF AskAmbiguous
  <1>2. analysis' \in Analysis
        BY <1>1, AskTypes DEF IInv, AskAmbiguous
  <1>3. QED
        BY <1>1, <1>2, ClarificationKeeps

LEMMA AskAnswerableKeeps ==
  ASSUME IInv, NEW q \in Query, NEW p \in Pipeline, AskAnswerable(q, p)
  PROVE  IInv'
  <1>1. Ask(q, p) /\ answer' = NoAnswer /\ pc' = "search" /\ analysis' = Resolved(q)
        BY DEF AskAnswerable
  <1>2. TypeOK /\ q \in Question
        BY DialogueAssumption DEF IInv
  <1>3. TypeOK' /\ Listed'
        BY <1>1, <1>2, AskTypes
  <1>4. UnderWay'
    <2>1. attempt' = 0
          BY <1>1 DEF Ask
    <2>2. attempt' < Len(StageSequence')
          BY <2>1, NextStagesAreFew DEF MAX_AGENT_ITERATIONS
    <2>3. QED
          BY <1>1, <2>2 DEF UnderWay
  <1>5. Judged' /\ Replied'
        BY <1>1 DEF Judged, Replied, Answered, NoAnswer
  <1>6. FollowUpHasOneSubject'
    <2> SUFFICES ASSUME analysis'.source = "memory", ~query'.compares
                 PROVE  Cardinality(analysis'.docs) <= 1 /\ Cardinality(analysis'.entities) <= 1
        BY DEF FollowUpHasOneSubject
    <2>1. query' = q
          BY <1>1 DEF Ask
    <2>2. LeansOnMemory(q) /\ analysis' = Analyze(q, "memory", memory.agencies)
      <3>1. Analyze(q, "context", q.context).source = "context" /\ Analyze(q, "query", {}).source = "query"
            BY DEF Analyze
      <3>2. CASE q.context # {}
            BY <1>1, <3>1, <3>2 DEF Resolved
      <3>3. CASE q.context = {} /\ ~LeansOnMemory(q)
            BY <1>1, <3>1, <3>3 DEF Resolved
      <3>4. CASE q.context = {} /\ LeansOnMemory(q)
            BY <1>1, <3>4 DEF Resolved
      <3>5. QED
            BY <3>2, <3>3, <3>4
    <2>3. ~MemoryUnclear(q) /\ ~NeedsChoice(analysis')
          BY <2>2 DEF AskAnswerable
    <2>4. QED
          BY <1>2, <2>1, <2>2, <2>3, OneSubject
  <1>7. QED
        BY <1>3, <1>4, <1>5, <1>6 DEF IInv

LEMMA RetrieveKeeps ==
  ASSUME IInv, Retrieve
  PROVE  IInv'
  <1> DEFINE S == Candidates(StageSequence[attempt + 1])
             k == IF attempt = 0 THEN TopK ELSE RetryTopK
  <1>1. /\ pc = "search" /\ attempt' = attempt + 1 /\ found' \in Rankings(S, k)
        /\ weak' \in BOOLEAN
        /\ pc' = IF Accepted(reasons') \/ LastAttempt THEN "reply" ELSE "search"
        BY DEF Retrieve
  <1>2. /\ reasons' = IF pipeline.verifierRetry
                      THEN VerifyEvidence(analysis, found', weak', LastAttempt)
                      ELSE Given(found' = <<>>, "no_evidence")
        /\ UNCHANGED <<asks, memory, query, pipeline, analysis, answer>>
        BY DEF Retrieve
  <1>3. answer = NoAnswer /\ answer' = NoAnswer /\ attempt < Len(StageSequence)
        BY <1>1, <1>2 DEF IInv, UnderWay
  <1>4. StageSequence' = StageSequence
        BY <1>2 DEF StageSequence
  <1>5. attempt \in Nat /\ Len(StageSequence) \in 1..3
        BY StagesAreFew DEF IInv, TypeOK, MAX_AGENT_ITERATIONS
  <1>6. DOMAIN found' \subseteq Nat /\ ToSet(found') \subseteq Corpus /\ IsInjective(found')
    <2>1. S \in SUBSET Corpus
          BY CandidateTypes
    <2> HIDE DEF S, k
    <2>2. QED
          BY <1>1, <2>1, RankingFacts
  <1>7. reasons' \subseteq Reason
    <2>1. Given(found' = <<>>, "no_evidence") \subseteq Reason
          BY DEF Given, Reason
    <2>2. QED
          BY <1>2, <2>1, VerifierType
  <1>8. attempt' \in 0..MAX_AGENT_ITERATIONS
        BY <1>1, <1>3, <1>5 DEF MAX_AGENT_ITERATIONS
  <1>9. TypeOK'
    <2>1. pc' \in {"idle", "search", "reply"}
          BY <1>1
    <2>2. QED
          BY <1>1, <1>2, <1>6, <1>7, <1>8, <2>1 DEF IInv, TypeOK
  <1>10. UnderWay'
    <2>1. pc' = "search" => attempt + 1 # Len(StageSequence)
          BY <1>1 DEF LastAttempt
    <2>2. pc' = "search" => attempt' < Len(StageSequence')
          BY <1>1, <1>3, <1>4, <1>5, <2>1
    <2>3. QED
          BY <1>3, <2>2 DEF UnderWay
  <1>11. Judged'
    <2>1. LastAttempt <=> attempt' = Len(StageSequence')
          BY <1>1, <1>4 DEF LastAttempt
    <2>2. pipeline.verifierRetry =>
            reasons' = VerifyEvidence(analysis', found', weak', attempt' = Len(StageSequence'))
          BY <1>2, <2>1
    <2>3. QED
          BY <1>2, <2>2 DEF Judged
  <1>12. Replied'
         BY <1>3 DEF Replied, Answered, NoAnswer
  <1>13. FollowUpHasOneSubject'
         BY <1>2 DEF IInv, FollowUpHasOneSubject, Says
  <1>14. Listed'
         BY <1>6 DEF Listed
  <1>15. QED
         BY <1>9, <1>10, <1>11, <1>12, <1>13, <1>14 DEF IInv

LEMMA ReplyKeeps ==
  ASSUME IInv, Reply
  PROVE  IInv'
  <1>1. /\ pc = "reply" /\ pc' = "idle"
        /\ UNCHANGED <<asks, query, pipeline, analysis, attempt, found, weak, reasons>>
        BY DEF Reply
  <1>2. Evidence' = Evidence /\ StageSequence' = StageSequence
        BY <1>1 DEF Evidence, StageSequence
  <1>3. PICK claims \in ClaimSets(analysis, found, Evidence) :
          answer' = [status |-> AnswerStatus(analysis, claims, Accepted(reasons),
                                             AnswerReasons(analysis, reasons)),
                     claims |-> claims,
                     evidence |-> Chosen(found, Evidence)]
        BY DEF Reply
  <1>4. /\ Evidence \subseteq DOMAIN found
        /\ claims \subseteq Corpus /\ Chosen(found, Evidence) \subseteq Corpus
    <2>1. Evidence \subseteq DOMAIN found
          BY ChoiceTypes DEF Evidence
    <2>2. claims \subseteq ToSet(found) /\ Chosen(found, Evidence) \subseteq ToSet(found)
          BY <1>3, <2>1, ChoiceTypes
    <2>3. ToSet(found) \subseteq Corpus
          BY DEF IInv, TypeOK
    <2>4. QED
          BY <2>1, <2>2, <2>3
  <1>5. answer' \in [status : {"none", "clarify", "supported", "partial", "insufficient"},
                     claims : SUBSET Corpus, evidence : SUBSET Corpus]
    <2>1. \A an, verified, rs : AnswerStatus(an, claims, verified, rs)
                                  \in {"supported", "partial", "insufficient"}
          BY DEF AnswerStatus
    <2>2. QED
          BY <1>3, <1>4, <2>1
  <1>6. memory' \in [docs : SUBSET Doc, agencies : SUBSET Agency,
                     confidence : {0, AmbiguousConfidence, FirmConfidence}]
    <2> DEFINE evidence == Chosen(found, Evidence)
               docs == analysis.docs \cup DocsOf(evidence)
               agencies == analysis.entities \cup AgenciesOf(DocsOf(evidence))
    <2>1. docs \subseteq Doc /\ agencies \subseteq Agency
          BY <1>4, AgencyTypes DEF IInv, TypeOK, Analysis
    <2>2. memory' = IF docs = {} /\ agencies = {} THEN memory
                    ELSE [docs |-> docs, agencies |-> agencies,
                          confidence |-> IF analysis.ambiguous THEN AmbiguousConfidence
                                                               ELSE FirmConfidence]
          BY DEF Reply, Remember
    <2> HIDE DEF docs, agencies
    <2>3. QED
          BY <2>1, <2>2 DEF IInv, TypeOK
  <1>7. TypeOK'
    <2>1. pc' \in {"idle", "search", "reply"}
          BY <1>1
    <2>2. QED
          BY <1>1, <1>5, <1>6, <2>1 DEF IInv, TypeOK
  <1>8. UnderWay' /\ Listed'
        BY <1>1 DEF IInv, UnderWay, Listed
  <1>9. Judged'
        BY <1>1, <1>2 DEF IInv, Judged
  <1>10. Replied'
         BY <1>1, <1>2, <1>3 DEF Replied
  <1>11. FollowUpHasOneSubject'
    <2>1. ~Says("clarify")
          BY <1>1 DEF IInv, UnderWay, Says, NoAnswer
    <2>2. QED
          BY <1>1, <2>1 DEF IInv, FollowUpHasOneSubject
  <1>12. QED
         BY <1>7, <1>8, <1>9, <1>10, <1>11 DEF IInv

LEMMA ForgetKeeps ==
  ASSUME IInv, UNCHANGED <<pc, asks, query, pipeline, analysis, attempt, found, weak, reasons, answer>>,
         memory' \in {memory, NoMemory}
  PROVE  IInv'
  <1>1. NoMemory \in [docs : SUBSET Doc, agencies : SUBSET Agency,
                      confidence : {0, AmbiguousConfidence, FirmConfidence}]
        BY DEF NoMemory
  <1>2. TypeOK'
        BY <1>1 DEF IInv, TypeOK
  <1>3. Evidence' = Evidence /\ StageSequence' = StageSequence
        BY DEF Evidence, StageSequence
  <1>4. UnderWay' /\ Listed' /\ Judged'
        BY <1>3 DEF IInv, UnderWay, Listed, Judged, Answered
  <1>5. Replied'
        BY <1>3 DEF IInv, Replied, Answered
  <1>6. FollowUpHasOneSubject'
        BY DEF IInv, FollowUpHasOneSubject, Says
  <1>7. QED
        BY <1>2, <1>4, <1>5, <1>6 DEF IInv

LEMMA NextKeeps == IInv /\ [Next]_vars => IInv'
  <1> SUFFICES ASSUME IInv, [Next]_vars PROVE IInv'
      OBVIOUS
  <1>1. CASE \E q \in Query, p \in Pipeline :
               AskUnclear(q, p) \/ AskAmbiguous(q, p) \/ AskAnswerable(q, p)
        BY <1>1, AskUnclearKeeps, AskAmbiguousKeeps, AskAnswerableKeeps
  <1>2. CASE Retrieve
        BY <1>2, RetrieveKeeps
  <1>3. CASE Reply
        BY <1>3, ReplyKeeps
  <1>4. CASE Forget \/ UNCHANGED vars
        BY <1>4, ForgetKeeps DEF Forget, vars
  <1>5. QED
        BY <1>1, <1>2, <1>3, <1>4 DEF Next

LEMMA InductiveInvariant == Spec => []IInv
  <1>1. QED
        BY InitHolds, NextKeeps, PTL DEF Spec
-----------------------------------------------------------------------------
(* What the invariant says of an answer *)

LEMMA GroundedCounts ==
  ASSUME NEW S, NEW T \in SUBSET Topic
  PROVE  /\ Grounded(S, T) \subseteq T
         /\ IsFiniteSet(T) /\ Cardinality(T) \in Nat
         /\ Cardinality(Grounded(S, T)) \in Nat
         /\ Cardinality(Grounded(S, T)) <= Cardinality(T)
  <1>1. Grounded(S, T) \subseteq T
        BY DEF Grounded
  <1>2. IsFiniteSet(T) /\ Cardinality(T) \in Nat
        BY ContractAssumption, FS_Subset, FS_CardinalityType
  <1>3. QED
        BY <1>1, <1>2, FS_Subset, FS_CardinalityType

\* The count for one document is that of some target document, unless it is 0.
LEMMA BestDocument ==
  ASSUME NEW S, NEW an, an.topics \in SUBSET Topic
  PROVE  /\ SingleDocCount(an, S) \in Nat
         /\ SingleDocCount(an, S) <= Cardinality(an.topics)
         /\ SingleDocCount(an, S) # 0 =>
              \E d \in DocsOf(Targeted(an, S)) :
                Cardinality(Grounded({c \in S : c.doc = d}, an.topics)) = SingleDocCount(an, S)
  <1> DEFINE Part(d) == {c \in Targeted(an, S) : c.doc = d}
             counts == {0} \cup {Cardinality(Grounded(Part(d), an.topics)) : d \in DocsOf(S)}
  <1>1. counts \in SUBSET Nat /\ counts # {} /\ \A n \in counts : n <= Cardinality(an.topics)
    <2>1. Cardinality(an.topics) \in Nat
          BY GroundedCounts
    <2>2. \A d : /\ Cardinality(Grounded(Part(d), an.topics)) \in Nat
                 /\ Cardinality(Grounded(Part(d), an.topics)) <= Cardinality(an.topics)
          BY GroundedCounts
    <2> HIDE DEF Part
    <2>3. QED
          BY <2>1, <2>2
  <1>2. Max(counts) \in counts
    <2> HIDE DEF counts
    <2> QED BY <1>1, GroundedCounts, Greatest
  <1>3. SingleDocCount(an, S) = Max(counts)
        BY DEF SingleDocCount
  <1>4. ASSUME SingleDocCount(an, S) # 0
        PROVE  \E d \in DocsOf(Targeted(an, S)) :
                 Cardinality(Grounded({c \in S : c.doc = d}, an.topics)) = SingleDocCount(an, S)
    <2>1. PICK d \in DocsOf(S) : Cardinality(Grounded(Part(d), an.topics)) = SingleDocCount(an, S)
      <3> HIDE DEF Part
      <3> QED BY <1>2, <1>3, <1>4
    <2>2. Grounded(Part(d), an.topics) # {}
          BY <1>4, <2>1, FS_EmptySet
    <2>3. PICK c \in Targeted(an, S) : c.doc = d
          BY <2>2 DEF Grounded
    <2>4. d \in DocsOf(Targeted(an, S))
          BY <2>3 DEF DocsOf
    <2>5. Part(d) = {x \in S : x.doc = d}
          BY <2>3 DEF Targeted
    <2>6. QED
          BY <2>1, <2>4, <2>5
  <1>5. QED
    <2> HIDE DEF counts
    <2> QED BY <1>1, <1>2, <1>3, <1>4

\* What an accepted verdict of the verifier says.
LEMMA AcceptedMeans ==
  ASSUME NEW an, NEW f, NEW low \in BOOLEAN, NEW last \in BOOLEAN,
         NEW rs, rs = VerifyEvidence(an, f, low, last), Accepted(rs)
  PROVE  /\ ~low
         /\ CoverageReasons(an, ToSet(f)) = {}
         /\ rs = {} => ~(MatchedCount(an, ToSet(f)) < Cardinality(an.topics))
         /\ rs # {} => last /\ PartlyGrounded(PartialCount(an, ToSet(f)), an.topics)
  <1>1. rs \subseteq {"partial_topic_grounding"}
        BY DEF Accepted
  <1>2. f # <<>> /\ rs = Given(low, "low_top_score")
                           \cup TopicReasons(an, ToSet(f), last)
                           \cup CoverageReasons(an, ToSet(f))
        BY <1>1 DEF VerifyEvidence
  <1>3. ~low
        BY <1>1, <1>2 DEF Given
  <1>4. CoverageReasons(an, ToSet(f)) = {}
    <2>1. CoverageReasons(an, ToSet(f)) \subseteq CoverageReason
          BY DEF CoverageReasons, Given, CoverageReason
    <2>2. "partial_topic_grounding" \notin CoverageReason
          BY DEF CoverageReason
    <2>3. QED
          BY <1>1, <1>2, <2>1, <2>2
  <1>5. rs = TopicReasons(an, ToSet(f), last)
        BY <1>2, <1>3, <1>4 DEF Given
  <1>6. QED
        BY <1>1, <1>3, <1>4, <1>5 DEF TopicReasons, Given

LEMMA GroundedHolds == IInv => GroundedInOneDocument
  <1> SUFFICES ASSUME IInv, Vetted, ~Comparison(analysis), analysis.topics # {},
                      ~Says("insufficient")
               PROVE  /\ ~weak
                      /\ \E d \in DocsOf(Targeted(analysis, ToSet(found))) :
                           \/ Says("supported") /\ GroundedIn(d) = Cardinality(analysis.topics)
                           \/ /\ Says("partial") /\ attempt = Len(StageSequence)
                              /\ PartlyGrounded(GroundedIn(d), analysis.topics)
      BY DEF GroundedInOneDocument
  <1> DEFINE last == attempt = Len(StageSequence)
             count == SingleDocCount(analysis, ToSet(found))
  <1>1. reasons = VerifyEvidence(analysis, found, weak, last)
        BY DEF IInv, Judged, Vetted
  <1>2. /\ Accepted(reasons)
        /\ \/ Says("supported") /\ reasons = {}
           \/ Says("partial") /\ reasons # {}
    <2>1. answer.status = AnswerStatus(analysis, answer.claims, Accepted(reasons), reasons)
      <3>1. AnswerReasons(analysis, reasons) = reasons
            BY DEF AnswerReasons, Given
      <3>2. QED
            BY <3>1 DEF IInv, Replied, Vetted
    <2>2. answer.status # "insufficient"
          BY DEF Says
    <2>3. Accepted(reasons)
          BY <2>1, <2>2 DEF AnswerStatus
    <2>4. CASE "partial_topic_grounding" \in reasons
          BY <2>1, <2>2, <2>3, <2>4 DEF AnswerStatus, Says
    <2>5. CASE "partial_topic_grounding" \notin reasons
      <3>1. reasons = {}
            BY <2>3, <2>5 DEF Accepted
      <3>2. /\ "partial_topic_grounding" \notin reasons
            /\ "missing_requested_entity" \notin reasons
            BY <3>1
      <3>3. answer.status = "supported"
            BY <2>1, <2>3, <3>2 DEF AnswerStatus
      <3>4. QED
            BY <2>3, <3>1, <3>3 DEF Says
    <2>6. QED
          BY <2>4, <2>5
  <1>3. weak \in BOOLEAN /\ analysis.topics \in SUBSET Topic
        BY DEF IInv, TypeOK, Analysis
  <1>4. /\ ~weak
        /\ reasons = {} => ~(MatchedCount(analysis, ToSet(found)) < Cardinality(analysis.topics))
        /\ reasons # {} => last /\ PartlyGrounded(PartialCount(analysis, ToSet(found)), analysis.topics)
        BY <1>1, <1>2, <1>3, AcceptedMeans
  <1>5. /\ MatchedCount(analysis, ToSet(found)) = count
        /\ PartialCount(analysis, ToSet(found)) = count
        BY DEF MatchedCount, PartialCount
  <1>6. count \in Nat /\ count <= Cardinality(analysis.topics)
        BY <1>3, BestDocument
  <1>7. Cardinality(analysis.topics) \in Nat \ {0}
        BY <1>3, GroundedCounts, FS_EmptySet
  <1>8. count # 0
    <2>1. CASE reasons = {}
          BY <1>4, <1>5, <1>6, <1>7, <2>1
    <2>2. CASE reasons # {}
      <3>1. count >= 2
            BY <1>4, <1>5, <2>2 DEF PartlyGrounded, PARTIAL_TOPIC_GROUNDING_MIN_MATCHED
      <3>2. QED
            BY <1>6, <3>1
    <2>3. QED
          BY <2>1, <2>2
  <1>9. PICK d \in DocsOf(Targeted(analysis, ToSet(found))) : GroundedIn(d) = count
        BY <1>3, <1>8, BestDocument DEF GroundedIn
  <1>10. CASE Says("supported") /\ reasons = {}
    <2>1. count = Cardinality(analysis.topics)
          BY <1>4, <1>5, <1>6, <1>7, <1>10
    <2>2. QED
          BY <1>4, <1>9, <1>10, <2>1
  <1>11. CASE Says("partial") /\ reasons # {}
         BY <1>4, <1>5, <1>9, <1>11
  <1>12. QED
         BY <1>2, <1>10, <1>11

\* The first literal chunk of each compared agency is chosen.
LEMMA FirstIsChosen ==
  ASSUME NEW an, NEW f, DOMAIN f \subseteq Nat, ManyTargets(an), NEW e \in an.entities,
         e \in AgenciesOf(DocsOf(Chosen(f, Literally(an, f))))
  PROVE  \E i \in SelectSupporting(an, f) : AgencyOf[f[i].doc] = e
  <1> DEFINE places == {i \in Literally(an, f) : AgencyOf[f[i].doc] = e}
  <1>1. places \in SUBSET Nat /\ places # {}
        BY DEF AgenciesOf, DocsOf, Chosen, Literally
  <1>2. PICK n \in places : \A m \in places : n <= m
    <2> HIDE DEF places
    <2> QED BY <1>1, Least
  <1>3. \A j \in Literally(an, f) : j < n => AgencyOf[f[j].doc] # AgencyOf[f[n].doc]
    <2> SUFFICES ASSUME NEW j \in Literally(an, f), AgencyOf[f[j].doc] = e
                 PROVE  ~(j < n)
        BY <1>2
    <2>1. n \in Nat /\ j \in Nat /\ n <= j
          BY <1>1, <1>2 DEF Literally
    <2>2. QED
          BY <2>1
  <1>4. n \in FirstPerAgency(an, f, Literally(an, f))
        BY <1>2, <1>3 DEF FirstPerAgency
  <1>5. SelectSupporting(an, f) = FirstPerAgency(an, f, Literally(an, f))
        BY <1>4 DEF SelectSupporting
  <1>6. QED
        BY <1>2, <1>4, <1>5

LEMMA CoveredHolds == IInv => CoveredComparison
  <1> SUFFICES ASSUME IInv, Vetted, Comparison(analysis), Says("supported")
               PROVE  /\ analysis.missing = {}
                      /\ ManyTargets(analysis) =>
                           /\ analysis.entities \subseteq AgenciesOf(DocsOf(ToSet(found)))
                           /\ analysis.entities
                                \cap AgenciesOf(DocsOf(Chosen(found, Literally(analysis, found))))
                                \subseteq AgenciesOf(DocsOf(answer.claims))
      BY DEF CoveredComparison
  <1>1. reasons = VerifyEvidence(analysis, found, weak, attempt = Len(StageSequence))
        BY DEF IInv, Judged, Vetted
  <1>2. Accepted(reasons) /\ "missing_requested_entity" \notin AnswerReasons(analysis, reasons)
    <2>1. AnswerStatus(analysis, answer.claims, Accepted(reasons),
                       AnswerReasons(analysis, reasons)) = "supported"
          BY DEF IInv, Replied, Vetted, Says
    <2>2. QED
          BY <2>1 DEF AnswerStatus
  <1>3. analysis.missing = {}
        BY <1>2 DEF AnswerReasons, Given
  <1>4. CoverageReasons(analysis, ToSet(found)) = {}
    <2>1. weak \in BOOLEAN
          BY DEF IInv, TypeOK
    <2>2. QED
          BY <1>1, <1>2, <2>1, AcceptedMeans
  <1>5. ASSUME ManyTargets(analysis)
        PROVE  analysis.entities \subseteq AgenciesOf(DocsOf(ToSet(found)))
        BY <1>4, <1>5 DEF CoverageReasons, Given
  <1>6. ASSUME ManyTargets(analysis), NEW e \in analysis.entities,
               e \in AgenciesOf(DocsOf(Chosen(found, Literally(analysis, found))))
        PROVE  e \in AgenciesOf(DocsOf(answer.claims))
    <2>1. PICK i \in SelectSupporting(analysis, found) : AgencyOf[found[i].doc] = e
          BY <1>6, FirstIsChosen DEF IInv, Listed
    <2>2. answer.claims = {c \in Chosen(found, Evidence) : AgencyOf[c.doc] \in analysis.entities}
          BY <1>6 DEF IInv, Replied, Vetted, ClaimSets
    <2>3. found[i] \in Chosen(found, Evidence)
          BY <2>1 DEF Evidence, Chosen
    <2>4. found[i] \in answer.claims
          BY <1>6, <2>1, <2>2, <2>3
    <2>5. QED
          BY <2>1, <2>4 DEF AgenciesOf, DocsOf
  <1>7. QED
        BY <1>3, <1>5, <1>6
-----------------------------------------------------------------------------
(* The theorems *)

\* Types: no more than MAX_AGENT_ITERATIONS attempts are made, so the RuntimeError
\* of metadata_stage_sequence is never raised, and no chunk is ranked twice.
THEOREM TypeCorrect == Spec => []TypeOK
  <1>1. IInv => TypeOK
        BY DEF IInv
  <1>2. QED
        BY <1>1, InductiveInvariant, PTL

\* rag_verifier.py: an answer about one document is backed by one document.
THEOREM AnswersAreGrounded == Spec => []GroundedInOneDocument
  <1>1. QED
        BY GroundedHolds, InductiveInvariant, PTL

\* rag_verifier.py, rag_answer.py: a supported comparison covers what it compares.
THEOREM ComparisonsAreCovered == Spec => []CoveredComparison
  <1>1. QED
        BY CoveredHolds, InductiveInvariant, PTL

\* rag_core.py resolve_conversation_context: a follow-up is searched for only
\* when the conversation is about one thing.
THEOREM FollowUpsAreResolved == Spec => []FollowUpHasOneSubject
  <1>1. IInv => FollowUpHasOneSubject
        BY DEF IInv
  <1>2. QED
        BY <1>1, InductiveInvariant, PTL
=============================================================================
