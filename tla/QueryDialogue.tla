--------------------------- MODULE QueryDialogue ----------------------------
(***************************************************************************)
(* A conversation with run_rag_query (rag_core.py): each question is       *)
(* analysed against what the conversation is about, searched stage by      *)
(* stage under the verifier, answered, and remembered.                     *)
(*                                                                         *)
(* Ranking is abstracted: any order of the chunks the stage's filter lets  *)
(* through, cut to the stage's top-k.  The optional LLM rewriting of the   *)
(* summary, traces, timings and logs decide nothing here.                  *)
(***************************************************************************)
EXTENDS AnswerContract

CONSTANTS
  Query,      \* the questions that may be asked
  Pipeline,   \* pipeline settings: metadataFirst, verifierRetry, balance
  TopK,       \* chunks kept by the first attempt
  RetryTopK,  \* chunks kept by a retry
  MaxAsks     \* bound: questions per behaviour

\* What the text of a question determines.  `strict` and `reduced` are the
\* documents its words match with high and with sufficient confidence,
\* `requested` the agencies it spells out, `context` the context_entities of
\* the caller; `close` says that the best matches score alike.
Question ==
  [strict : SUBSET Doc, reduced : SUBSET Doc, requested : SUBSET Agency,
   context : SUBSET Agency, topics : SUBSET Topic,
   compares : BOOLEAN, joins : BOOLEAN, refers : BOOLEAN, close : BOOLEAN]

ASSUME DialogueAssumption ==
  /\ Query \subseteq {q \in Question : q.strict \subseteq q.reduced}
  /\ {} \notin {Query, Pipeline}
  /\ Pipeline \subseteq [metadataFirst : BOOLEAN, verifierRetry : BOOLEAN, balance : BOOLEAN]
  /\ TopK \in Nat \ {0}
  /\ RetryTopK \in Nat /\ RetryTopK >= TopK
  /\ MaxAsks \in Nat

CONTEXT_RESOLUTION_THRESHOLD == 70
FirmConfidence == 85        \* the least confidence an unambiguous turn leaves
AmbiguousConfidence == 65
MAX_AGENT_ITERATIONS == 3

VARIABLES
  pc,         \* "idle", "search" or "reply"
  asks,       \* questions asked so far
  memory,     \* conversation_state: documents, agencies, confidence
  query,      \* the current or last question
  pipeline,   \* its pipeline settings
  analysis,   \* its analysis
  attempt,    \* index of the current attempt in the stage sequence
  found,      \* chunks of the latest attempt, best first
  weak,       \* its top chunk scores below the floor
  reasons,    \* its verification reasons
  answer      \* status, claims and evidence of the last answer

vars == <<pc, asks, memory, query, pipeline, analysis, attempt, found, weak, reasons, answer>>

NoMemory == [docs |-> {}, agencies |-> {}, confidence |-> 0]
NoAnswer == [status |-> "none", claims |-> {}, evidence |-> {}]
Clarification == [status |-> "clarify", claims |-> {}, evidence |-> {}]
Analysis ==
  [type : {"single_doc", "follow_up", "comparison"}, source : {"query", "memory", "context"},
   strict : SUBSET Doc, docs : SUBSET Doc, entities : SUBSET Agency, missing : SUBSET Agency,
   topics : SUBSET Topic, ambiguous : BOOLEAN]

TypeOK ==
  /\ pc \in {"idle", "search", "reply"}
  /\ asks \in 0..MaxAsks
  /\ memory \in [docs : SUBSET Doc, agencies : SUBSET Agency,
                 confidence : {0, AmbiguousConfidence, FirmConfidence}]
  /\ query \in Question
  /\ pipeline \in Pipeline
  /\ analysis \in Analysis
  /\ attempt \in 0..MAX_AGENT_ITERATIONS
  /\ ToSet(found) \subseteq Corpus /\ IsInjective(found)
  /\ weak \in BOOLEAN
  /\ reasons \subseteq Reason
  /\ answer \in [status : {"none", "clarify", "supported", "partial", "insufficient"},
                 claims : SUBSET Corpus, evidence : SUBSET Corpus]
-----------------------------------------------------------------------------
(* Analysis of a question *)

\* Several documents match about equally well and no comparison is asked for.
Ambiguous(compares, docs, tie) == ~compares /\ Cardinality(docs) > 1 /\ tie

\* analyze_query on the question with the names `terms` put in front of it.
\* A question completed from `source` becomes a follow-up, whatever it asks.
Analyze(q, source, terms) ==
  LET named == {d \in Doc : AgencyOf[d] \in terms}
      docs == q.reduced \cup named
      requested == q.requested \cup terms
      compares == q.compares \/ (q.joins /\ Cardinality(AgenciesOf(docs)) > 1)
  IN [type |-> CASE source # "query" -> "follow_up"
                 [] source = "query" /\ compares -> "comparison"
                 [] OTHER -> "single_doc",
      source |-> source,
      strict |-> q.strict \cup named,
      docs |-> docs,
      entities |-> AgenciesOf(docs) \cup IF compares THEN requested ELSE {},
      missing |-> requested \ AgenciesOf(docs),
      topics |-> q.topics,
      ambiguous |-> Ambiguous(compares, docs, q.close \/ Cardinality(named) > 1)]

\* A question that leaves its subject to the conversation.
LeansOnMemory(q) == q.context = {} /\ q.reduced = {} /\ q.refers

MemorySize == Max({Cardinality(memory.docs), Cardinality(memory.agencies)})

\* What the conversation is about is unknown, uncertain or not one thing.
MemoryUnclear(q) ==
  \/ memory.agencies = {}
  \/ memory.confidence < CONTEXT_RESOLUTION_THRESHOLD
  \/ MemorySize > 1 /\ ~q.compares

\* The analysis after resolve_conversation_context.
Resolved(q) ==
  CASE q.context # {} -> Analyze(q, "context", q.context)
    [] LeansOnMemory(q) -> Analyze(q, "memory", memory.agencies)
    [] OTHER -> Analyze(q, "query", {})

\* Mutant: an ambiguous question is searched for all the same.
NeedsChoiceIgnored(an) == FALSE

NeedsChoice(an) == an.ambiguous /\ an.type # "comparison"
-----------------------------------------------------------------------------
(* Phase 1: _phase_analyze *)

Init ==
  /\ pc = "idle"
  /\ asks = 0
  /\ memory = NoMemory
  /\ query = CHOOSE q \in Query : TRUE       \* of no account before the first question
  /\ pipeline = CHOOSE p \in Pipeline : TRUE
  /\ analysis = Analyze(query, "query", {})
  /\ attempt = 0
  /\ found = <<>>
  /\ weak = FALSE
  /\ reasons = {}
  /\ answer = NoAnswer

Ask(q, p) ==
  /\ pc = "idle"
  /\ asks < MaxAsks
  /\ asks' = asks + 1
  /\ query' = q
  /\ pipeline' = p
  /\ attempt' = 0
  /\ found' = <<>>
  /\ weak' = FALSE
  /\ reasons' = {}
  /\ UNCHANGED memory

\* A clarification ends the turn and returns the conversation as it came.
AskUnclear(q, p) ==
  /\ Ask(q, p)
  /\ LeansOnMemory(q) /\ MemoryUnclear(q)
  /\ analysis' = Analyze(q, "query", {})
  /\ answer' = Clarification
  /\ UNCHANGED pc

AskAmbiguous(q, p) ==
  /\ Ask(q, p)
  /\ ~(LeansOnMemory(q) /\ MemoryUnclear(q))
  /\ analysis' = Resolved(q)
  /\ NeedsChoice(analysis')
  /\ answer' = Clarification
  /\ UNCHANGED pc

AskAnswerable(q, p) ==
  /\ Ask(q, p)
  /\ ~(LeansOnMemory(q) /\ MemoryUnclear(q))
  /\ analysis' = Resolved(q)
  /\ ~NeedsChoice(analysis')
  /\ pc' = "search"
  /\ answer' = NoAnswer
-----------------------------------------------------------------------------
(* Phase 2: _phase_retrieve_loop *)

\* Mutant: a retry is added whatever stages there are.
StageSequenceRetried ==
  LET strict == IF analysis.strict # {} THEN <<"strict">> ELSE <<>>
      reduced == IF analysis.docs # analysis.strict THEN <<"reduced">> ELSE <<>>
  IN strict \o reduced \o <<"relaxed", "relaxed">>

\* metadata_stage_sequence.  Its RuntimeError for more than MAX_AGENT_ITERATIONS
\* stages is left out: TypeOK shows that it is never raised.
StageSequence ==
  LET strict == IF analysis.strict # {} THEN <<"strict">> ELSE <<>>
      reduced == IF analysis.docs # {} /\ analysis.docs # analysis.strict
                 THEN <<"reduced">> ELSE <<>>
      relaxed == IF pipeline.verifierRetry THEN <<"relaxed">> ELSE <<>>
  IN IF ~pipeline.metadataFirst THEN <<"relaxed">>
     ELSE IF analysis.docs = {} THEN <<"relaxed">> \o relaxed
     ELSE strict \o reduced \o relaxed

LastAttempt == attempt + 1 = Len(StageSequence)

\* The chunks the stage's filter lets through; all, if it lets none through.
Candidates(stage) ==
  LET filter == CASE stage = "strict" -> analysis.strict
                  [] stage = "reduced" -> analysis.docs
                  [] OTHER -> {}
      kept == {c \in Corpus : c.doc \in filter}
  IN IF kept = {} THEN Corpus ELSE kept

\* Every target has a chunk in the cut or, with fewer places than targets, every
\* place goes to a target of its own.
Spread(targets, held, places) ==
  IF Cardinality(targets) <= places
  THEN targets \subseteq held
  ELSE Cardinality(targets \cap held) = places

\* apply_comparison_balance: the compared targets among the candidates keep their
\* best chunks.
Balanced(S, cut) ==
  pipeline.balance /\ Comparison(analysis) =>
    IF Cardinality(analysis.docs) > 1
    THEN Spread(analysis.docs \cap DocsOf(S), DocsOf(cut), Cardinality(cut))
    ELSE Cardinality(analysis.entities) > 1 =>
           Spread(analysis.entities \cap AgenciesOf(DocsOf(S)), AgenciesOf(DocsOf(cut)),
                  Cardinality(cut))

Rankings(S, k) ==
  UNION {SetToSeqs(cut) : cut \in
    {T \in kSubset(Min({k, Cardinality(S)}), S) : Balanced(S, T)}}

Retrieve ==
  /\ pc = "search"
  /\ attempt' = attempt + 1
  /\ LET S == Candidates(StageSequence[attempt + 1])
         k == IF attempt = 0 THEN TopK ELSE RetryTopK
     IN found' \in Rankings(S, k)
  /\ weak' \in BOOLEAN
  /\ reasons' =
       IF pipeline.verifierRetry THEN VerifyEvidence(analysis, found', weak', LastAttempt)
       ELSE Given(found' = <<>>, "no_evidence")
  /\ pc' = IF Accepted(reasons') \/ LastAttempt THEN "reply" ELSE "search"
  /\ UNCHANGED <<asks, memory, query, pipeline, analysis, answer>>
-----------------------------------------------------------------------------
(* Phase 3: _phase_build_answer and update_conversation_state *)

\* Evidence that was not accepted backs nothing, except in a comparison.
Evidence ==
  IF Accepted(reasons) \/ Comparison(analysis) THEN SelectSupporting(analysis, found) ELSE {}

Remember(evidence) ==
  LET docs == analysis.docs \cup DocsOf(evidence)
      agencies == analysis.entities \cup AgenciesOf(DocsOf(evidence))
  IN memory' = IF docs = {} /\ agencies = {} THEN memory
               ELSE [docs |-> docs, agencies |-> agencies,
                     confidence |-> IF analysis.ambiguous THEN AmbiguousConfidence
                                                          ELSE FirmConfidence]

Reply ==
  /\ pc = "reply"
  /\ \E claims \in ClaimSets(analysis, found, Evidence) :
       answer' = [status |-> AnswerStatus(analysis, claims, Accepted(reasons),
                                          AnswerReasons(analysis, reasons)),
                  claims |-> claims,
                  evidence |-> Chosen(found, Evidence)]
  /\ Remember(Chosen(found, Evidence))
  /\ pc' = "idle"
  /\ UNCHANGED <<asks, query, pipeline, analysis, attempt, found, weak, reasons>>

\* The caller starts a new conversation by sending none.
Forget ==
  /\ pc = "idle"
  /\ memory # NoMemory
  /\ memory' = NoMemory
  /\ UNCHANGED <<pc, asks, query, pipeline, analysis, attempt, found, weak, reasons, answer>>

Next ==
  \/ \E q \in Query, p \in Pipeline :
       AskUnclear(q, p) \/ AskAmbiguous(q, p) \/ AskAnswerable(q, p)
  \/ Retrieve
  \/ Reply
  \/ Forget

Spec == Init /\ [][Next]_vars
-----------------------------------------------------------------------------
(* Properties *)

\* The question has been answered by a pipeline that verifies.
Answered == answer.status \in {"supported", "partial", "insufficient"}
Vetted == Answered /\ pipeline.verifierRetry
Says(status) == answer.status = status

GroundedIn(d) ==
  Cardinality(Grounded({c \in ToSet(found) : c.doc = d}, analysis.topics))

\* A question about one document is answered only if one document, among those
\* it names if any, grounds the topics: all of them for a supported answer, in
\* any attempt; half and at least two for a partial one, and only when the last
\* attempt was reached.  Whatever the attempts before it found plays no part.
GroundedInOneDocument ==
  Vetted /\ ~Comparison(analysis) /\ analysis.topics # {} /\ ~Says("insufficient") =>
    /\ ~weak
    /\ \E d \in DocsOf(Targeted(analysis, ToSet(found))) :
         \/ Says("supported") /\ GroundedIn(d) = Cardinality(analysis.topics)
         \/ /\ Says("partial") /\ attempt = Len(StageSequence)
            /\ PartlyGrounded(GroundedIn(d), analysis.topics)

\* A supported comparison covers every compared agency, none of them unknown
\* to the index, and has a claim for each whose chunks mention a topic as the
\* question spells it.
CoveredComparison ==
  Vetted /\ Comparison(analysis) /\ Says("supported") =>
    /\ analysis.missing = {}
    /\ ManyTargets(analysis) =>
         /\ analysis.entities \subseteq AgenciesOf(DocsOf(ToSet(found)))
         /\ analysis.entities \cap AgenciesOf(DocsOf(Chosen(found, Literally(analysis, found))))
              \subseteq AgenciesOf(DocsOf(answer.claims))

\* A follow-up that takes its subject from the conversation and compares
\* nothing is searched for only when that subject is one agency and at most
\* one document.
FollowUpHasOneSubject ==
  analysis.source = "memory" /\ ~query.compares /\ ~Says("clarify") =>
    Cardinality(analysis.docs) <= 1 /\ Cardinality(analysis.entities) <= 1
=============================================================================
