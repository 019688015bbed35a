--------------------------- MODULE AnswerContract ---------------------------
(***************************************************************************)
(* How retrieved chunks become an answer: the deterministic verifier       *)
(* (rag_verifier.py) and the choice of evidence, claims and status         *)
(* (rag_answer.py).                                                        *)
(*                                                                         *)
(* Text is abstracted to the topics a chunk mentions.  `literal` holds the *)
(* topics that occur in the chunk as they stand in the query, `forms` adds *)
(* those that occur only after normalize_text (amounts and dates written   *)
(* in another form): the verifier looks at both, the choice of evidence    *)
(* only at the first.                                                      *)
(***************************************************************************)
EXTENDS Naturals, FiniteSets, FiniteSetsExt, Sequences, SequencesExt

CONSTANTS
  Agency,     \* issuing agencies, those absent from the index included
  Doc,        \* indexed documents
  AgencyOf,   \* the agency of each document
  Topic,      \* verification topics of the queries
  Corpus,     \* the indexed chunks
  PoolSize    \* how many chunks a single-document answer keeps as evidence

Chunk == [id : Nat, doc : Doc, literal : SUBSET Topic, forms : SUBSET Topic]

ASSUME ContractAssumption ==
  /\ AgencyOf \in [Doc -> Agency]
  /\ Corpus \subseteq Chunk
  /\ \A c \in Corpus : c.literal \subseteq c.forms
  /\ \A c, d \in Corpus : c.id = d.id => c = d
  /\ IsFiniteSet(Agency) /\ IsFiniteSet(Doc) /\ IsFiniteSet(Topic) /\ IsFiniteSet(Corpus)
  /\ PoolSize \in Nat \ {0, 1}

PARTIAL_TOPIC_GROUNDING_MIN_MATCHED == 2

\* The reasons verify_evidence and answer_verification_reasons can give.
CoverageReason ==
  {"missing_comparison_entity", "missing_comparison_topic",
   "missing_comparison_doc", "missing_requested_entity"}
Reason ==
  CoverageReason \cup
  {"no_evidence", "low_top_score", "topic_not_grounded", "partial_topic_grounding"}

AgenciesOf(D) == {AgencyOf[d] : d \in D}
DocsOf(S) == {c.doc : c \in S}
Given(cond, reason) == IF cond THEN {reason} ELSE {}

\* What query analysis hands to the verifier.
Comparison(an) == an.type = "comparison"
ManyTargets(an) == Comparison(an) /\ Cardinality(an.entities) > 1
-----------------------------------------------------------------------------
(* verify_evidence *)

Grounded(S, T) == {t \in T : \E c \in S : t \in c.forms}

\* Chunks of the documents the query names; all of them when it names none.
Targeted(an, S) == IF an.docs = {} THEN S ELSE {c \in S : c.doc \in an.docs}

\* Mutant: topics scattered over several documents count together.
PooledCount(an, S) == Cardinality(Grounded(S, an.topics))

\* The topics grounded in the one target document that grounds most of them.
SingleDocCount(an, S) ==
  Max({0} \cup
      {Cardinality(Grounded({c \in Targeted(an, S) : c.doc = d}, an.topics)) : d \in DocsOf(S)})

MatchedCount(an, S) ==
  IF Comparison(an) THEN Cardinality(Grounded(S, an.topics)) ELSE SingleDocCount(an, S)

PartialCount(an, S) ==
  IF Comparison(an) THEN Cardinality(Grounded(Targeted(an, S), an.topics))
                    ELSE MatchedCount(an, S)

\* At least two topics, and at least half of them.
PartlyGrounded(n, T) ==
  n >= PARTIAL_TOPIC_GROUNDING_MIN_MATCHED /\ 2 * n >= Cardinality(T)

TopicReasons(an, S, last) ==
  LET missed == MatchedCount(an, S) < Cardinality(an.topics)
      partly == last /\ PartlyGrounded(PartialCount(an, S), an.topics)
  IN Given(missed /\ partly, "partial_topic_grounding")
       \cup Given(missed /\ ~partly, "topic_not_grounded")

CoverageReasons(an, S) ==
  LET covered == AgenciesOf(DocsOf(S))
      Of(e) == {c \in S : AgencyOf[c.doc] = e}
      offTopic == {e \in an.entities \cap covered : Grounded(Of(e), an.topics) = {}}
  IN Given(ManyTargets(an) /\ ~(an.entities \subseteq covered), "missing_comparison_entity")
       \cup Given(ManyTargets(an) /\ an.topics # {} /\ offTopic # {}, "missing_comparison_topic")
       \cup Given(Comparison(an) /\ Cardinality(an.docs) > 1 /\ ~(an.docs \subseteq DocsOf(S)),
                  "missing_comparison_doc")

\* `weak`: the top chunk scores below the floor.  `last`: the last attempt,
\* where a partial match of the topics is accepted.
VerifyEvidence(an, found, weak, last) ==
  IF found = <<>> THEN {"no_evidence"}
  ELSE Given(weak, "low_top_score")
         \cup TopicReasons(an, ToSet(found), last)
         \cup CoverageReasons(an, ToSet(found))

Accepted(reasons) == reasons \subseteq {"partial_topic_grounding"}
-----------------------------------------------------------------------------
(* select_supporting_evidence, build_claims, answer_status *)

\* Evidence is a set of positions in what was found, best first.
Chosen(found, places) == {found[i] : i \in places}
FirstFew(places, n) == {i \in places : Cardinality({j \in places : j < i}) < n}

Literally(an, found) ==
  {i \in DOMAIN found : an.topics = {} \/ found[i].literal \cap an.topics # {}}

\* The first of the places for every compared agency.
FirstPerAgency(an, found, places) ==
  {i \in places : /\ AgencyOf[found[i].doc] \in an.entities
                  /\ \A j \in places : j < i => AgencyOf[found[j].doc] # AgencyOf[found[i].doc]}

SelectSupporting(an, found) ==
  LET literal == Literally(an, found)
      perAgency == FirstPerAgency(an, found, literal)
      pool == IF literal = {} THEN DOMAIN found ELSE literal
  IN CASE ManyTargets(an) /\ perAgency # {} -> perAgency
       [] ManyTargets(an) /\ perAgency = {} -> FirstFew(literal, 2)
       [] OTHER -> FirstFew(pool, PoolSize)

\* The sets of chunks the claims may cite: one claim per compared agency, else
\* one or two, depending on how many sentences the first chunk yields.
ClaimSets(an, found, places) ==
  IF ManyTargets(an) THEN {{c \in Chosen(found, places) : AgencyOf[c.doc] \in an.entities}}
  ELSE {Chosen(found, FirstFew(places, n)) : n \in 1..2}

AnswerReasons(an, reasons) ==
  reasons \cup Given(Comparison(an) /\ an.missing # {}, "missing_requested_entity")

\* Mutant: an agency the index does not know is forgotten.
AnswerStatusBlind(an, claims, verified, reasons) ==
  CASE verified /\ "partial_topic_grounding" \in reasons /\ claims # {} -> "partial"
    [] verified /\ "partial_topic_grounding" \notin reasons -> "supported"
    [] OTHER -> "insufficient"

AnswerStatus(an, claims, verified, reasons) ==
  LET partly == "partial_topic_grounding" \in reasons
  IN CASE verified /\ partly /\ claims # {} -> "partial"
       [] verified /\ ~partly /\ "missing_requested_entity" \notin reasons -> "supported"
       [] Comparison(an) /\ claims # {} /\ reasons \cap CoverageReason # {} -> "partial"
       [] OTHER -> "insufficient"
=============================================================================
