\* Two questions to every pipeline; a conversation may end, so deadlock is not checked.
SPECIFICATION Spec
CONSTANTS
  Agency = {"A", "B", "Z"}
  Doc = {"a", "b", "c"}
  AgencyOf <- MCAgencyOf
  Topic = {"security", "schedule", "50m"}
  Corpus <- MCCorpus
  PoolSize = 2
  Query <- MCQuery
  Pipeline <- MCPipeline
  TopK = 2
  RetryTopK = 3
  MaxAsks = 2
CHECK_DEADLOCK FALSE
INVARIANTS
  TypeOK
  GroundedInOneDocument
  CoveredComparison
  FollowUpHasOneSubject
