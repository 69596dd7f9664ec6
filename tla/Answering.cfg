\* Two questions at once, self-RAG's twice over, one change of the index.
SPECIFICATION AnsweringSpec
CONSTANTS
  Calls = {r1, r2}
  plain = plain
  synonym = synonym
  terms = terms
  code = code
  guess = guess
  a1 = a1
  a2 = a2
  part = part
  Queries = {plain, synonym, terms, code}
  Chunks = {a1, a2, part}
  Asked <- MCAsked
  Hypothesis <- MCHypothesis
  ByMeaning <- MCByMeaning
  ByWords <- MCByWords
  Relevance <- MCRelevance
  FusedGrade = 1
  SparseGrade = 2
  MetaOf <- MCMeta
  Twins <- MCTwins
  Corpora <- MCCorpora
  DenseTopK = 3
  SparseTopK = 2
  FusionK = 60
  RerankInputK = 3
  RerankTopK = 2
  MinResults = 2
  MaxLevels = 3
  CacheMax = 1
  DefaultYear = "2023"
  Deployments <- MCDeployments
  MaxChanges = 1
  Pending = Pending
  Nil = Nil
  SimpleTopK = 1
  ParallelTopK = 2
  MaxIterations = 2
  Threshold = 3
  Synonym <- MCSynonym
  Length <- MCLength
  Tokens <- MCTokens
  SourceOf <- MCSourceOf
SYMMETRY Symmetry
INVARIANTS LostOnlyIfRaced FoundIsUsed
CHECK_DEADLOCK FALSE
