\* Two extractions of two documents, one id that the LLM makes up, two deletions
\* and one end of the process.
SPECIFICATION Spec
CONSTANTS
  Tasks = {t1, t2}
  rules = rules
  manual = manual
  c1 = c1
  c2 = c2
  mm = mm
  tanker = tanker
  Docs = {rules, manual}
  Keys = {c1, c2, mm, tanker}
  Labels = {e1}
  Kind <- MCKind
  Before <- MCBefore
  Editions <- MCEditions
  Topics <- MCTopics
  Tiers <- MCTiers
  Depths = {None, 2}
  DNV = DNV
  ABS = ABS
  Society <- MCSociety
  Said = {"similar_to"}
  MaxConcurrent = 1
  MaxDeletes = 2
  MaxCrashes = 1
  None = None
SYMMETRY Symmetry
INVARIANTS SharedNodesSurvive EndpointsExist LeftoversWereMerged AnswerIsReach CrossedWhereShared
CHECK_DEADLOCK FALSE
