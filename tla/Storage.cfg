\* Three sessions over three documents, one of which repeats a line; Qdrant takes
\* the ids of two chunks; one session at most deletes; one end of the process.
SPECIFICATION StorageSpec
CONSTANTS
  Sessions = {s1, s2, s3}
  aPdf = aPdf
  aDoc = aDoc
  readme = readme
  aStem = aStem
  x = x
  y = y
  z = z
  Files = {aPdf, aDoc, readme}
  Chunks = {x, y, z}
  Content <- MCContent
  Repeats = {aDoc}
  Stem <- MCStem
  QdrantIds = {x, y}
  NList = 2
  Deployments <- MCDeployments
  MaxDeletes = 1
  MaxCrashes = 1
  Keys = {dots, gap, dotsMeta}
  Sidecar <- MCSidecar
  Probe = probe
  Rejected <- MCRejected
  dots = dots
  gap = gap
  dotsMeta = dotsMeta
  gapMeta = gapMeta
  metaMeta = metaMeta
  Part = Part
  Torn = Torn
  Unknown = Unknown
  None = None
SYMMETRY Symmetry
INVARIANTS StoredUnlessExcused TextsHaveVectors DeletedStaysDeleted FileIsLastPut SickForReason
CHECK_DEADLOCK FALSE
