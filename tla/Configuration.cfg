SPECIFICATION ConfigSpec
CONSTANTS
  h1 = h1
  h2 = h2
  chosen = chosen
  key = key
  place = place
  Handlers <- MCHandlers
  Sections <- MCSections
  Values = {default, chosen}
  Secrets = {key}
  Places = {place}
  Bodies <- MCBodies
  Default = default
  Blank = blank
  None = none
  Hosts = {host1, host2}
  Windows = {w1, w2}
  Mode = "saas"
  Backend = "auto"
  FirstHost = host1
  FirstWindow = w1
  FirstStrict = FALSE
  MaxEvents = 4
SYMMETRY Symmetry
INVARIANTS
  EngineFollowsStore
  LimiterAsConfigured
PROPERTIES
  OwnUpdateInForce
CHECK_DEADLOCK FALSE
