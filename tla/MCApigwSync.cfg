SPECIFICATION FairSyncSpec
CONSTANTS
  d1 = d1
  d2 = d2
  d3 = d3
  d4 = d4
  r1 = r1
  r2 = r2
  stag = stag
  prod = prod
  dev = dev
  name = name
  url1 = url1
  url2 = url2
  pin = pin
  Null = Null
  Spaces = Spaces
  Deployments = {d1, d2, d3, d4}
  Stages = {stag, prod}
  Stag = stag
  Prod = prod
  Environments = {stag, prod, dev}
  Dev = dev
  Settings <- MCSettings
  Resources = {r1, r2}
  Declared <- MCDeclared
  Pinned <- MCPinned
  SkipRelease = {d2}
  DeleteUnknown = {d1}
  MaxClock = 2
  MaxFaults = 1
CHECK_DEADLOCK FALSE
INVARIANTS
  SyncTypeOK
  SuccessIsPublished
  AloneServesOwn
PROPERTIES
  RetriedDeploymentSucceeds
