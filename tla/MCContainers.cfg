SPECIFICATION FairCSpec
CONSTANTS
  c1 = c1
  c2 = c2
  c3 = c3
  strict = strict
  loose = loose
  web = web
  agents = agents
  system = system
  Ctrs = {c1, c2, c3}
  Nobody = nobody
  Namespace <- Namespaces
  Policies <- PolicySet
  NoName = none
  Exempt = {system}
  RETAINED_SESSIONS = 1
  Clusters <- MCClusters
CHECK_DEADLOCK FALSE
INVARIANTS
  GovernedFromStart
  BoundToOwnProfile
PROPERTIES
  ResyncGoverns
