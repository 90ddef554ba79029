SPECIFICATION ESpec
CONSTANTS
  Width = 3
  V4 <- MCV4
  NAT64 <- MCNAT64
  Nets <- MCNets
  PortLists <- MCPortLists
  Ports <- MCPorts
  Protos = {"tcp", "udp", "other"}
  Masks <- MCMasks
  MAX_RANGES = 3
  MaxRules = 3
  MaxSocketRules = 1
CHECK_DEADLOCK FALSE
INVARIANTS
  LookupAgrees
  EgressFollowsPolicy
  DenyReachesNat64
