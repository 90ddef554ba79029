SPECIFICATION Spec
CONSTANTS
  p = p
  q = q
  Profiles <- MCProfiles
  Policies <- MCPolicies
  Hooks = {h1}
  Cap = 2
  Grace = 2
  MaxDecision = 1
  RestartTime = 2
  MaxGen = 3
INVARIANTS
  TypeOK
  RunningDecisionsUndisturbed
  LiveSlotIntact
  RoomForEveryWrite
PROPERTIES
  ImplementsAtomicPolicy
