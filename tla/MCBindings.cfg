SPECIFICATION Spec
CONSTANTS
  s = s
  g = g
  k = k
  a = a
  d = d
  Cgroups = {s, g, k}
  Hosts <- MCHosts
  AllowDelegated = FALSE
  MaxDepth = 2
  Names = {a, d}
  Quarantine = quarantine
  MaxProfiles = 3
  CapBindings = 2
  NoPolicy = NoPolicy
INVARIANTS
  BeliefIsKernel
  BindingKeepsMeaning
  AgentsStayGoverned
  QuarantineHolds
  DescendantsGoverned
  RoomForEveryBinding
  AdoptedStayBound
