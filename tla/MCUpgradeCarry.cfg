SPECIFICATION FairSpec
CONSTANTS
  Objects = {v1, v2}
  NPrograms = 2
  Cgroups = {c1}
  MaxCrashes = 3
  MaxEdits = 2
CHECK_DEADLOCK FALSE
INVARIANTS
  InterruptedUpgradeCarries
