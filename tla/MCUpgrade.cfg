SPECIFICATION FairSpec
CONSTANTS
  Objects = {v1, v2}
  NPrograms = 2
  Cgroups = {c1, c2}
  MaxCrashes = 3
  MaxEdits = 2
CHECK_DEADLOCK FALSE
INVARIANTS
  NoGap
  NoOrphans
  BoundStayGoverned
PROPERTIES
  ComesUp
