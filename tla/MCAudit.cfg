SPECIFICATION ASpec
CONSTANTS
  MaxRecords = 5
  BatchRecords = 2
  SegmentLines = 4
  Worlds = {{"kill"}, {"power"}, {"kill", "io"}}
  MaxIoFaults = 2
INVARIANTS
  LogVerifies
  RecoveryKeepsRecords
PROPERTIES
  KeepsTrail
