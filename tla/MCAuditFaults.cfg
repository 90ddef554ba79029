SPECIFICATION ASpec
CONSTANTS
  MaxRecords = 5
  BatchRecords = 2
  SegmentLines = 4
  Worlds = {{"io"}}
  MaxIoFaults = 2
INVARIANTS
  FaultsLookHonest
