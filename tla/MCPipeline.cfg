SPECIFICATION MCSpec
CONSTANTS
  RingSlots = 2
  BATCH = 2
  ChannelBatches = 1
  Settings <- MCSettings
  Tgids = {t1, t2}
  Capacity = 1
  MaxTick = 3
  MaxQueue = 2
CHECK_DEADLOCK FALSE
INVARIANTS
  LossIsExact
  LossRecordsTrue
  NamesDecider
PROPERTIES
  StopEnds
