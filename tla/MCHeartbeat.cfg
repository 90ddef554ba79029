SPECIFICATION HSpec
CONSTANTS
  Timeouts = {2, 4, 8}
  MIN_TIMEOUT = 4
  Troubles <- MCTroubles
  MaxHook = 1
  MaxStarts = 3
INVARIANTS
  ServedIsFresh
  AwayIsStale
