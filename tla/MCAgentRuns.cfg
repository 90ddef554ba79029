SPECIFICATION FairSpec
CONSTANTS
  r1 = r1
  r2 = r2
  Runs = {r1, r2}
  NoRun = nobody
  MaxForks = 2
  Hosts <- MCHosts
CHECK_DEADLOCK FALSE
INVARIANTS
  Governed
  BoundHasCgroup
  ReportedIsOver
PROPERTIES
  SlotsReturn
  WaiterCleansUp
  HangupStops
