SPECIFICATION Spec
CONSTANTS
  Params <- MCParams
  Tick = 500
  MaxTime = 4000
  Shifts <- MCShifts
  MaxSets = 2
  MaxFlight = 2
  PortSize = 2
CHECK_DEADLOCK FALSE
INVARIANTS
  TypeOK
  GivesUpInTime
  NothingLeftBehind
PROPERTY FlushEnds
