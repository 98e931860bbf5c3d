SPECIFICATION Spec
CONSTANTS
  CntMod = 4
  WordMod = 12
  BurstCount = 1
  MaxGap = 6
  MaxDist = 26
  MaxSessions = 1
  NoMsg = NoMsg
CHECK_DEADLOCK FALSE
INVARIANTS
  WrappedPosition
  DropCatchesUp
  NeverOverReports
