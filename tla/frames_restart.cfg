SPECIFICATION Spec
CONSTANTS
  CntMod = 4
  WordMod = 64
  BurstCount = 2
  MaxGap = 3
  MaxDist = 14
  MaxSessions = 2
  NoMsg = NoMsg
CHECK_DEADLOCK FALSE
INVARIANTS TypeOK PositionExact DropAccounted
PROPERTY LedgerSpec
