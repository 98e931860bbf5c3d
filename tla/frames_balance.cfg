SPECIFICATION Spec
CONSTANTS
  CntMod = 4
  WordMod = 64
  BurstCount = 1
  MaxGap = 3
  MaxDist = 6
  MaxSessions = 1
  NoMsg = NoMsg
CHECK_DEADLOCK FALSE
INVARIANT CountsBalance
