SPECIFICATION Spec
CONSTANTS
  MaxFails = 5
  MaxFaults = 2
  FirstStatus <- MCFirstStatus
  NewBits <- MCNewBits
CHECK_DEADLOCK FALSE
INVARIANTS
  TypeOK
  StreamsOnlyClean
  RecoversWithinRetries
  RecoveryHasCause
PROPERTIES
  FlashWriteHasCause
  ComesUp
