SPECIFICATION Spec
CONSTANTS
  Levels <- MCLevels
  Window = 2
  QueueSize = 2
  Hold = 3
  MaxSets = 1
  NoRequest = NoRequest
CHECK_DEADLOCK FALSE
INVARIANT TypeOK
PROPERTIES
  FreshTriggerIsSafe
  ReportedStandstillHeld
  RestIsRecognised
