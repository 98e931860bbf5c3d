SPECIFICATION Spec
CONSTANTS
  OptionSets <- MCAllOptions
  Bursts = {0, 1, 4}
  Decimations = {0, 999, 1200, 9999}
  Unknown = Unknown
  NoTimer = NoTimer
CHECK_DEADLOCK FALSE
INVARIANTS
  TypeOK
  RefusedForCause
  AcceptedFailures
  TimerRateKnown
  TimerKeepsUp
PROPERTY
  NoWriteAfterFailure
