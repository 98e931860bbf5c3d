SPECIFICATION Spec
CONSTANT ProdIds <- MCProdIds
CHECK_DEADLOCK FALSE
INVARIANTS
  TypeOK
  ReadFailureHasCause
  ServicesMatchMode
  ExitHasCause
  RecoveryUntilTold
  NoOrphanCapture
PROPERTIES
  SignalEndsNode
  FailedReadEndsNode
  StoppedStreamEndsNode
  LifeSpec
