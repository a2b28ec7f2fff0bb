SPECIFICATION FairSpec
CONSTANTS
  Thread <- ThreadsMABC
  NodeOf <- Nodes
  Barrier <- Barriers
  Semaphore <- Semaphores
  Event <- Events
  Count <- ThreeAndOne
  AutoReset <- Off
  IsSignal <- Off
  Uses <- Everything
  Bracketed = TRUE
  MayTimeOut = FALSE
  MaxCalls = 2
CHECK_DEADLOCK FALSE
INVARIANTS
  Accounted
  BarrierPace
PROPERTIES
  Implements
  ThreadsFinish
