SPECIFICATION FairSpec
CONSTANTS
  Thread <- ThreadsMAC
  NodeOf <- Nodes
  Barrier <- None
  Semaphore <- Semaphores
  Event <- None
  Count <- One
  AutoReset <- Off
  IsSignal <- Off
  Uses <- Lock
  Bracketed = TRUE
  MayTimeOut = FALSE
  MaxCalls = 2
CHECK_DEADLOCK FALSE
PROPERTIES
  CallsReturn
