SPECIFICATION Spec
CONSTANTS
  Thread <- ThreadsMAC
  NodeOf <- Nodes
  Barrier <- None
  Semaphore <- Semaphores
  Event <- Events
  Count <- Nil
  AutoReset <- On
  IsSignal <- Off
  Uses <- SetWaitReset
  Bracketed = FALSE
  MayTimeOut = TRUE
  MaxCalls = 2
CHECK_DEADLOCK FALSE
INVARIANTS
  AutoResetSafe
  NoSignalledWaiter
