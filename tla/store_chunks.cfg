SPECIFICATION Spec
CONSTANTS
  Client = {"a", "d"}
  Server = {0, 1}
  ServerOf <- Spread
  Size = 10
  BlockSize = 3
  Batch = 4
  MaxTries = 2
  Puts <- Disjoint
  Gets <- Ranges
  Churn = {TRUE}
  MaxOps = 3
CHECK_DEADLOCK FALSE
INVARIANTS
  ReadsCurrent
  RestsAsStored
  OneCreator
