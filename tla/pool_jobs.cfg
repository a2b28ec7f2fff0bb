SPECIFICATION FairSpec
CONSTANTS
  Client = {"p", "q"}
  NumNodes = 3
  Threads <- TwoAndOne
  MaxWait = 2
  BatchOf <- Batches
  Detached <- SecondOfQ
  First = "p"
  Impatient = {"q"}
  JobsOf <- Jobs
CHECK_DEADLOCK FALSE
INVARIANTS
  
  
  NoEmptyFront
PROPERTIES
  PoolServes
