SPECIFICATION FairSpec
CONSTANTS
  Thread = {"m", "a", "b", "c"}
  Teams <- ApartOrTogether
  NodeOf <- Nodes
  Global <- Registered
  Object = {"oa", "oc"}
  Owner <- ByMaster
  Writes <- WritesObjects
  AutoRestart = TRUE
  MaxRounds = 3
  MaxCrashes = 2
CHECK_DEADLOCK FALSE
INVARIANTS
  
  ConsistentCut
  

  
