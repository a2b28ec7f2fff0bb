SPECIFICATION FairSpec
CONSTANTS
  N = 3
  THREAD_NUM <- TwoAndOne
  ITER_NUM = 2
  Keeps = {"const", "global"}
  MaxCrashes = 2
CHECK_DEADLOCK FALSE

  
PROPERTIES
  LBarrierImplements
  
