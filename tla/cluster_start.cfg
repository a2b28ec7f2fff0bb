SPECIFICATION FairSpec
CONSTANTS
  N = 3
  Configs <- NotBoth
  Workers = {2}
  MaxSilent = 1
  MaxChecks = 2
  MaxCrashes = 1
CHECK_DEADLOCK FALSE
INVARIANTS
  MeshComplete
  NoEarlyCommand
  
PROPERTIES
  StartUpEnds
  DeathNoticed
