SPECIFICATION MRFairSpec
CONSTANTS
  N = 3
  User = {"m", "c"}
  NodeOf <- Nodes
  VecLen = 3
  BlockSize = 2
  In <- Digits
  MaxRounds = 2
  Programs <- BothPrograms
  Count = 3
  PairsPerBuf = 2
CHECK_DEADLOCK FALSE
INVARIANTS
  ResultReady
  PacketsFit
  PairsOnce
  MapComplete
PROPERTIES
  ProgramsEnd
