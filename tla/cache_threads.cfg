SPECIFICATION FairSpec
CONSTANTS
  Node = {0, 1}
  Thread <- ThreadsYZ
  NodeOf <- Nodes
  Block <- Blocks3
  Home <- Mixed
  Word = {0}
  Slot = {"s1", "s2"}
  Puts <- OneEach
  Gets <- All
  MaxOps = 1
CHECK_DEADLOCK FALSE
INVARIANTS
  RepliesMatch
  OneSlotPerBlock
  NoStrayWrite
PROPERTIES
  OpsReturn
