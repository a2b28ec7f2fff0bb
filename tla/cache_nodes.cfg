SPECIFICATION Spec
CONSTANTS
  Node = {0, 1}
  Thread <- ThreadsXY
  NodeOf <- Nodes
  Block <- Blocks
  Home <- AtZero
  Word = {0, 1, 2}
  Slot = {"s1"}
  Puts <- OneAndChunk
  Gets <- All
  MaxOps = 2
CHECK_DEADLOCK FALSE
INVARIANTS
  WriteThrough
  
  
