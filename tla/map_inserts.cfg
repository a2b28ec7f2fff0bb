SPECIFICATION Spec
CONSTANTS
  Key <- Keys
  MaxNodes = 8
  MaxRefs = 2
  Sharing = FALSE
CHECK_DEADLOCK FALSE
INVARIANTS
  SearchTree
  RedBlack
  QueriesAgree
