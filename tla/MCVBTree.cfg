\* Two entries in a node: three levels with few keys.
CONSTANTS
  MaxKey = 3
  MaxDup = 1
  MaxNode = 8
  Cap = 2
SPECIFICATION Spec
CHECK_DEADLOCK FALSE
INVARIANTS TypeOK NodesAccounted TreeOrdered RowsFound MovesSound ReadsSound
PROPERTIES ImplementsIndex
