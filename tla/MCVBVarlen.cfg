\* Three rows; a row of 9 takes a full node and a tail.
CONSTANTS
  MaxRow = 3
  MaxNode = 4
  NodeSize = 8
  SlotSize = 1
  GroupSize <- Sizes
  Lengths = {0, 1, 2, 5, 9}
SPECIFICATION Spec
CHECK_DEADLOCK FALSE
INVARIANTS TypeOK NodesExact RowsReadBack
