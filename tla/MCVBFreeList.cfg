\* Any one block write of a call may fail; space that a failed write loses
\* brings the bounds to an end, so the system stops there.
CONSTANTS
  MaxRow = 4
  MaxNode = 7
  Capacity = 2
  Faults <- AnyFault
SPECIFICATION Spec
CHECK_DEADLOCK FALSE
INVARIANTS TypeOK RowsExclusive NodesExclusive ListsReachable RowsAccounted NoIntegrityError
PROPERTIES SpaceSpec
