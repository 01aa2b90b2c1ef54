\* One number in a node: the lists grow long; a running call goes on.
CONSTANTS
  MaxRow = 5
  MaxNode = 6
  Capacity = 1
  Faults <- AnyFault
SPECIFICATION FairSpec
CHECK_DEADLOCK FALSE
INVARIANTS ListsReachable
PROPERTIES ForceEnds
