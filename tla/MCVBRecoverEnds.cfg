\* A transaction on an ISTRANS table that is rolled back.
CONSTANTS
  Proc = {"P", "Q"}
  KeyOf <- OwnKeys
  NoKey = "-"
  MaxRow = 2
  MaxId = 3
  SetIds = {2}
  MaxLog = 8
SPECIFICATION Spec
CHECK_DEADLOCK FALSE
INVARIANTS RecoveryEnds
