\* The system stops when the recovery has come to its end.
CONSTANTS
  Proc = {"P", "Q"}
  KeyOf <- OwnKeys
  NoKey = "-"
  MaxRow = 2
  MaxId = 3
  SetIds = {2}
  MaxLog = 8
SPECIFICATION Spec
CHECK_DEADLOCK FALSE
INVARIANTS TypeOK RecoveryExact
