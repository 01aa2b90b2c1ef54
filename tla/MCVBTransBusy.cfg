\* Other processes read the table: a rollback may end half way.
CONSTANTS
  Proc = {"P"}
  Busy = TRUE
  Pid <- SmallPid
  Key = {"a", "b"}
  KeyOf <- AllKeys
  NoKey = "-"
  NoProc = "nobody"
  Istrans = TRUE
  MaxRow = 3
  MaxLog = 8
SPECIFICATION Spec
INVARIANTS TypeOK FreeRowsDeleted
