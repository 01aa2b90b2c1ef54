\* The table is opened without ISTRANS.
CONSTANTS
  Proc = {"P"}
  Busy = FALSE
  Pid <- SmallPid
  Key = {"a", "b", "c"}
  KeyOf <- AllKeys
  NoKey = "-"
  NoProc = "nobody"
  Istrans = FALSE
  MaxRow = 3
  MaxLog = 6
SPECIFICATION Spec
INVARIANTS FreeRowsDeleted
