\* A table closed in the transaction, and rolled back.
CONSTANTS
  Proc = {"P"}
  Busy = FALSE
  Pid <- SmallPid
  Key = {"a", "b"}
  KeyOf <- AllKeys
  NoKey = "-"
  NoProc = "nobody"
  Istrans = TRUE
  MaxRow = 2
  MaxLog = 6
SPECIFICATION Spec
PROPERTIES LocksRetained
