\* ISTRANS, each process with keys of its own.
CONSTANTS
  Proc = {"P", "Q"}
  Busy = FALSE
  Pid <- SmallPid
  Key = {"a", "b", "c"}
  KeyOf <- OwnKeys
  NoKey = "-"
  NoProc = "nobody"
  Istrans = TRUE
  MaxRow = 2
  MaxLog = 7
SPECIFICATION Spec
INVARIANTS RowsAccounted KeysUnique ChangedIsLocked
PROPERTIES AtomicSpec
