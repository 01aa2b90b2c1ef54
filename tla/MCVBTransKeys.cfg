\* Two processes write the same keys.
CONSTANTS
  Proc = {"P", "Q"}
  Busy = FALSE
  Pid <- SmallPid
  Key = {"a", "b", "c"}
  KeyOf <- AllKeys
  NoKey = "-"
  NoProc = "nobody"
  Istrans = TRUE
  MaxRow = 3
  MaxLog = 9
SPECIFICATION Spec
PROPERTIES RollbackUndoes
