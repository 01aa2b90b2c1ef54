\* A process number of more than two bytes.
CONSTANTS
  Proc = {"P"}
  Busy = FALSE
  Pid <- LargePid
  Key = {"a", "b"}
  KeyOf <- AllKeys
  NoKey = "-"
  NoProc = "nobody"
  Istrans = TRUE
  MaxRow = 2
  MaxLog = 6
SPECIFICATION Spec
PROPERTIES RollbackUndoes
