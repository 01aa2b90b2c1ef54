\* One handle of the table in each process.
CONSTANTS
  Proc = {"P", "Q"}
  NoProc = "none"
  Handle = {1, 2}
  Home <- OneEach
  MaxRow = 2
  MaxBlocks = 2
SPECIFICATION Spec
INVARIANTS TypeOK HeldIsLocked ListWellFormed NoLockWithoutHandle
