\* An exclusive open.
CONSTANTS
  Proc = {"P", "Q"}
  NoProc = "none"
  Handle = {1, 2}
  Home <- OneEach
  MaxRow = 2
  MaxBlocks = 2
SPECIFICATION Spec
INVARIANTS ExclusiveAlone
