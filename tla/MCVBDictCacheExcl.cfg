\* The table is opened with ISEXCLLOCK, too.
CONSTANTS
  Handle = {h1, h2}
  MaxTrans = 3
  MaxCount = 2
  Worlds <- ExclusiveWorld
SPECIFICATION Spec
SYMMETRY Alike
INVARIANTS CacheCoherent
