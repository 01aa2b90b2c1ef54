\* Two handles, shared or exclusive, failures and crashes.
CONSTANTS
  Handle = {h1, h2}
  MaxTrans = 4
  MaxCount = 3
  Worlds <- AllWorlds
SPECIFICATION Spec
SYMMETRY Alike
INVARIANTS TypeOK WriterAlone DictLockReleased SharedCacheCoherent
PROPERTIES NoLostUpdate
