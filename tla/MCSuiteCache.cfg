SPECIFICATION FairSpec
CONSTANTS
  f1 = f1
  f2 = f2
  f3 = f3
  h1 = h1
  h2 = h2
  w1 = w1
  w2 = w2
  Hashes = {h1, h2}
  Files = {f1, f2}
  Foreign = {}
  Workers = {w1}
  Slow = {}
  Worlds <- CacheWorlds
  Flags <- CacheFlags
  MaxInvocations = 2
  MaxEdits = 0
  EditsDuring = FALSE
  WritesFail = FALSE
  Interruptible = FALSE
INVARIANTS
  CacheChangesNoVerdict
CHECK_DEADLOCK FALSE
