SPECIFICATION Spec
CONSTANTS
  f1 = f1
  f2 = f2
  f3 = f3
  h1 = h1
  h2 = h2
  w1 = w1
  w2 = w2
  Hashes = {h1, h2}
  Files = {f1, f2, f3}
  Foreign = {}
  Workers = {w1, w2}
  Slow = {h2}
  Worlds <- PeacefulWorlds
  Flags <- PeacefulFlags
  MaxInvocations = 2
  MaxEdits = 1
  EditsDuring = FALSE
  WritesFail = TRUE
  Interruptible = FALSE
SYMMETRY Alike
INVARIANTS
  TypeOK
  OneResultEach
  NoSendBlocks
  PathsUnique
  PassMeansAgreement
  ZeroMeansAllTested
CHECK_DEADLOCK FALSE
