SPECIFICATION FairSpec
CONSTANTS
  f1 = f1
  f2 = f2
  f3 = f3
  h1 = h1
  h2 = h2
  w1 = w1
  w2 = w2
  Hashes = {h1, h2}
  Files = {f1, f2}
  Foreign = {f2}
  Workers = {w1, w2}
  Slow = {h1}
  Worlds <- FragileWorlds
  Flags <- FragileFlags
  MaxInvocations = 2
  MaxEdits = 1
  EditsDuring = TRUE
  WritesFail = TRUE
  Interruptible = TRUE
INVARIANTS
  OneResultEach
  NoSendAfterClose
PROPERTIES
  VerdictsRefined
  Terminates
CHECK_DEADLOCK FALSE
