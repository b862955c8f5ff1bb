SPECIFICATION Spec
CONSTANTS
  WordSize = 8
  StackAlign = 16
  FrameAt = 20000
  GlobalsAt = 10000
  Fills = {170}
  Targets = {"qbe", "llvm"}
  Programs <- Families
  Declared <- DeclaredTypes
  TypeSize <- SizeOf
  Flowing <- FlowsIn
  Simplified <- Fold
INVARIANTS
  TypeOK
  SlotsApart
  OneSlotPerName
  BoundLexically
  ByteArraysClosed
  EndlessOnlyOnRings
  ValuesReady
  AccessInside
  RunsAsWritten
  RefusedOnlyForMisfits
PROPERTIES
  DeclaredKept
CHECK_DEADLOCK FALSE
