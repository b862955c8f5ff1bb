SPECIFICATION RunSpec
CONSTANTS
  Programs <- MCPrograms
  Family = "mixed"
  Texts <- MCTexts
INVARIANTS
  TypeOK
  BlocksClosed
  ErrorsAreStrays
  RejectedOnlyForLostEntries
  DroppedNeverRuns
PROPERTIES
  SourceRefined
