SPECIFICATION RunSpec
CONSTANTS
  Programs <- MCPrograms
  Family = "buried"
  Texts <- MCTexts
INVARIANTS
  UnreachableIsDead
