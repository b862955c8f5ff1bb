SPECIFICATION RunSpec
CONSTANTS
  Programs <- MCPrograms
  Family = "starts"
  Texts <- MCTexts
INVARIANTS
  LabelTextsAreFree
