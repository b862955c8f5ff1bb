SPECIFICATION Spec
CONSTANTS
  Identifiers <- MCIdentifiers
  OtherName <- MCOtherName
  Programs <- MCPrograms
  Misspelt <- MCMisspelt
  Slips <- MCSlips
  Styles <- MCStyles
  Usual <- MCUsual
  Scribbles <- MCScribbles
  Features <- MCFeatures
INVARIANT DefaultIsACase
