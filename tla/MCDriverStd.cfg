SPECIFICATION Spec
CONSTANTS
  SourceTrees <- PlainTrees
  Libraries <- MCLibraries
  CommandLines <- StdCommandLines
INVARIANTS
  ContinueIsBx
