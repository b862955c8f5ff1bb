SPECIFICATION Spec
CONSTANTS
  SourceTrees <- MCSourceTrees
  Libraries <- MCLibraries
  CommandLines <- MCCommandLines
INVARIANTS
  TypeOK
  TwoPassesAreOne
  RequestsCompiled
  ParsedAsChecked
  CompiledAsAllowed
