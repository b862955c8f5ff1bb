SPECIFICATION Spec
CONSTANTS
  SourceTrees <- SwitchTrees
  Libraries <- MCLibraries
  CommandLines <- SwitchCommandLines
INVARIANTS
  DirectivesTakeEffect
