SPECIFICATION Spec
CONSTANTS
  Rule <- MCRule
  Inputs <- MCAllOff
  Method <- MCMethod
  Path <- MCPath
INVARIANTS SectionsGrantOnlyThemselves
