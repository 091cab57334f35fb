SPECIFICATION Spec
CONSTANTS
  Rule <- MCRule
  Inputs <- MCNamed
  Method <- MCMethod
  Path <- MCPath
INVARIANTS NamedProfileRefused
