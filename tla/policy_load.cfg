SPECIFICATION Spec
CONSTANTS
  Rule <- MCRule
  Inputs <- MCInputs
  Method <- MCMethod
  Path <- MCPath
INVARIANTS ReadOnlyNeverWrites ProhibitionsDecisive GrantsHaveASource GrantsNotShadowed FailsClosed LintAgrees
