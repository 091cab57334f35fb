SPECIFICATION Spec
CONSTANTS
  Rule <- MCRule
  Inputs <- MCUnderInfo
  Method <- MCMethod
  Path <- MCPath
INVARIANTS DeadRulesReported
