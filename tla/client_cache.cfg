SPECIFICATION Spec
CONSTANTS
  Deep <- MCDeep
  Values = {a, b}
  a = a
  b = b
  MaxCalls = 3
\* the bound on the calls ends every behaviour
CHECK_DEADLOCK FALSE
INVARIANTS
  OwnAnswer
  OneRequest
  FreshAfterWrite
