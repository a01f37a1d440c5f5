CONSTANTS
  first = first
  second = second
  None = None
  Calls = {first}
  InputsOf <- MCInputsOf
  MaxRetries = 2
  Threshold = 2
SPECIFICATION Spec
INVARIANT
  ApprovalUnlocks
