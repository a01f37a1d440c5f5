CONSTANTS
  first = first
  second = second
  None = None
  Calls = {first, second}
  InputsOf <- MCInputsOf
  MaxRetries = 2
  Threshold = 2
SPECIFICATION FairSpec
INVARIANTS
  HumanApproved
  ConfirmedBeforeRun
  ReevaluationDecides
PROPERTIES
  EveryCallEnds
