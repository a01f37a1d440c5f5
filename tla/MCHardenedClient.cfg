CONSTANTS
  c1 = c1
  c2 = c2
  c3 = c3
  Calls = {c1, c2, c3}
  MethodsCalled = {"get", "evaluate_bundle"}
  MaxRetries = 2
  FailureThreshold = 2
  Reset = 2
SPECIFICATION FairClientSpec
PROPERTIES
  NoCallSoonAfterFailure
  Recovers
