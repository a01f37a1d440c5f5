CONSTANTS
  p1 = p1
  p2 = p2
  Producers = {p1, p2}
  FailClosed = TRUE
  MaxChanges = 4
  MaxRestarts = 2
SPECIFICATION Spec
SYMMETRY Symmetric
INVARIANTS
  StoppedProducersIgnored
  MemoryMatchesLog
  AckedInLog
