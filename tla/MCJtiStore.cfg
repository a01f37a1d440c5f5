CONSTANTS
  Jtis = {j1, j2}
  MaxTtl = 3
  MaxTime = 5
  MaxQueue = 3
SPECIFICATION Spec
SYMMETRY Symmetry
INVARIANTS
  NothingForgotten
  EveryEntryQueued
  ForgottenInTime
