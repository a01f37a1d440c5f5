CONSTANTS
  MaxIndexSize = 2
  MaxAppends = 5
  MaxRestarts = 2
SPECIFICATION Spec
INVARIANTS
  SequenceIncreasing
  NoSilentLoss
  CrashKeepsChain
  IndexIsNewest
PROPERTIES
  BrokenStaysBroken
  LogSpec
