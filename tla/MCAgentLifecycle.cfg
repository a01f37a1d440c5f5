CONSTANTS
  Agents = {a1}
  Jobs = {j1, j2, j3}
  TopLevel = 2
  MaxEvents = 3
SPECIFICATION Spec
SYMMETRY Symmetry
INVARIANTS
  TypeOK
  HistoryAccountsForLevel
  OnlyGrantedLevels
  AgreeUndisturbed
  ReadyIsComplete
