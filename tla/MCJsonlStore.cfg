CONSTANTS
  Payloads = {p1, p2}
  MaxAppends = 4
  MaxBoots = 3
SPECIFICATION Spec
INVARIANTS
  AckedDurable
  LookupFindsRecord
  IdsUnique
  CrashesRecoverable
PROPERTIES
  OpensComplete
  LogSpec
