CONSTANTS
  Configs <- MCConfigs
  Credentials <- MCCredentials
  Envelopes <- MCEnvelopes
  MaxEnvelopes = 2
  MaxChanges = 1
SPECIFICATION Spec
INVARIANTS
  FailureDenies
  PassedIsJustified
  WarningsAddUp
