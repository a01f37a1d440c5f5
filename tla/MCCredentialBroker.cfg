CONSTANTS
  Agents = {a1}
  TopLevel = 0
  Proofs = {p1, p2, p3}
  Requests = {r1, r2, r3}
  RequireSigned = FALSE
  Skew = 1
  NonceTtl = 2
  MaxNonces = 1
  MaxTime = 2
  ClockErrors = {1}
  MaxIssued = 2
SPECIFICATION BrokerSpec
SYMMETRY Symmetry
INVARIANTS
  OneTokenPerProof
  MintedForLiveCredential
