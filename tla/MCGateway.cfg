CONSTANTS
  keyed = keyed
  bearer = bearer
  bound = bound
  injected = injected
  token = token
  dpop = dpop
  None = None
  TokenOf <- MCTokenOf
  ProofOf <- MCProofOf
  ExpiryOf <- MCExpiryOf
  IssuedOf <- MCIssuedOf
  Window = 2
  Skew = 1
  IdemTtl = 2
  Requests = {r1, r2}
  Admins = {a1, a2}
  Contents = {keyed, bearer, bound, injected}
  Jtis = {token, dpop}
  Keyed = {keyed}
  Injected = {injected}
  MaxTime = 2
SPECIFICATION FairSpec
CONSTRAINT Workloads
INVARIANTS
  SingleUse
  IdempotentAnswers
  HaltHolds
  FailClosed
PROPERTIES
  RevokedNotAccepted
  EventuallyAnswered
