-------------------------- MODULE CredentialBroker --------------------------
(***************************************************************************)
(* The credential broker (services/credential-broker/main.py): it mints a  *)
(* token for a call of a tool if the agent is active in AIM and shows that *)
(* it holds its credential, by a signed proof with a nonce or, where that  *)
(* is still allowed, by the hmac of the credential itself.  AIM's answer   *)
(* is awaited, so the credential it gave may be old when it is used; what  *)
(* follows, up to the token, happens without an await.  The nonces are     *)
(* kept in memory only.                                                    *)
(***************************************************************************)
EXTENDS AgentIdentity, Integers, FiniteSets

CONSTANTS
  Proofs,         \* signed proofs, each with a nonce of its own
  Requests,       \* requests for a token
  RequireSigned,  \* REQUIRE_SIGNED_AGENT_PROOF
  Skew,           \* AGENT_PROOF_MAX_SKEW_SECONDS
  NonceTtl,       \* NONCE_TTL_SECONDS
  MaxNonces,      \* MAX_NONCE_CACHE_SIZE
  ClockErrors,    \* bound of the model: how far the clocks of agents are ahead
  MaxTime,        \* bound of the model: the clock stops here
  MaxIssued       \* bound of the model: credentials of one agent

ASSUME BrokerConstants ==
  /\ RequireSigned \in BOOLEAN
  /\ ClockErrors \subseteq Nat
  /\ {Skew, NonceTtl, MaxNonces, MaxTime, MaxIssued} \subseteq Nat
  /\ "none" \notin Proofs \union Agents

VARIABLES
  now,        \* the clock, in whole seconds
  proofs,     \* the proofs agents have signed
  nonces,     \* _proof_nonces: until when a nonce is kept, 0 if it is not
  requests,   \* the requests, with what each has read
  forgotten   \* history: proofs whose nonce was evicted or lost in a restart

brokerVars == <<agents, now, proofs, nonces, requests, forgotten>>

None == "none"

Proof == [agent : Agents \union {None}, key : Nat, at : Nat]
Unsigned == [agent |-> None, key |-> 0, at |-> 0]

Request ==
  [pc : {"new", "load", "authorize", "minted", "refused"},
   agent : Agents \union {None}, proof : Proofs \union {None}, hmac : Nat,
   sent : Row, credential : Row, minted : Nat]
New ==
  [pc |-> "new", agent |-> None, proof |-> None, hmac |-> 0,
   sent |-> NoRow, credential |-> NoRow, minted |-> 0]

BrokerInit ==
  /\ InitIdentity
  /\ now = 0
  /\ proofs = [p \in Proofs |-> Unsigned]
  /\ nonces = [p \in Proofs |-> 0]
  /\ requests = [r \in Requests |-> New]
  /\ forgotten = {}
-----------------------------------------------------------------------------
\* Agents and the clients of AIM.

\* AIM takes a request of a client.
Register(a) ==
  /\ RegisterAgent(a)
  /\ UNCHANGED <<now, proofs, nonces, requests, forgotten>>

RotateAgent(a) ==
  /\ agents[a].issued < MaxIssued
  /\ RotateCredential(a)
  /\ UNCHANGED <<now, proofs, nonces, requests, forgotten>>

RevokeAgent(a) ==
  /\ RevokeCredential(a)
  /\ UNCHANGED <<now, proofs, nonces, requests, forgotten>>

\* A request of agent a with the proof p or with the hmac of credential h; no
\* client of the repository sends both.
Send(r, a, p, h) ==
  /\ requests[r] = New
  /\ requests' = [requests EXCEPT ![r] =
       [New EXCEPT !.pc = "load", !.agent = a, !.proof = p, !.hmac = h, !.sent = agents[a]]]
  /\ UNCHANGED <<agents, now, nonces, forgotten>>

\* The agent signs the request with a credential it has, which need not be
\* the last one, at the time its own clock shows.
SendSigned(r, a) ==
  \E p \in Proofs, k \in 1 .. agents[a].issued, e \in ClockErrors :
    /\ proofs[p] = Unsigned
    /\ proofs' = [proofs EXCEPT ![p] = [agent |-> a, key |-> k, at |-> now + e]]
    /\ Send(r, a, p, 0)

\* The same request comes once more: a retry, or a duplicate.
SendAgain(r) ==
  \E p \in Proofs :
    /\ proofs[p] # Unsigned
    /\ Send(r, proofs[p].agent, p, 0)
    /\ UNCHANGED proofs

\* A request with an hmac instead of a proof.
SendUnsigned(r, a) ==
  /\ \E h \in 1 .. agents[a].issued : Send(r, a, None, h)
  /\ UNCHANGED proofs

Tick ==
  /\ now < MaxTime
  /\ now' = now + 1
  /\ UNCHANGED <<agents, proofs, nonces, requests, forgotten>>
-----------------------------------------------------------------------------
\* issue_tool_token

\* The answer with a token, minted for the proof p or for an hmac, and the
\* one without.
Mint(r, p) ==
  requests' = [requests EXCEPT ![r] =
    [@ EXCEPT !.pc = "minted", !.proof = p, !.hmac = 0, !.minted = now]]
Refuse(r) == requests' = [requests EXCEPT ![r] = [New EXCEPT !.pc = "refused"]]

\* Mutant: a credential that was read for another request is used again.
LoadCredential_Cached(r) ==
  /\ requests[r].pc = "load"
  /\ IsRegistered(requests[r].agent)
  /\ \E c \in {agents[requests[r].agent]}
              \union {requests[q].credential : q \in {x \in Requests :
                   requests[x].agent = requests[r].agent /\ requests[x].credential # NoRow}} :
       requests' = [requests EXCEPT ![r].pc = "authorize", ![r].credential = c]
  /\ UNCHANGED <<agents, now, proofs, nonces, forgotten>>

\* _load_agent_credential: AIM reads the row; the broker sees it later.
LoadCredential(r) ==
  /\ requests[r].pc = "load"
  /\ IsRegistered(requests[r].agent)
  /\ requests' = [requests EXCEPT ![r].pc = "authorize",
                                  ![r].credential = agents[requests[r].agent]]
  /\ UNCHANGED <<agents, now, proofs, nonces, forgotten>>

\* AIM does not know the agent, refuses, or does not answer in three
\* seconds; or the scope of the request does not fit its audience.
LoadFails(r) ==
  /\ requests[r].pc = "load"
  /\ Refuse(r)
  /\ UNCHANGED <<agents, now, proofs, nonces, forgotten>>

\* The request has a proof, and the time in it is close to the broker's.
HasProofInTime(r) ==
  /\ requests[r].proof # None
  /\ now - proofs[requests[r].proof].at \in -Skew .. Skew

\* Mutant: a nonce is dropped a second before it expires.
Unexpired_Early == {p \in Proofs : nonces[p] > now + 1}

Unexpired == {p \in Proofs : nonces[p] > now}

\* _cleanup_proof_nonces: what it may keep.  If too many nonces have not
\* expired, one of those that expire first goes.
Kept ==
  IF Cardinality(Unexpired) > MaxNonces
    THEN {Unexpired \ {p} : p \in {x \in Unexpired : \A y \in Unexpired : nonces[x] <= nonces[y]}}
    ELSE {Unexpired}

CleanUp(kept) == [p \in Proofs |-> IF p \in kept THEN nonces[p] ELSE 0]

ExpiryOf(p) == now + NonceTtl

\* The credential of r is active and its proof in time: the nonces are
\* cleaned up before anything else is looked at.
Cleaning(r, kept) ==
  /\ requests[r].pc = "authorize"
  /\ requests[r].credential.state = "ACTIVE"
  /\ HasProofInTime(r)
  /\ kept \in Kept
  /\ forgotten' = forgotten \union (Unexpired \ kept)
  /\ UNCHANGED <<agents, now, proofs>>

RefuseInactive(r) ==
  /\ requests[r].pc = "authorize"
  /\ requests[r].credential.state # "ACTIVE"
  /\ Refuse(r)
  /\ UNCHANGED <<agents, now, proofs, nonces, forgotten>>

\* The nonce of the proof is known: 409.
RefuseReused(r) ==
  \E kept \in Kept :
    /\ Cleaning(r, kept)
    /\ requests[r].proof \in kept
    /\ nonces' = CleanUp(kept)
    /\ Refuse(r)

\* The proof is signed with the credential: its nonce is kept, and a token
\* is minted unless the agent may not do what it asks for.
AcceptProof(r) ==
  LET p == requests[r].proof IN
  \E kept \in Kept :
    /\ Cleaning(r, kept)
    /\ p \notin kept
    /\ proofs[p].key = requests[r].credential.issued
    /\ nonces' = [CleanUp(kept) EXCEPT ![p] = ExpiryOf(p)]
    /\ Mint(r, p) \/ Refuse(r)

\* Without a signed proof, the hmac has to be that of the credential.
CheckHmac(r) ==
  \/ /\ ~ RequireSigned
     /\ requests[r].hmac = requests[r].credential.issued
     /\ Mint(r, None) \/ Refuse(r)
  \/ /\ RequireSigned \/ requests[r].hmac # requests[r].credential.issued
     /\ Refuse(r)

\* The proof is signed with another credential.
AcceptHmacForWrongProof(r) ==
  \E kept \in Kept :
    /\ Cleaning(r, kept)
    /\ requests[r].proof \notin kept
    /\ proofs[requests[r].proof].key # requests[r].credential.issued
    /\ nonces' = CleanUp(kept)
    /\ CheckHmac(r)

\* There is no proof, or its time is too far from the broker's.
AcceptHmac(r) ==
  /\ requests[r].pc = "authorize"
  /\ requests[r].credential.state = "ACTIVE"
  /\ ~ HasProofInTime(r)
  /\ CheckHmac(r)
  /\ UNCHANGED <<agents, now, proofs, nonces, forgotten>>

\* The broker crashes and starts again: its requests and nonces are gone.
\* Its signing key is read from the volume, so the tokens stay good.
Restart ==
  /\ nonces' = [p \in Proofs |-> 0]
  /\ requests' = [r \in Requests |->
       IF requests[r].pc \in {"load", "authorize"} THEN [New EXCEPT !.pc = "refused"] ELSE requests[r]]
  /\ forgotten' = forgotten \union {p \in Proofs : nonces[p] # 0}
  /\ UNCHANGED <<agents, now, proofs>>

BrokerNext ==
  \/ \E a \in Agents :
       \/ Register(a) \/ RotateAgent(a) \/ RevokeAgent(a)
       \/ \E r \in Requests : SendSigned(r, a) \/ SendUnsigned(r, a)
  \/ \E r \in Requests :
       \/ SendAgain(r) \/ LoadCredential(r) \/ LoadFails(r) \/ RefuseInactive(r) \/ RefuseReused(r)
       \/ AcceptProof(r) \/ AcceptHmacForWrongProof(r) \/ AcceptHmac(r)
  \/ Restart \/ Tick

BrokerSpec == BrokerInit /\ [][BrokerNext]_brokerVars
-----------------------------------------------------------------------------
\* The types of AIM's rows, the nonces and the requests.
BrokerTypeOK ==
  /\ agents \in [Agents -> Row]
  /\ now \in 0 .. MaxTime
  /\ proofs \in [Proofs -> Proof]
  /\ nonces \in [Proofs -> 0 .. MaxTime + NonceTtl]
  /\ requests \in [Requests -> Request]
  /\ forgotten \subseteq Proofs

\* The requests that got a token for the proof p.
MintedWith(p) == {r \in Requests : requests[r].pc = "minted" /\ requests[r].proof = p}

\* A proof yields a second token only when its nonce was evicted or lost in
\* a restart, or when as much time has passed as nonces are kept
\* (_validate_signed_agent_proof).
OneTokenPerProof ==
  \A p \in Proofs \ forgotten :
    \A q, r \in MintedWith(p) :
      q # r => requests[q].minted - requests[r].minted \notin 1 - NonceTtl .. NonceTtl - 1

\* A token is minted for a credential that was not replaced, and for an
\* agent that was not suspended, when the request was sent; a rotation
\* after that makes a suspended agent active (_authorize_tool_token, which
\* uses a credential it read before).
MintedForLiveCredential ==
  \A r \in Requests :
    requests[r].pc = "minted" =>
      /\ requests[r].credential.state = "ACTIVE"
      /\ requests[r].credential.issued >= requests[r].sent.issued
      /\ requests[r].sent.state = "SUSPENDED" =>
           requests[r].credential.issued > requests[r].sent.issued

=============================================================================
