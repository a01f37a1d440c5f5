------------------------------- MODULE Gateway -------------------------------
(***************************************************************************)
(* The gateway (services/gateway/main.py): POST /v1/decide with its        *)
(* idempotency cache, ephemeral tokens, policy query and evidence record,  *)
(* the organisation-wide halt, token revocation, and start-up.             *)
(*                                                                         *)
(* One process serves every request; a handler runs without interruption   *)
(* up to its next await, so each action below is the code between two      *)
(* awaits, and requests interleave between actions.  Redis is external: it *)
(* answers or raises, keeps its data, and drops a key when its ttl is over;*)
(* the answers cached in memory have no ttl.                               *)
(* The in-memory registry of JtiStore is represented by what it promises:  *)
(* an entry is there until its expiry.                                     *)
(***************************************************************************)
EXTENDS Integers, FiniteSets

CONSTANTS
  Requests,   \* decide requests, each sent once
  Admins,     \* administrators, who halt and resume one call after another
  Contents,   \* what a decide request says (subject, action, context, key)
  Jtis,       \* identifiers of tokens and of DPoP proofs
  None,
  Keyed,      \* the contents sent with an Idempotency-Key and no token
  Injected,   \* the contents that the injection patterns match
  TokenOf,    \* content -> jti of its ephemeral token, or None
  ProofOf,    \* content -> jti of its DPoP proof, or None
  ExpiryOf,   \* token's jti -> exp claim
  IssuedOf,   \* proof's jti -> iat claim
  Window,     \* EPHEMERAL_REPLAY_WINDOW_SECONDS
  Skew,       \* DPOP_CLOCK_SKEW_SECONDS
  IdemTtl,    \* IDEMPOTENCY_TTL_SECONDS
  MaxTime     \* bound of the model: the clock stops here

Error == "error"   \* a 4xx or 5xx, or a connection that broke
Decisions == {"allow", "deny", "incident"}

ASSUME GatewayConstants ==
  /\ Keyed \subseteq Contents
  /\ Injected \subseteq Contents
  /\ TokenOf \in [Contents -> Jtis \union {None}]
  /\ ProofOf \in [Contents -> Jtis \union {None}]
  /\ ExpiryOf \in [Jtis -> Nat]
  /\ IssuedOf \in [Jtis -> Nat]
  /\ Window \in Nat \ {0}
  /\ Skew \in Nat \ {0}
  /\ IdemTtl \in Nat \ {0}
  /\ MaxTime \in Nat
  /\ None \notin Jtis \union Contents \union Decisions \union {Error}
  /\ None \notin BOOLEAN
  /\ \A c \in Keyed : TokenOf[c] = None
  /\ \A c \in Contents : TokenOf[c] = None => ProofOf[c] = None
  \* The broker's tokens live at most 300 seconds, the default window.
  /\ \A j \in Jtis : ExpiryOf[j] <= Window

VARIABLES
  now,         \* the clock
  process,     \* the gateway is up or down
  redisUp,     \* Redis answers
  connected,   \* _redis_client is not None
  halt,        \* _halt_state["active"]
  savedHalt,   \* the halt state kept in Redis
  registry,    \* jti -> expiry, by register (seen, revoked) and by backend
  cache,       \* the idempotency cache, by backend
  cacheExpiry, \* when Redis drops the answer cached for a content
  req,         \* the decide requests
  admin,       \* the halt or resume that an administrator has sent
  revoking,    \* the tokens that a revocation is in progress for
  past         \* history (see Past)

vars == <<now, process, redisUp, connected, halt, savedHalt, registry, cache,
          cacheExpiry, req, admin, revoking, past>>

Registers == {"seen", "revoked"}
Backends == {"redis", "memory"}
Absent == 0

Steps == {"free", "lookup", "screen", "revocation", "proof", "mark", "opa",
          "record", "store", "done"}
Request == [pc : Steps, content : Contents \union {None},
            clock : Nat,                       \* now_ts, read before the checks
            answer : Decisions \union {Error, None},
            revoked : BOOLEAN,                 \* history: sent after a revocation
            at : Nat,       \* history: when its answer was cached or found there
            own : BOOLEAN]  \* history: it was decided for itself and then cached
\* alone: history, no other halt or resume ran at the same time
AdminCall == [pc : {"free", "saving", "replying"}, want : BOOLEAN, alone : BOOLEAN]

\* used: how often a token was accepted before it expired; revocations: the
\* tokens whose revocation was answered; permitted: the contents the policy
\* allowed; overlapped: the contents of which two
\* requests ran at once; halting: what the last halt or resume asked for, None
\* until it is answered, and if it ran beside another one; disrupted: Redis
\* failed, or memory that was in use was lost.
Past == [used : [Jtis -> Nat], revocations : SUBSET Jtis, permitted : SUBSET Contents,
         overlapped : SUBSET Contents, halting : BOOLEAN \union {None},
         disrupted : BOOLEAN]

Idle == [pc |-> "free", want |-> FALSE, alone |-> FALSE]
NoRequest == [pc |-> "free", content |-> None, clock |-> 0, answer |-> None,
              revoked |-> FALSE, at |-> 0, own |-> FALSE]

Init ==
  /\ now = 0
  /\ process = "up"
  /\ redisUp \in BOOLEAN
  /\ connected = redisUp
  /\ halt = FALSE
  /\ savedHalt = None
  /\ registry = [g \in Registers |-> [b \in Backends |-> [j \in Jtis |-> Absent]]]
  /\ cache = [b \in Backends |-> [c \in Contents |-> None]]
  /\ cacheExpiry = [c \in Contents |-> 0]
  /\ req = [r \in Requests |-> NoRequest]
  /\ admin = [a \in Admins |-> Idle]
  /\ revoking = {}
  /\ past = [used |-> [j \in Jtis |-> 0], revocations |-> {}, permitted |-> {},
             overlapped |-> {}, halting |-> FALSE, disrupted |-> FALSE]

-----------------------------------------------------------------------------
(***************************************************************************)
(* The stores.  Every operation tries Redis if the gateway connected to it *)
(* at start-up, and falls back to memory when the call raises.             *)
(***************************************************************************)

Backend == IF connected /\ redisUp THEN "redis" ELSE "memory"

\* A jti is surely registered until its expiry.  The in-memory registry may
\* keep it for longer, behind a queue item that expires later.
MaybeRegistered(register, j) == registry[register][Backend][j] # Absent
Registered(register, j) ==
  MaybeRegistered(register, j) /\ registry[register][Backend][j] >= now

AtLeastOne(n) == IF n > 1 THEN n ELSE 1

Register(register, j, ttl) ==
  registry' = [registry EXCEPT ![register][Backend][j] = now + AtLeastOne(ttl)]

\* _idem_get: an answer in Redis, else one in memory.
Cached(c) ==
  IF Backend = "redis" /\ cache["redis"][c] # None
    THEN cache["redis"][c] ELSE cache["memory"][c]

Tokens == {TokenOf[c] : c \in Contents} \ {None}

stores == <<registry, cache, cacheExpiry, savedHalt>>
environment == <<now, process, redisUp, connected>>

(***************************************************************************)
(* POST /v1/decide.                                                        *)
(***************************************************************************)

At(r, step) == process = "up" /\ req[r].pc = step
Goto(r, step) == req' = [req EXCEPT ![r].pc = step]
Repeat(r, a) == req' = [req EXCEPT ![r].pc = "done", ![r].answer = a, ![r].at = now]
Reply(r) == req' = [req EXCEPT ![r].pc = "done", ![r].at = now, ![r].own = TRUE]
Failed == [NoRequest EXCEPT !.pc = "done", !.answer = Error]
Refuse(r) == req' = [req EXCEPT ![r] = Failed]
Content(r) == req[r].content
Token(r) == TokenOf[Content(r)]

\* The halt is looked at here and never again, and the size of the body.
Enter(r) ==
  /\ At(r, "free")
  /\ \/ Refuse(r)
     \/ /\ ~halt
        /\ \E c \in Contents :
             req' = [req EXCEPT ![r] =
                       [NoRequest EXCEPT !.pc = IF c \in Keyed THEN "lookup" ELSE "screen",
                                         !.content = c,
                                         !.revoked = TokenOf[c] \in past.revocations]]
  /\ UNCHANGED <<environment, stores, halt, admin, revoking, past>>

InFlight(r) == req[r].pc \notin {"free", "done"}

\* Mutant: a request waits while another one with its key is in flight.
Lookup_Waits(r) ==
  /\ At(r, "lookup")
  /\ \A s \in Requests \ {r} : InFlight(s) => Content(s) # Content(r)
  /\ IF Cached(Content(r)) # None
       THEN Repeat(r, Cached(Content(r)))
       ELSE Goto(r, "screen")
  /\ UNCHANGED <<environment, stores, halt, admin, revoking, past>>

\* The idempotency cache answers, or the request goes on; nothing marks a
\* key whose first request is still running.
Lookup(r) ==
  /\ At(r, "lookup")
  /\ IF Cached(Content(r)) # None
       THEN Repeat(r, Cached(Content(r))) /\ UNCHANGED past
       ELSE /\ Goto(r, "screen")
            /\ past' = [past EXCEPT !.overlapped = @ \union
                 {c \in {Content(r)} : \E s \in Requests \ {r} : InFlight(s) /\ Content(s) = c}]
  /\ UNCHANGED <<environment, stores, halt, admin, revoking>>

\* _check_payload_injection, then the signature of the token; the clock is
\* read before the first await of the checks.
Screen(r) ==
  /\ At(r, "screen")
  /\ \/ /\ Content(r) \in Injected
        /\ req' = [req EXCEPT ![r].pc = "record", ![r].answer = "incident"]
     \/ /\ Content(r) \notin Injected
        /\ Token(r) = None
        /\ Goto(r, "opa")
     \/ /\ Content(r) \notin Injected
        /\ Token(r) # None
        /\ \/ req' = [req EXCEPT ![r].pc = "revocation", ![r].clock = now]
           \/ Refuse(r)
  /\ UNCHANGED <<environment, stores, halt, admin, revoking, past>>

\* is_revoked, then exp against the clock that was read before it, and the
\* audience and context bindings, which may refuse the request.
CheckRevocation(r) ==
  /\ At(r, "revocation")
  /\ \/ /\ ~Registered("revoked", Token(r))
        /\ req[r].clock < ExpiryOf[Token(r)]
        /\ Goto(r, IF ProofOf[Content(r)] # None THEN "proof" ELSE "mark")
     \/ Refuse(r)
  /\ UNCHANGED <<environment, stores, halt, admin, revoking, past>>

\* _verify_dpop_proof reads the clock again.  A proof that is valid is used
\* up, even if the token is refused afterwards.
CheckProof(r) ==
  LET proof == ProofOf[Content(r)] IN
  /\ At(r, "proof")
  /\ \/ /\ now - IssuedOf[proof] \in -Skew .. Skew
        /\ ~Registered("seen", proof)
        /\ Register("seen", proof, 2 * Skew)
        /\ Goto(r, "mark")
     \/ Refuse(r) /\ UNCHANGED registry
  /\ UNCHANGED <<environment, cache, cacheExpiry, savedHalt, halt, admin, revoking, past>>

\* What is left of the token by the clock read earlier, at most the window.
TokenTtl(r) ==
  LET left == ExpiryOf[Token(r)] - req[r].clock IN IF left < Window THEN left ELSE Window

\* Mutant: the jti is looked up here and never registered.
MarkToken_NotStored(r) ==
  /\ At(r, "mark")
  /\ \/ MaybeRegistered("seen", Token(r)) /\ Refuse(r) /\ UNCHANGED past
     \/ /\ ~Registered("seen", Token(r))
        /\ Goto(r, "opa")
        /\ past' = [past EXCEPT !.used[Token(r)] =
                      IF now < ExpiryOf[Token(r)] THEN @ + 1 ELSE @]
  /\ UNCHANGED <<environment, stores, halt, admin, revoking>>

\* mark_seen: looked up and registered in one step, or the request is a replay.
MarkToken(r) ==
  /\ At(r, "mark")
  /\ \/ MaybeRegistered("seen", Token(r)) /\ Refuse(r) /\ UNCHANGED <<registry, past>>
     \/ /\ ~Registered("seen", Token(r))
        /\ Register("seen", Token(r), TokenTtl(r))
        /\ Goto(r, "opa")
        /\ past' = [past EXCEPT !.used[Token(r)] =
                      IF now < ExpiryOf[Token(r)] THEN @ + 1 ELSE @]
  /\ UNCHANGED <<environment, cache, cacheExpiry, savedHalt, halt, admin, revoking>>

\* Mutant: a policy engine that does not answer lets the request pass.
QueryOpa_FailOpen(r) ==
  /\ At(r, "opa")
  /\ \/ /\ req' = [req EXCEPT ![r].pc = "record", ![r].answer = "allow"]
        /\ past' = [past EXCEPT !.permitted = @ \union {Content(r)}]
     \/ /\ req' = [req EXCEPT ![r].pc = "record", ![r].answer = "deny"]
        /\ UNCHANGED past
     \/ /\ req' = [req EXCEPT ![r].pc = "record", ![r].answer = "allow"]
        /\ UNCHANGED past
  /\ UNCHANGED <<environment, stores, halt, admin, revoking>>

\* _query_opa: the policy allows, denies, or does not answer (a 503).
QueryOpa(r) ==
  /\ At(r, "opa")
  /\ \/ /\ req' = [req EXCEPT ![r].pc = "record", ![r].answer = "allow"]
        /\ past' = [past EXCEPT !.permitted = @ \union {Content(r)}]
     \/ /\ req' = [req EXCEPT ![r].pc = "record", ![r].answer = "deny"]
        /\ UNCHANGED past
     \/ Refuse(r) /\ UNCHANGED past
  /\ UNCHANGED <<environment, stores, halt, admin, revoking>>

\* _append_evidence: the record reaches the store or does not, and the
\* request goes on either way.
RecordEvidence(r) ==
  /\ At(r, "record")
  /\ Goto(r, IF Content(r) \in Keyed THEN "store" ELSE "done")
  /\ UNCHANGED <<environment, stores, halt, admin, revoking, past>>

\* Mutant: the answer is sent and never cached.
StoreAnswer_Skipped(r) ==
  /\ At(r, "store")
  /\ Reply(r)
  /\ UNCHANGED <<environment, stores, halt, admin, revoking, past>>

\* _idem_set, in one backend only: in Redis for the ttl, in memory for ever.
StoreAnswer(r) ==
  /\ At(r, "store")
  /\ cache' = [cache EXCEPT ![Backend][Content(r)] = req[r].answer]
  /\ cacheExpiry' = IF Backend = "redis"
                      THEN [cacheExpiry EXCEPT ![Content(r)] = now + IdemTtl]
                      ELSE cacheExpiry
  /\ Reply(r)
  /\ UNCHANGED <<environment, registry, savedHalt, halt, admin, revoking, past>>

\* What a request does by itself once it has entered.
Proceed(r) ==
  \/ Lookup(r) \/ Screen(r) \/ CheckRevocation(r) \/ CheckProof(r) \/ MarkToken(r)
  \/ QueryOpa(r) \/ RecordEvidence(r) \/ StoreAnswer(r)

(***************************************************************************)
(* POST /v1/org/halt and /v1/org/resume, by an administrator; a request of *)
(* anybody else is refused and changes nothing.                            *)
(***************************************************************************)

AdminInFlight(a) == admin[a].pc # "free"

\* The state in memory changes at once.
BeginHalt(a, want) ==
  LET others == {b \in Admins : AdminInFlight(b)} IN
  /\ process = "up"
  /\ admin[a].pc = "free"
  /\ halt' = want
  /\ admin' = [b \in Admins |->
                 IF b = a THEN [pc |-> "saving", want |-> want, alone |-> others = {}]
                 ELSE IF b \in others THEN [admin[b] EXCEPT !.alone = FALSE]
                 ELSE admin[b]]
  /\ past' = [past EXCEPT !.halting = None]
  /\ UNCHANGED <<environment, stores, req, revoking>>

\* Mutant: the state is not written to Redis.
SaveHalt_Skipped(a) ==
  /\ process = "up"
  /\ admin[a].pc = "saving"
  /\ admin' = [admin EXCEPT ![a].pc = "replying"]
  /\ UNCHANGED <<environment, stores, halt, req, revoking, past>>

\* _save_halt_state: what this call set, if Redis takes it; the exception is
\* swallowed if it does not.
SaveHalt(a) ==
  /\ process = "up"
  /\ admin[a].pc = "saving"
  /\ savedHalt' = IF connected /\ redisUp THEN admin[a].want ELSE savedHalt
  /\ admin' = [admin EXCEPT ![a].pc = "replying"]
  /\ UNCHANGED <<environment, registry, cache, cacheExpiry, halt, req, revoking, past>>

\* The record in the evidence store, which may fail, then the 200.
ReplyHalt(a) ==
  /\ process = "up"
  /\ admin[a].pc = "replying"
  /\ admin' = [admin EXCEPT ![a] = Idle]
  /\ past' = [past EXCEPT !.halting = IF admin[a].alone THEN admin[a].want ELSE @]
  /\ UNCHANGED <<environment, stores, halt, req, revoking>>

(***************************************************************************)
(* POST /v1/ephemeral/revoke/{jti}, by the issuer or an administrator, with *)
(* the default ttl.                                                        *)
(***************************************************************************)

\* Authorised; the record in the evidence store is awaited before anything
\* is registered.
BeginRevoke(j) ==
  /\ process = "up"
  /\ j \notin revoking
  /\ revoking' = revoking \union {j}
  /\ UNCHANGED <<environment, stores, halt, req, admin, past>>

\* Mutant: the revocation is kept in memory also when Redis is in use.
FinishRevoke_InMemory(j) ==
  /\ process = "up"
  /\ j \in revoking
  /\ registry' = [registry EXCEPT !["revoked"]["memory"][j] = now + Window]
  /\ revoking' = revoking \ {j}
  /\ past' = [past EXCEPT !.revocations = @ \union {j}]
  /\ UNCHANGED <<environment, cache, cacheExpiry, savedHalt, halt, req, admin>>

FinishRevoke(j) ==
  /\ process = "up"
  /\ j \in revoking
  /\ Register("revoked", j, Window)
  /\ revoking' = revoking \ {j}
  /\ past' = [past EXCEPT !.revocations = @ \union {j}]
  /\ UNCHANGED <<environment, cache, cacheExpiry, savedHalt, halt, req, admin>>

(***************************************************************************)
(* The clock, Redis, and the life of the process.                          *)
(***************************************************************************)

\* Redis drops the keys whose ttl is over.
Tick ==
  /\ now < MaxTime
  /\ now' = now + 1
  /\ registry' = [g \in Registers |->
       [registry[g] EXCEPT !["redis"] = [j \in Jtis |-> IF @[j] > now' THEN @[j] ELSE Absent]]]
  /\ cache' = [cache EXCEPT !["redis"] =
                 [c \in Contents |-> IF cacheExpiry[c] > now' THEN @[c] ELSE None]]
  /\ UNCHANGED <<process, redisUp, connected, cacheExpiry, savedHalt, halt, req, admin,
                 revoking, past>>

RedisFails ==
  /\ redisUp
  /\ redisUp' = FALSE
  /\ past' = [past EXCEPT !.disrupted = @ \/ connected \/ process = "down"]
  /\ UNCHANGED <<now, process, connected, stores, halt, req, admin, revoking>>

RedisRecovers ==
  /\ ~redisUp
  /\ redisUp' = TRUE
  /\ UNCHANGED <<now, process, connected, stores, halt, req, admin, revoking, past>>

\* Memory is lost, and with it every request that was being served.
Crash ==
  /\ process = "up"
  /\ process' = "down"
  /\ connected' = FALSE
  /\ halt' = FALSE
  /\ registry' = [g \in Registers |-> [registry[g] EXCEPT !["memory"] = [j \in Jtis |-> Absent]]]
  /\ cache' = [cache EXCEPT !["memory"] = [c \in Contents |-> None]]
  /\ req' = [r \in Requests |->
               IF InFlight(r) THEN Failed ELSE req[r]]
  /\ admin' = [a \in Admins |->
                 IF AdminInFlight(a) THEN Idle ELSE admin[a]]
  /\ revoking' = {}
  /\ past' = [past EXCEPT !.disrupted = @ \/ ~connected]
  /\ UNCHANGED <<now, redisUp, cacheExpiry, savedHalt>>

\* lifespan: _init_jti_store connects if Redis answers; _load_halt_state
\* restores the halt if Redis still does; then the keys of the broker are
\* fetched.  If that fails, the handler of the exception raises another one
\* and the server does not start: the process stays down.
Restart ==
  /\ process = "down"
  /\ \/ /\ process' = "up"
        /\ connected' = redisUp
        /\ halt' = (redisUp /\ savedHalt = TRUE)
        /\ UNCHANGED <<redisUp, past>>
     \/ /\ process' = "up"
        /\ redisUp /\ redisUp' = FALSE
        /\ connected' = TRUE
        /\ halt' = FALSE
        /\ past' = [past EXCEPT !.disrupted = TRUE]
     \/ UNCHANGED <<process, redisUp, connected, halt, past>>
  /\ UNCHANGED <<now, stores, req, admin, revoking>>

Next ==
  \/ \E r \in Requests : Enter(r) \/ Proceed(r)
  \/ \E a \in Admins : SaveHalt(a) \/ ReplyHalt(a) \/ \E want \in BOOLEAN : BeginHalt(a, want)
  \/ \E j \in Tokens : BeginRevoke(j) \/ FinishRevoke(j)
  \/ Tick \/ RedisFails \/ RedisRecovers \/ Crash \/ Restart

\* Every await of decide has a timeout (httpx) or answers (Redis or an
\* exception), so the event loop takes each request to its next step.
Fairness == \A r \in Requests : WF_vars(Proceed(r))

Spec == Init /\ [][Next]_vars
FairSpec == Spec /\ Fairness

-----------------------------------------------------------------------------
(***************************************************************************)
(* Properties.                                                             *)
(***************************************************************************)

\* Every variable keeps its shape.
TypeOK ==
  /\ now \in Nat
  /\ process \in {"up", "down"}
  /\ redisUp \in BOOLEAN
  /\ connected \in BOOLEAN
  /\ halt \in BOOLEAN
  /\ savedHalt \in BOOLEAN \union {None}
  /\ registry \in [Registers -> [Backends -> [Jtis -> Nat]]]
  /\ cache \in [Backends -> [Contents -> Decisions \union {None}]]
  /\ cacheExpiry \in [Contents -> Nat]
  /\ req \in [Requests -> Request]
  /\ admin \in [Admins -> AdminCall]
  /\ revoking \subseteq Jtis
  /\ past \in Past

\* An ephemeral token is accepted at most once while it is valid, however
\* many requests carry it at the same time, and whatever crashes, as long as
\* the registry in use (Redis) keeps answering.
SingleUse == ~past.disrupted => \A j \in Jtis : past.used[j] <= 1

\* A request sent after the revocation of its token was answered is not
\* accepted while the token is valid, across crashes and restarts.
RevokedNotAccepted ==
  [][\A r \in Requests :
       (req[r].pc = "mark" /\ req'[r].pc = "opa" /\ now < ExpiryOf[Token(r)] /\ req[r].revoked)
         => past.disrupted]_vars

\* Requests with the same Idempotency-Key and content that do not overlap
\* are given the decision that the first of them was given, until the ttl of
\* its answer is over, although the policy may have changed or the gateway
\* crashed in between.  Later the code decides again, if it uses Redis.
IdempotentAnswers ==
  \A r, s \in Requests :
    (/\ ~past.disrupted
     /\ Content(r) = Content(s) /\ Content(r) \in Keyed \ past.overlapped
     /\ req[r].pc = "done" /\ req[s].pc = "done"
     /\ {req[r].answer, req[s].answer} \subseteq Decisions
     /\ req[r].own /\ req[s].at - req[r].at \in 0 .. IdemTtl - 1)
      => req[r].answer = req[s].answer

\* Once a halt or resume has been answered the gateway is halted or not as
\* it asked, after any crash and restart, as long as Redis answers and no
\* other halt or resume runs.
HaltHolds ==
  (process = "up" /\ ~past.disrupted /\ past.halting # None) => halt = past.halting

\* No request is allowed whose content the policy never allowed: neither a
\* policy engine that fails nor the cache turns into an allow.
FailClosed ==
  \A r \in Requests :
    (req[r].pc = "done" /\ req[r].answer = "allow") => Content(r) \in past.permitted

\* A request that entered is answered, or cut off by a crash.
EventuallyAnswered ==
  \A r \in Requests : InFlight(r) ~> req[r].pc = "done"

=============================================================================
