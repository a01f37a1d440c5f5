---------------------------- MODULE GatewayProofs ----------------------------
(***************************************************************************)
(* What TLAPS proves of Gateway, for any number of requests, administrators *)
(* and tokens, any clock and any outages, crashes and restarts.            *)
(*                                                                         *)
(* Shape says where each request is and what it carries there, Home where  *)
(* the state lives while nothing was disrupted: in Redis if the gateway    *)
(* connected to it or is down, else in memory.  The invariant of each      *)
(* property says what is kept there.                                       *)
(***************************************************************************)
EXTENDS Gateway, TLAPS

\* What a request carries at its step.
RequestOK(k) ==
  /\ k \in Request
  /\ k.clock <= now /\ k.at <= now
  /\ k.own => k.pc = "done"
  /\ k.pc \notin {"free", "done"} => k.content \in Contents
  /\ k.pc = "lookup" => k.content \in Keyed
  /\ k.pc \in {"revocation", "proof", "mark"} => TokenOf[k.content] \in Jtis
  /\ k.pc = "proof" => ProofOf[k.content] \in Jtis
  /\ k.pc \in {"proof", "mark"} => k.clock < ExpiryOf[TokenOf[k.content]]
  /\ k.pc \in {"record", "store"} => k.answer \in Decisions
  /\ k.pc \in {"free", "lookup", "screen"} => k.answer = None

Shape == TypeOK /\ \A r \in Requests : RequestOK(req[r])

\* Memory holds what matters only in a gateway that never reached Redis.
InMemory == process = "up" /\ ~connected
Store == IF InMemory THEN "memory" ELSE "redis"
Home ==
  /\ process = "down" => ~connected /\ revoking = {}
                         /\ (\A a \in Admins : admin[a].pc = "free")
                         /\ (\A r \in Requests : ~InFlight(r))
  /\ (~past.disrupted /\ ~InMemory) => redisUp

PermittedOnly ==
  /\ \A b \in Backends, c \in Contents : cache[b][c] = "allow" => c \in past.permitted
  /\ \A r \in Requests : req[r].answer = "allow" => req[r].content \in past.permitted

\* The halt that was answered, and the one that is about to be.
Answered(want) ==
  /\ process = "up" => halt = want
  /\ ~InMemory => (savedHalt = TRUE <=> want)
HaltsMatch ==
  /\ \A a \in Admins :
       (AdminInFlight(a) /\ admin[a].alone) => \A b \in Admins \ {a} : ~AdminInFlight(b)
  /\ \A a \in Admins : AdminInFlight(a) => past.halting = None
  /\ ~past.disrupted =>
       /\ past.halting # None => Answered(past.halting)
       /\ \A a \in Admins : admin[a].alone =>
            /\ admin[a].pc = "saving" => halt = admin[a].want
            /\ admin[a].pc = "replying" => Answered(admin[a].want)

\* A jti is registered in the store until the token expires.
Kept(register, j) == now < ExpiryOf[j] => registry[register][Store][j] >= ExpiryOf[j]
TokensUsed ==
  ~past.disrupted =>
    \A j \in Jtis : past.used[j] <= 1 /\ (past.used[j] = 1 => Kept("seen", j))

RevocationsKept ==
  /\ ~past.disrupted => \A j \in past.revocations : Kept("revoked", j)
  /\ \A r \in Requests : req[r].revoked =>
       /\ TokenOf[Content(r)] \in past.revocations
       /\ (~past.disrupted /\ req[r].pc \in {"proof", "mark"}) => now >= ExpiryOf[Token(r)]

\* A request with a key that was answered, and one that is being worked on.
Decided(r, c) == req[r].pc = "done" /\ Content(r) = c /\ req[r].answer \in Decisions
Working(r, c) == InFlight(r) /\ req[r].pc # "lookup" /\ Content(r) = c
\* Its answer is in the cache surely: it was put or found there at this time,
\* or put there less than a ttl ago.
Fresh(r) == req[r].at = now \/ (req[r].own /\ now < req[r].at + IdemTtl)
Stored(r, c) ==
  (Decided(r, c) /\ Fresh(r)) =>
    /\ cache[Store][c] = req[r].answer
    /\ (req[r].own /\ Store = "redis") => cacheExpiry[c] >= req[r].at + IdemTtl
Alone(r, c) ==
  Working(r, c) => cache[Store][c] = None /\ \A s \in Requests \ {r} : ~Working(s, c)
Repeats(r, s, c) ==
  (/\ Decided(r, c) /\ req[r].own /\ Decided(s, c)
   /\ req[s].at - req[r].at \in 0 .. IdemTtl - 1)
    => req[s].answer = req[r].answer
\* What holds of the requests with the content c: an answer is cached until
\* its ttl is over, a request is worked on only when none is cached and then
\* alone, and what follows an answer within the ttl repeats it.
Consistent(c) ==
  \A r \in Requests : Stored(r, c) /\ Alone(r, c) /\ \A s \in Requests : Repeats(r, s, c)
MemoryUnused == ~InMemory => \A c \in Contents : cache["memory"][c] = None
AnswersKept ==
  ~past.disrupted => MemoryUnused /\ \A c \in Keyed \ past.overlapped : Consistent(c)

-----------------------------------------------------------------------------
USE DEF Steps, Backends, Registers, Decisions

LEMMA InitShape == Init => Shape
<1> SUFFICES ASSUME Init PROVE Shape
  OBVIOUS
<1>1. NoRequest \in Request /\ RequestOK(NoRequest)
  BY GatewayConstants DEF Init, RequestOK, Request, NoRequest
<1>2. past \in Past
  BY GatewayConstants DEF Init, Past
<1>3. admin \in [Admins -> AdminCall]
  BY DEF Init, AdminCall, Idle
<1>4. /\ registry \in [Registers -> [Backends -> [Jtis -> Nat]]]
      /\ cache \in [Backends -> [Contents -> Decisions \union {None}]]
  BY DEF Init, Absent
<1> QED
  BY <1>1, <1>2, <1>3, <1>4 DEF Init, Shape, TypeOK

\* A step of one request, that leaves the clock alone.
LEMMA RequestStep ==
  ASSUME Shape, NEW r \in Requests, NEW k, RequestOK(k), req' = [req EXCEPT ![r] = k],
         UNCHANGED <<environment, halt, savedHalt, admin, revoking>>,
         registry' \in [Registers -> [Backends -> [Jtis -> Nat]]],
         cache' \in [Backends -> [Contents -> Decisions \union {None}]],
         cacheExpiry' \in [Contents -> Nat],
         past' \in Past
  PROVE  Shape'
<1>1. \A x : RequestOK(x) => RequestOK(x)'
  BY DEF RequestOK, environment
<1>2. req' \in [Requests -> Request]
  BY DEF RequestOK, Shape, TypeOK
<1>3. \A s \in Requests : req'[s] = IF s = r THEN k ELSE req[s]
  BY DEF Shape, TypeOK
<1>4. \A s \in Requests : RequestOK(req[s])'
  BY <1>1, <1>3 DEF Shape
<1> QED
  BY <1>2, <1>4 DEF Shape, TypeOK, environment

\* A request that goes to another step and carries what it carried.
LEMMA GotoShape ==
  ASSUME Shape, NEW r \in Requests, NEW step \in Steps,
         RequestOK([req[r] EXCEPT !.pc = step]), Goto(r, step),
         UNCHANGED <<environment, halt, savedHalt, admin, revoking>>,
         registry' \in [Registers -> [Backends -> [Jtis -> Nat]]],
         cache' \in [Backends -> [Contents -> Decisions \union {None}]],
         cacheExpiry' \in [Contents -> Nat],
         past' \in Past
  PROVE  Shape'
<1>1. req' = [req EXCEPT ![r] = [req[r] EXCEPT !.pc = step]]
  BY DEF Goto, Shape, TypeOK
<1> QED
  BY <1>1, RequestStep

LEMMA AnswerShape ==
  ASSUME Shape, NEW r \in Requests, NEW step \in {"record", "done"}, NEW a \in Decisions,
         req' = [req EXCEPT ![r].pc = step, ![r].answer = a], req[r].pc # "free",
         req[r].pc # "done",
         UNCHANGED <<environment, stores, halt, admin, revoking>>, past' \in Past
  PROVE  Shape'
<1>1. req' = [req EXCEPT ![r] = [req[r] EXCEPT !.pc = step, !.answer = a]]
  BY DEF Shape, TypeOK
<1>2. RequestOK([req[r] EXCEPT !.pc = step, !.answer = a])
  BY DEF Shape, TypeOK, RequestOK, Request
<1> QED
  BY <1>1, <1>2, RequestStep DEF Shape, TypeOK, stores

LEMMA NoRequestOK ==
  NoRequest \in Request /\ NoRequest.clock = 0 /\ NoRequest.at = 0
  /\ NoRequest.own = FALSE /\ NoRequest.answer = None
BY GatewayConstants DEF NoRequest, Request

LEMMA FailedOK == now \in Nat => Failed \in Request /\ RequestOK(Failed)
<1> SUFFICES ASSUME now \in Nat PROVE Failed \in Request /\ RequestOK(Failed)
  OBVIOUS
<1>1. Failed.pc = "done" /\ Failed.clock = 0 /\ Failed.at = 0
  BY NoRequestOK DEF Failed, Request
<1>2. Failed \in Request
  BY NoRequestOK DEF Failed, Request
<1> QED
  BY <1>1, <1>2 DEF RequestOK

LEMMA RefuseShape ==
  ASSUME Shape, NEW r \in Requests, Refuse(r),
         UNCHANGED <<environment, stores, halt, admin, revoking>>, past' \in Past
  PROVE  Shape'
<1>1. now \in Nat
  BY DEF Shape, TypeOK
<1>2. RequestOK(Failed)
  BY <1>1, FailedOK
<1> QED
  BY <1>2, RequestStep DEF Refuse, Shape, TypeOK, stores

\* What a request carries whose answer is in the cache.
LEMMA DoneOK ==
  ASSUME now \in Nat, NEW k, RequestOK(k), NEW a \in Decisions, NEW own \in BOOLEAN
  PROVE  /\ RequestOK([k EXCEPT !.pc = "done", !.answer = a, !.at = now, !.own = own])
         /\ RequestOK([k EXCEPT !.pc = "done", !.answer = a, !.at = now])
<1> DEFINE d == [k EXCEPT !.pc = "done", !.answer = a, !.at = now, !.own = own]
           e == [k EXCEPT !.pc = "done", !.answer = a, !.at = now]
<1>1. /\ d \in Request /\ d.pc = "done" /\ d.clock = k.clock /\ d.at = now
      /\ e \in Request /\ e.pc = "done" /\ e.clock = k.clock /\ e.at = now
  BY DEF RequestOK, Request
<1>2. k.clock <= now
  BY DEF RequestOK
<1> HIDE DEF d, e
<1>3. RequestOK(d) /\ RequestOK(e)
  BY <1>1, <1>2 DEF RequestOK
<1> QED
  BY <1>3 DEF d, e

\* What a registration leaves.
LEMMA RegisterShape ==
  ASSUME TypeOK, NEW g \in Registers, NEW j \in Jtis, NEW ttl \in Int, Register(g, j, ttl)
  PROVE  /\ registry' \in [Registers -> [Backends -> [Jtis -> Nat]]]
         /\ registry'[g][Backend][j] >= now + ttl /\ registry'[g][Backend][j] > now
         /\ \A h \in Registers, b \in Backends, i \in Jtis :
              <<h, b, i>> # <<g, Backend, j>> => registry'[h][b][i] = registry[h][b][i]
<1>1. AtLeastOne(ttl) \in Nat \ {0} /\ AtLeastOne(ttl) >= ttl
  BY DEF AtLeastOne
<1>2. Backend \in Backends
  BY DEF Backend
<1>3. now + AtLeastOne(ttl) \in Nat
  BY <1>1 DEF TypeOK
<1>4. registry' = [registry EXCEPT ![g][Backend][j] = now + AtLeastOne(ttl)]
  BY DEF Register
<1> HIDE DEF Backends
<1>5. registry'[g][Backend][j] = now + AtLeastOne(ttl)
  BY <1>2, <1>4 DEF TypeOK
<1>6. \A h \in Registers, b \in Backends, i \in Jtis :
        <<h, b, i>> # <<g, Backend, j>> => registry'[h][b][i] = registry[h][b][i]
  BY <1>2, <1>4 DEF TypeOK
<1>7. registry' \in [Registers -> [Backends -> [Jtis -> Nat]]]
  BY <1>2, <1>3, <1>4 DEF TypeOK
<1>8. registry'[g][Backend][j] >= now + ttl /\ registry'[g][Backend][j] > now
  BY <1>1, <1>5 DEF TypeOK
<1> QED
  BY <1>6, <1>7, <1>8

LEMMA TokenTtlInt ==
  ASSUME Shape, NEW r \in Requests, At(r, "mark")
  PROVE  TokenTtl(r) \in Nat /\ TokenTtl(r) + now >= ExpiryOf[Token(r)] /\ Token(r) \in Jtis
BY GatewayConstants DEF Shape, TypeOK, At, TokenTtl, Token, Content, RequestOK, Request

LEMMA ProceedShape ==
  ASSUME Shape, NEW r \in Requests, Enter(r) \/ Proceed(r)
  PROVE  Shape'
<1>0. /\ past \in Past /\ stores = <<registry, cache, cacheExpiry, savedHalt>>
      /\ TypeOK /\ RequestOK(req[r]) /\ req[r] \in Request
  BY DEF Shape, TypeOK, stores
<1>t. now \in Nat
  BY DEF Shape, TypeOK
<1>1. CASE Enter(r)
  <2>1. CASE Refuse(r)
    BY <1>0, <1>1, <2>1, RefuseShape DEF Enter, stores
  <2>2. CASE ~Refuse(r)
    <3>1. PICK c \in Contents :
            req' = [req EXCEPT ![r] =
                       [NoRequest EXCEPT !.pc = IF c \in Keyed THEN "lookup" ELSE "screen",
                                         !.content = c,
                                         !.revoked = TokenOf[c] \in past.revocations]]
      BY <1>1, <2>2 DEF Enter
    <3>2. RequestOK([NoRequest EXCEPT !.pc = IF c \in Keyed THEN "lookup" ELSE "screen",
                                      !.content = c,
                                      !.revoked = TokenOf[c] \in past.revocations])
      <4>1. (TokenOf[c] \in past.revocations) \in BOOLEAN
        OBVIOUS
      <4> DEFINE pc == IF c \in Keyed THEN "lookup" ELSE "screen"
                 revoked == TokenOf[c] \in past.revocations
                 k == [NoRequest EXCEPT !.pc = pc, !.content = c, !.revoked = revoked]
      <4>2. pc \in {"lookup", "screen"} /\ (pc = "lookup" => c \in Keyed) /\ revoked \in BOOLEAN
        BY <4>1
      <4> HIDE DEF pc, revoked
      <4>3. k \in Request
        BY <4>2, NoRequestOK DEF Request
      <4>4. k.pc = pc /\ k.content = c /\ k.clock = 0 /\ k.at = 0 /\ k.own = FALSE /\ k.answer = None
        BY NoRequestOK DEF Request
      <4> HIDE DEF k
      <4>5. RequestOK(k)
        BY <1>0, <4>2, <4>3, <4>4 DEF RequestOK, TypeOK
      <4> QED
        BY <4>5 DEF k, pc, revoked
    <3> QED
      BY <1>0, <1>1, <3>1, <3>2, RequestStep DEF Enter, TypeOK, stores
  <2> QED
    BY <2>1, <2>2
<1>2. CASE Lookup(r)
  <2>1. past' \in Past
    BY <1>0, <1>2 DEF Lookup, Past, At, RequestOK, Content
  <2>2. CASE Cached(Content(r)) # None
    <3>1. Cached(Content(r)) \in Decisions
      BY <1>0, <1>2, <2>2 DEF Lookup, At, RequestOK, Content, Cached, TypeOK, Backend
    <3> DEFINE k == [req[r] EXCEPT !.pc = "done", !.answer = Cached(Content(r)), !.at = now]
    <3>2. req' = [req EXCEPT ![r] = k]
      BY <1>0, <1>2, <2>2 DEF Lookup, Repeat, TypeOK
    <3>3. RequestOK(k)
      BY <1>0, <1>t, <3>1, DoneOK
    <3> QED
      BY <1>0, <1>2, <2>1, <3>2, <3>3, RequestStep DEF Lookup, TypeOK, stores
  <2>3. CASE Cached(Content(r)) = None
    <3>1. RequestOK([req[r] EXCEPT !.pc = "screen"]) /\ Goto(r, "screen")
      BY <1>0, <1>2, <2>3 DEF Lookup, At, RequestOK, Request
    <3> QED
      BY <1>0, <1>2, <2>1, <3>1, GotoShape DEF Lookup, TypeOK, stores
  <2> QED
    BY <2>2, <2>3
<1>3. CASE Screen(r)
  <2>1. CASE Refuse(r)
    BY <1>0, <1>3, <2>1, RefuseShape DEF Screen, stores
  <2>2. CASE req' = [req EXCEPT ![r].pc = "record", ![r].answer = "incident"]
    BY <1>0, <1>3, <2>2, AnswerShape DEF Screen, At, stores
  <2>3. CASE Goto(r, "opa")
    <3>0. req[r].pc = "screen"
      BY <1>3 DEF Screen, At
    <3>1. RequestOK([req[r] EXCEPT !.pc = "opa"])
      BY <1>0, <3>0 DEF RequestOK, Request
    <3> QED
      BY <1>0, <1>3, <2>3, <3>1, GotoShape DEF Screen, TypeOK, stores
  <2>4. CASE Token(r) # None /\ req' = [req EXCEPT ![r].pc = "revocation", ![r].clock = now]
    <3> DEFINE k == [req[r] EXCEPT !.pc = "revocation", !.clock = now]
    <3>0. req[r].pc = "screen" /\ TokenOf[req[r].content] # None
      BY <1>3, <2>4 DEF Screen, At, Token, Content
    <3>k. /\ k \in Request /\ k.pc = "revocation" /\ k.clock = now /\ k.at = req[r].at
          /\ k.own = req[r].own /\ k.content = req[r].content /\ k.answer = req[r].answer
      BY <1>0, <1>t DEF Request
    <3>r. /\ req[r].content \in Contents /\ req[r].at <= now /\ ~req[r].own
      BY <1>0, <3>0 DEF RequestOK
    <3>j. TokenOf[req[r].content] \in Jtis
      BY <3>0, <3>r, GatewayConstants
    <3> HIDE DEF k
    <3>l. RequestOK(k)
      BY <1>t, <3>k, <3>r, <3>j DEF RequestOK
    <3>1. RequestOK([req[r] EXCEPT !.pc = "revocation", !.clock = now])
      BY <3>l DEF k
    <3>2. req' = [req EXCEPT ![r] = [req[r] EXCEPT !.pc = "revocation", !.clock = now]]
      BY <1>0, <2>4 DEF TypeOK
    <3> QED
      BY <1>0, <1>3, <3>1, <3>2, RequestStep DEF Screen, TypeOK, stores
  <2> QED
    BY <1>3, <2>1, <2>2, <2>3, <2>4 DEF Screen
<1>4. CASE CheckRevocation(r)
  <2>1. CASE Refuse(r)
    BY <1>0, <1>4, <2>1, RefuseShape DEF CheckRevocation, stores
  <2>2. CASE ~Refuse(r)
    <3> DEFINE step == IF ProofOf[Content(r)] # None THEN "proof" ELSE "mark"
    <3>1. RequestOK([req[r] EXCEPT !.pc = step]) /\ Goto(r, step)
      BY <1>0, <1>4, <2>2, GatewayConstants
      DEF CheckRevocation, At, RequestOK, Request, Token, Content
    <3> QED
      BY <1>0, <1>4, <3>1, GotoShape DEF CheckRevocation, TypeOK, stores
  <2> QED
    BY <2>1, <2>2
<1>5. CASE CheckProof(r)
  <2>1. CASE Refuse(r) /\ UNCHANGED registry
    BY <1>0, <1>5, <2>1, RefuseShape DEF CheckProof, stores
  <2>2. CASE Goto(r, "mark") /\ Register("seen", ProofOf[Content(r)], 2 * Skew)
    <3>1. registry' \in [Registers -> [Backends -> [Jtis -> Nat]]]
      BY <1>0, <1>5, <2>2, RegisterShape, GatewayConstants DEF CheckProof, At, RequestOK, Content
    <3>2. RequestOK([req[r] EXCEPT !.pc = "mark"])
      BY <1>0, <1>5 DEF CheckProof, At, RequestOK, Request
    <3> QED
      BY <1>0, <1>5, <2>2, <3>1, <3>2, GotoShape DEF CheckProof, TypeOK, stores
  <2> QED
    BY <1>5, <2>1, <2>2 DEF CheckProof
<1>6. CASE MarkToken(r)
  <2>1. CASE Refuse(r) /\ UNCHANGED <<registry, past>>
    BY <1>0, <1>6, <2>1, RefuseShape DEF MarkToken, stores
  <2>2. CASE Goto(r, "opa") /\ Register("seen", Token(r), TokenTtl(r))
             /\ past' = [past EXCEPT !.used[Token(r)] = IF now < ExpiryOf[Token(r)] THEN @ + 1 ELSE @]
    <3>1. registry' \in [Registers -> [Backends -> [Jtis -> Nat]]]
      BY <1>0, <1>6, <2>2, RegisterShape, TokenTtlInt DEF MarkToken
    <3>2. RequestOK([req[r] EXCEPT !.pc = "opa"])
      BY <1>0, <1>6 DEF MarkToken, At, RequestOK, Request
    <3>3. past' \in Past
      BY <1>0, <1>6, <2>2, TokenTtlInt DEF MarkToken, Past
    <3> QED
      BY <1>0, <1>6, <2>2, <3>1, <3>2, <3>3, GotoShape DEF MarkToken, TypeOK
  <2> QED
    BY <1>6, <2>1, <2>2 DEF MarkToken
<1>7. CASE QueryOpa(r)
  <2>1. past' \in Past
    BY <1>0, <1>7 DEF QueryOpa, Past, At, RequestOK, Content
  <2> QED
    BY <1>0, <1>7, <2>1, RefuseShape, AnswerShape DEF QueryOpa, At
<1>8. CASE RecordEvidence(r)
  <2> DEFINE step == IF Content(r) \in Keyed THEN "store" ELSE "done"
  <2>1. RequestOK([req[r] EXCEPT !.pc = step]) /\ Goto(r, step)
    BY <1>0, <1>8 DEF RecordEvidence, At, RequestOK, Request
  <2> QED
    BY <1>0, <1>8, <2>1, GotoShape DEF RecordEvidence, TypeOK, stores
<1>9. CASE StoreAnswer(r)
  <2> DEFINE k == [req[r] EXCEPT !.pc = "done", !.at = now, !.own = TRUE]
  <2>1. req' = [req EXCEPT ![r] = k]
    BY <1>0, <1>9 DEF StoreAnswer, Reply, TypeOK
  <2>2. RequestOK(k)
    <3>1. req[r].answer \in Decisions
      BY <1>0, <1>9 DEF StoreAnswer, At, RequestOK
    <3>2. [req[r] EXCEPT !.pc = "done", !.answer = req[r].answer, !.at = now, !.own = TRUE] = k
      BY <1>0 DEF Request
    <3> QED
      BY <1>0, <1>t, <3>1, <3>2, DoneOK
  <2>3. cache' \in [Backends -> [Contents -> Decisions \union {None}]]
    BY <1>0, <1>9 DEF StoreAnswer, At, RequestOK, TypeOK
  <2>4. now + IdemTtl \in Nat /\ Content(r) \in Contents
    BY <1>0, <1>9, GatewayConstants DEF StoreAnswer, At, RequestOK, TypeOK, Content
  <2>5. cacheExpiry' \in [Contents -> Nat]
    BY <1>0, <1>9, <2>4 DEF StoreAnswer, TypeOK
  <2> QED
    BY <1>0, <1>9, <2>1, <2>2, <2>3, <2>5, RequestStep DEF StoreAnswer, TypeOK
<1> QED
  BY <1>1, <1>2, <1>3, <1>4, <1>5, <1>6, <1>7, <1>8, <1>9 DEF Proceed

\* A step that leaves the requests and the clock alone.
LEMMA QuietShape ==
  ASSUME Shape, UNCHANGED <<now, req>>, TypeOK'
  PROVE  Shape'
BY DEF Shape, RequestOK

LEMMA AdminShape ==
  ASSUME Shape, NEW a \in Admins,
         SaveHalt(a) \/ ReplyHalt(a) \/ \E want \in BOOLEAN : BeginHalt(a, want)
  PROVE  Shape'
<1> USE DEF Shape
<1>1. CASE SaveHalt(a)
  <2>1. admin' \in [Admins -> AdminCall] /\ savedHalt' \in BOOLEAN \union {None}
    BY <1>1 DEF SaveHalt, TypeOK, AdminCall
  <2> QED
    BY <1>1, <2>1, QuietShape DEF SaveHalt, TypeOK, environment
<1>2. CASE ReplyHalt(a)
  <2>1. admin' \in [Admins -> AdminCall] /\ past' \in Past
    BY <1>2 DEF ReplyHalt, TypeOK, AdminCall, Idle, Past
  <2> QED
    BY <1>2, <2>1, QuietShape DEF ReplyHalt, TypeOK, environment, stores
<1>3. CASE \E want \in BOOLEAN : BeginHalt(a, want)
  <2>1. PICK want \in BOOLEAN : BeginHalt(a, want)
    BY <1>3
  <2> DEFINE others == {b \in Admins : AdminInFlight(b)}
             alone == others = {}
  <2>2. alone \in BOOLEAN /\ [pc |-> "saving", want |-> want, alone |-> alone] \in AdminCall
    <3>1. alone \in BOOLEAN
      OBVIOUS
    <3> HIDE DEF alone
    <3> QED
      BY <3>1 DEF AdminCall
  <2>3. \A b \in Admins : [admin[b] EXCEPT !.alone = FALSE] \in AdminCall
    BY DEF TypeOK, AdminCall
  <2>4. admin' = [b \in Admins |->
                    IF b = a THEN [pc |-> "saving", want |-> want, alone |-> alone]
                    ELSE IF b \in others THEN [admin[b] EXCEPT !.alone = FALSE]
                    ELSE admin[b]]
    BY <2>1 DEF BeginHalt
  <2> HIDE DEF alone, others
  <2>5. admin' \in [Admins -> AdminCall]
    BY <2>2, <2>3, <2>4 DEF TypeOK
  <2>6. past' \in Past
    BY <2>1 DEF BeginHalt, TypeOK, Past
  <2> QED
    BY <2>1, <2>5, <2>6, QuietShape DEF BeginHalt, TypeOK, environment, stores
<1> QED
  BY <1>1, <1>2, <1>3

LEMMA RevokeShape ==
  ASSUME Shape, NEW j \in Tokens, BeginRevoke(j) \/ FinishRevoke(j)
  PROVE  Shape' /\ j \in Jtis
<1> USE DEF Shape
<1>0. j \in Jtis
  BY GatewayConstants DEF Tokens
<1>1. CASE BeginRevoke(j)
  BY <1>0, <1>1, QuietShape DEF BeginRevoke, TypeOK, environment, stores
<1>2. CASE FinishRevoke(j)
  <2>1. registry' \in [Registers -> [Backends -> [Jtis -> Nat]]]
    BY <1>0, <1>2, RegisterShape, GatewayConstants DEF FinishRevoke
  <2>2. revoking' \subseteq Jtis /\ past' \in Past
    BY <1>0, <1>2 DEF FinishRevoke, TypeOK, Past
  <2> QED
    BY <1>0, <1>2, <2>1, <2>2, QuietShape DEF FinishRevoke, TypeOK, environment
<1> QED
  BY <1>0, <1>1, <1>2

LEMMA EnvironmentShape ==
  ASSUME Shape, Tick \/ RedisFails \/ RedisRecovers \/ Crash \/ Restart
  PROVE  Shape'
<1> USE DEF Shape
<1>1. CASE Tick
  <2>1. registry' \in [Registers -> [Backends -> [Jtis -> Nat]]]
    BY <1>1 DEF Tick, TypeOK, Absent
  <2>c. cache' \in [Backends -> [Contents -> Decisions \union {None}]]
    BY <1>1 DEF Tick, TypeOK
  <2>2. TypeOK'
    BY <1>1, <2>1, <2>c DEF Tick, TypeOK
  <2>3. \A k : RequestOK(k) => RequestOK(k)'
    BY <1>1 DEF Tick, TypeOK, RequestOK, Request
  <2> QED
    BY <1>1, <2>2, <2>3 DEF Tick
<1>2. CASE RedisFails
  <2>1. past' \in Past
    <3>1. (past.disrupted \/ connected \/ process = "down") \in BOOLEAN
      OBVIOUS
    <3> QED
      BY <1>2, <3>1 DEF RedisFails, TypeOK, Past
  <2> QED
    BY <1>2, <2>1, QuietShape DEF RedisFails, TypeOK, stores
<1>3. CASE RedisRecovers
  BY <1>3, QuietShape DEF RedisRecovers, TypeOK, stores
<1>4. CASE Crash
  <2>1. registry' \in [Registers -> [Backends -> [Jtis -> Nat]]]
    BY <1>4 DEF Crash, TypeOK, Absent
  <2>2. cache' \in [Backends -> [Contents -> Decisions \union {None}]]
    BY <1>4 DEF Crash, TypeOK
  <2>3. admin' \in [Admins -> AdminCall]
    BY <1>4 DEF Crash, TypeOK, AdminCall, Idle
  <2>4. past' \in Past
    <3>1. (past.disrupted \/ ~connected) \in BOOLEAN
      OBVIOUS
    <3> QED
      BY <1>4, <3>1 DEF Crash, TypeOK, Past
  <2>5. Failed \in Request /\ RequestOK(Failed)
    BY FailedOK DEF TypeOK
  <2>6. \A r \in Requests : RequestOK(req'[r]) /\ req'[r] \in Request
    BY <1>4, <2>5 DEF Crash, TypeOK
  <2>7. \A k : RequestOK(k) => RequestOK(k)'
    BY <1>4 DEF Crash, RequestOK
  <2>8. \A r \in Requests : RequestOK(req[r])'
    BY <2>6, <2>7
  <2>9. req' \in [Requests -> Request]
    BY <1>4, <2>6 DEF Crash
  <2> QED
    BY <1>4, <2>1, <2>2, <2>3, <2>4, <2>8, <2>9 DEF Crash, TypeOK
<1>5. CASE Restart
  <2>1. halt' \in BOOLEAN /\ past' \in Past
    <3>1. (redisUp /\ savedHalt = TRUE) \in BOOLEAN
      OBVIOUS
    <3> QED
      BY <1>5, <3>1 DEF Restart, TypeOK, Past
  <2> QED
    BY <1>5, <2>1, QuietShape DEF Restart, TypeOK, stores
<1> QED
  BY <1>1, <1>2, <1>3, <1>4, <1>5

LEMMA NextShape == Shape /\ [Next]_vars => Shape'
<1> SUFFICES ASSUME Shape, [Next]_vars PROVE Shape'
  OBVIOUS
<1>1. CASE UNCHANGED vars
  BY <1>1, QuietShape DEF vars, Shape, TypeOK
<1> QED
  BY <1>1, ProceedShape, AdminShape, RevokeShape, EnvironmentShape DEF Next

\* Every variable keeps its shape.
THEOREM TypeCorrect == Spec => []TypeOK
<1>1. Shape => TypeOK
  BY DEF Shape
<1> QED
  BY <1>1, InitShape, NextShape, PTL DEF Spec

-----------------------------------------------------------------------------
\* What no step of a request touches.
LEMMA ProceedFrame ==
  ASSUME Shape, NEW r \in Requests, Enter(r) \/ Proceed(r)
  PROVE  /\ process = "up"
         /\ UNCHANGED <<environment, halt, savedHalt, admin, revoking>>
         /\ past'.disrupted = past.disrupted
         /\ past'.halting = past.halting
         /\ past'.revocations = past.revocations
         /\ past.permitted \subseteq past'.permitted
         /\ \A s \in Requests \ {r} : req'[s] = req[s]
<1>0. past \in Past /\ req \in [Requests -> Request]
  BY DEF Shape, TypeOK
<1>1. process = "up" /\ UNCHANGED <<environment, halt, savedHalt, admin, revoking>>
  BY DEF Enter, Proceed, Lookup, Screen, CheckRevocation, CheckProof, MarkToken, QueryOpa,
         RecordEvidence, StoreAnswer, At, stores
<1>2. \/ UNCHANGED past
      \/ Lookup(r) /\ \E o : past' = [past EXCEPT !.overlapped = o]
      \/ MarkToken(r) /\ \E u : past' = [past EXCEPT !.used = u]
      \/ QueryOpa(r) /\ past' = [past EXCEPT !.permitted = @ \union {Content(r)}]
  BY <1>0 DEF Enter, Proceed, Lookup, Screen, CheckRevocation, CheckProof, MarkToken, QueryOpa,
         RecordEvidence, StoreAnswer, Past
<1>3. /\ past'.disrupted = past.disrupted
      /\ past'.halting = past.halting
      /\ past'.revocations = past.revocations
      /\ past.permitted \subseteq past'.permitted
  BY <1>0, <1>2 DEF Past
<1>4. \A s \in Requests \ {r} : req'[s] = req[s]
  BY <1>0 DEF Enter, Proceed, Lookup, Screen, CheckRevocation, CheckProof, MarkToken, QueryOpa,
              RecordEvidence, StoreAnswer, Goto, Repeat, Reply, Refuse
<1> QED
  BY <1>1, <1>3, <1>4

\* A request that has just entered.
LEMMA EnteredRequest ==
  ASSUME Shape, NEW r \in Requests, Enter(r), ~Refuse(r)
  PROVE  \E c \in Contents :
           /\ req'[r].pc = IF c \in Keyed THEN "lookup" ELSE "screen"
           /\ req'[r].content = c
           /\ req'[r].answer = None
           /\ req'[r].revoked = (TokenOf[c] \in past.revocations)
<1>1. PICK c \in Contents :
        req' = [req EXCEPT ![r] =
                   [NoRequest EXCEPT !.pc = IF c \in Keyed THEN "lookup" ELSE "screen",
                                     !.content = c,
                                     !.revoked = TokenOf[c] \in past.revocations]]
  BY DEF Enter
<1> DEFINE revoked == TokenOf[c] \in past.revocations
<1> HIDE DEF revoked
<1>2. req'[r] = [NoRequest EXCEPT !.pc = IF c \in Keyed THEN "lookup" ELSE "screen",
                                  !.content = c,
                                  !.revoked = revoked]
  BY <1>1 DEF Shape, TypeOK, revoked
<1>3. /\ req'[r].pc = IF c \in Keyed THEN "lookup" ELSE "screen"
      /\ req'[r].content = c
      /\ req'[r].answer = None
      /\ req'[r].revoked = revoked
  BY <1>2, NoRequestOK DEF Request
<1> QED
  BY <1>3 DEF revoked

LEMMA InitHome == Init => Home
  BY DEF Init, Home, InMemory, Idle, InFlight, NoRequest

LEMMA NextHome == Shape /\ Home /\ [Next]_vars => Home'
<1> SUFFICES ASSUME Shape, Home, [Next]_vars PROVE Home'
  OBVIOUS
<1> USE DEF Home, InMemory, environment, stores
<1>0. TypeOK /\ past \in Past
  BY DEF Shape, TypeOK
<1>1. CASE UNCHANGED vars
  BY <1>1 DEF vars, InFlight
<1>2. ASSUME NEW r \in Requests, Enter(r) \/ Proceed(r) PROVE Home'
  BY <1>0, <1>2, ProceedFrame
<1>3. ASSUME NEW a \in Admins, SaveHalt(a) \/ ReplyHalt(a) \/ \E want \in BOOLEAN : BeginHalt(a, want)
      PROVE  Home'
  <2>1. process = "up" /\ UNCHANGED environment /\ past'.disrupted = past.disrupted
    BY <1>0, <1>3 DEF SaveHalt, ReplyHalt, BeginHalt, Past
  <2> QED
    BY <2>1
<1>4. ASSUME NEW j \in Tokens, BeginRevoke(j) \/ FinishRevoke(j) PROVE Home'
  BY <1>0, <1>4 DEF BeginRevoke, FinishRevoke, Past
<1>5. CASE Tick
  BY <1>5 DEF Tick, InFlight
<1>6. CASE RedisFails
  BY <1>0, <1>6 DEF RedisFails, InFlight, Past, TypeOK
<1>7. CASE RedisRecovers
  BY <1>7 DEF RedisRecovers, InFlight
<1>8. CASE Crash
  <2>1. \A r \in Requests : ~InFlight(r)'
    BY <1>0, <1>8 DEF Crash, InFlight, Failed, NoRequest, TypeOK
  <2>2. \A a \in Admins : admin'[a].pc = "free"
    BY <1>0, <1>8 DEF Crash, AdminInFlight, Idle, TypeOK
  <2>3. past'.disrupted = (past.disrupted \/ ~connected)
    BY <1>0, <1>8 DEF Crash, Past
  <2> QED
    BY <1>0, <1>8, <2>1, <2>2, <2>3 DEF Crash
<1>9. CASE Restart
  BY <1>0, <1>9 DEF Restart, InFlight, Past, TypeOK
<1> QED
  BY <1>1, <1>2, <1>3, <1>4, <1>5, <1>6, <1>7, <1>8, <1>9 DEF Next

\* In a run that was not disrupted the stores read and write where the state lives.
LEMMA BackendIsStore ==
  ASSUME Shape, Home, ~past.disrupted, process = "up"
  PROVE  Backend = Store
BY DEF Shape, TypeOK, Home, InMemory, Store, Backend

-----------------------------------------------------------------------------
LEMMA InitPermitted == Init => PermittedOnly
  BY GatewayConstants DEF Init, PermittedOnly, NoRequest

LEMMA NextPermitted == Shape /\ PermittedOnly /\ [Next]_vars => PermittedOnly'
<1> SUFFICES ASSUME Shape, PermittedOnly, [Next]_vars PROVE PermittedOnly'
  OBVIOUS
<1>0. TypeOK /\ past \in Past /\ \A r \in Requests : RequestOK(req[r])
  BY DEF Shape, TypeOK
<1>1. ASSUME UNCHANGED <<cache, req>>, past.permitted \subseteq past'.permitted PROVE PermittedOnly'
  BY <1>1 DEF PermittedOnly
<1>2. CASE UNCHANGED vars
  BY <1>1, <1>2 DEF vars
<1>3. ASSUME NEW r \in Requests, Enter(r) \/ Proceed(r) PROVE PermittedOnly'
  <2>0. past.permitted \subseteq past'.permitted /\ \A s \in Requests \ {r} : req'[s] = req[s]
    BY <1>3, ProceedFrame
  <2>1. req'[r].answer = "allow" => req'[r].content \in past'.permitted
    <3>1. CASE Refuse(r)
      BY <1>0, <3>1 DEF Refuse, Failed, NoRequest, Error, TypeOK
    <3>2. CASE ~Refuse(r)
      <4>1. CASE Enter(r)
        BY <1>0, <3>2, <4>1, EnteredRequest, GatewayConstants
      <4>2. CASE Lookup(r)
        <5>1. Content(r) \in Contents /\ Content(r) = req[r].content
          BY <1>0, <4>2 DEF Lookup, At, RequestOK, Content
        <5>2. Cached(Content(r)) = "allow" => Content(r) \in past.permitted
          BY <5>1 DEF Cached, PermittedOnly, Backend
        <5>3. \/ req' = [req EXCEPT ![r].pc = "done", ![r].answer = Cached(Content(r)), ![r].at = now]
              \/ req' = [req EXCEPT ![r].pc = "screen"]
          BY <4>2 DEF Lookup, Repeat, Goto
        <5> HIDE DEF Cached
        <5> QED
          BY <1>0, <2>0, <5>1, <5>2, <5>3 DEF PermittedOnly, TypeOK, Request
      <4>3. CASE QueryOpa(r)
        BY <1>0, <2>0, <3>2, <4>3 DEF QueryOpa, PermittedOnly, TypeOK, Request, Past, Content
      <4>4. CASE Screen(r) \/ CheckRevocation(r) \/ CheckProof(r) \/ MarkToken(r)
                 \/ RecordEvidence(r) \/ StoreAnswer(r)
        <5>1. \/ req'[r].answer = "incident"
              \/ req'[r].answer = req[r].answer /\ req'[r].content = req[r].content
          BY <1>0, <3>2, <4>4 DEF Screen, CheckRevocation, CheckProof, MarkToken, RecordEvidence,
             StoreAnswer, Goto, Reply, TypeOK, Request
        <5> QED
          BY <2>0, <5>1 DEF PermittedOnly
      <4> QED
        BY <1>3, <4>1, <4>2, <4>3, <4>4 DEF Proceed
    <3> QED
      BY <3>1, <3>2
  <2>2. \A b \in Backends, c \in Contents : cache'[b][c] = "allow" => c \in past'.permitted
    <3>1. CASE UNCHANGED cache
      BY <2>0, <3>1 DEF PermittedOnly
    <3>2. CASE StoreAnswer(r)
      BY <1>0, <2>0, <3>2 DEF StoreAnswer, PermittedOnly, TypeOK, Content, Backend
    <3> QED
      BY <1>3, <3>1, <3>2 DEF Enter, Proceed, Lookup, Screen, CheckRevocation, CheckProof, MarkToken,
         QueryOpa, RecordEvidence, stores
  <2> QED
    BY <2>0, <2>1, <2>2 DEF PermittedOnly
<1>4. CASE Crash
  <2>1. past'.permitted = past.permitted
    BY <1>0, <1>4 DEF Crash, Past
  <2>2. \A r \in Requests : req'[r] = req[r] \/ req'[r].answer = Error
    BY <1>0, <1>4 DEF Crash, Failed, NoRequest, TypeOK
  <2>3. \A b \in Backends, c \in Contents : cache'[b][c] \in {cache[b][c], None}
    BY <1>0, <1>4 DEF Crash, TypeOK
  <2> QED
    BY <2>1, <2>2, <2>3, GatewayConstants DEF PermittedOnly, Error
<1>5. ASSUME NEW a \in Admins, SaveHalt(a) \/ ReplyHalt(a) \/ \E want \in BOOLEAN : BeginHalt(a, want)
      PROVE  PermittedOnly'
  BY <1>0, <1>1, <1>5 DEF SaveHalt, ReplyHalt, BeginHalt, Past, stores
<1>6. ASSUME NEW j \in Tokens, BeginRevoke(j) \/ FinishRevoke(j) PROVE PermittedOnly'
  BY <1>0, <1>1, <1>6 DEF BeginRevoke, FinishRevoke, Past, stores
<1>7. CASE RedisFails \/ RedisRecovers \/ Restart
  BY <1>0, <1>1, <1>7 DEF RedisFails, RedisRecovers, Restart, Past, stores
<1>8. CASE Tick
  <2>1. \A b \in Backends, c \in Contents : cache'[b][c] \in {cache[b][c], None}
    BY <1>0, <1>8 DEF Tick, TypeOK
  <2> QED
    BY <1>8, <2>1, GatewayConstants DEF PermittedOnly, Tick
<1> QED
  BY <1>2, <1>3, <1>4, <1>5, <1>6, <1>7, <1>8 DEF Next

\* No request is allowed whose content the policy never allowed, neither by
\* the cache nor after a failure of the policy engine, Redis or the process.
THEOREM AllowsArePermitted == Spec => []FailClosed
<1>1. PermittedOnly => FailClosed
  BY DEF PermittedOnly, FailClosed, Content
<1> QED
  BY <1>1, InitShape, NextShape, InitPermitted, NextPermitted, PTL DEF Spec

-----------------------------------------------------------------------------
LEMMA InitHalts == Init => HaltsMatch
<1> SUFFICES ASSUME Init PROVE HaltsMatch
  OBVIOUS
<1>1. past.halting = FALSE /\ halt = FALSE /\ savedHalt = None
  BY DEF Init
<1>2. ~(savedHalt = TRUE)
  BY <1>1, GatewayConstants
<1>3. Answered(past.halting)
  BY <1>1, <1>2 DEF Answered
<1>4. \A a \in Admins : ~AdminInFlight(a) /\ ~admin[a].alone
  BY DEF Init, AdminInFlight, Idle
<1> QED
  BY <1>3, <1>4 DEF HaltsMatch

\* HaltsMatch is about these variables.
LEMMA FrameHalts ==
  ASSUME HaltsMatch, UNCHANGED <<process, connected, halt, savedHalt, admin>>,
         past'.disrupted = past.disrupted, past'.halting = past.halting
  PROVE  HaltsMatch'
BY DEF HaltsMatch, Answered, InMemory, AdminInFlight

LEMMA AdminHalts ==
  ASSUME Shape, Home, HaltsMatch, NEW a \in Admins,
         SaveHalt(a) \/ ReplyHalt(a) \/ \E want \in BOOLEAN : BeginHalt(a, want)
  PROVE  HaltsMatch'
<1>0. /\ past \in Past /\ admin \in [Admins -> AdminCall]
      /\ halt \in BOOLEAN /\ past.halting \in BOOLEAN \union {None}
      /\ savedHalt \in BOOLEAN \union {None} /\ connected \in BOOLEAN
  BY DEF Shape, TypeOK, Past
<1>1. CASE SaveHalt(a)
  <2>1. admin'[a].pc = "replying" /\ admin'[a].want = admin[a].want
        /\ admin'[a].alone = admin[a].alone /\ \A b \in Admins \ {a} : admin'[b] = admin[b]
    BY <1>0, <1>1 DEF SaveHalt, AdminCall
  <2>2. \A b \in Admins : AdminInFlight(b)' <=> AdminInFlight(b)
    BY <1>1, <2>1 DEF AdminInFlight, SaveHalt
  <2>3. /\ UNCHANGED <<process, connected, halt, past>> /\ process = "up"
        /\ past.halting = None
        /\ savedHalt' = IF connected /\ redisUp THEN admin[a].want ELSE savedHalt
    BY <1>1 DEF SaveHalt, environment, HaltsMatch, AdminInFlight
  <2>4. ASSUME ~past.disrupted, admin[a].alone PROVE Answered(admin[a].want)'
    <3>1. halt = admin[a].want /\ admin[a].want \in BOOLEAN
      BY <1>0, <1>1, <2>4 DEF HaltsMatch, SaveHalt, AdminCall
    <3>2. connected => savedHalt' = admin[a].want
      BY <2>3, <2>4 DEF Home, InMemory
    <3>3. admin'[a].want = admin[a].want
      BY <2>1
    <3> QED
      BY <2>3, <3>1, <3>2, <3>3 DEF Answered, InMemory
  <2>5. \A b \in Admins \ {a} : admin[b].alone => ~AdminInFlight(b)
    BY <1>1 DEF HaltsMatch, SaveHalt, AdminInFlight
  <2> QED
    BY <2>1, <2>2, <2>3, <2>4, <2>5 DEF HaltsMatch, AdminInFlight, Answered, InMemory
<1>2. CASE ReplyHalt(a)
  <2>1. /\ UNCHANGED <<process, connected, halt, savedHalt>> /\ process = "up"
        /\ admin[a].pc = "replying" /\ past.halting = None
        /\ past'.disrupted = past.disrupted
        /\ past'.halting = IF admin[a].alone THEN admin[a].want ELSE None
    BY <1>0, <1>2 DEF ReplyHalt, environment, stores, HaltsMatch, AdminInFlight, Past
  <2>2. admin'[a] = Idle /\ \A b \in Admins \ {a} : admin'[b] = admin[b]
    BY <1>0, <1>2 DEF ReplyHalt
  <2>3. \A b \in Admins : AdminInFlight(b)' <=> (b # a /\ AdminInFlight(b))
    BY <2>2 DEF AdminInFlight, Idle
  <2>4. \A b \in Admins : AdminInFlight(b)' => ~admin[a].alone
    BY <2>1, <2>3 DEF HaltsMatch, AdminInFlight
  <2>5. \A b \in Admins : AdminInFlight(b)' => past'.halting = None
    BY <2>1, <2>4
  <2>6. ASSUME ~past.disrupted, past'.halting # None PROVE Answered(past.halting)'
    BY <2>1, <2>6 DEF HaltsMatch, Answered, InMemory
  <2>7. ASSUME NEW b \in Admins, AdminInFlight(b)', admin'[b].alone
        PROVE  \A c \in Admins \ {b} : ~AdminInFlight(c)'
    BY <2>2, <2>3, <2>7 DEF HaltsMatch
  <2>8. ASSUME ~past.disrupted, NEW b \in Admins, AdminInFlight(b)', admin'[b].alone
        PROVE  /\ admin'[b].pc = "saving" => halt = admin'[b].want
               /\ admin'[b].pc = "replying" => Answered(admin[b].want)'
    BY <2>1, <2>2, <2>3, <2>8 DEF HaltsMatch, Answered, InMemory
  <2> QED
    BY <2>1, <2>5, <2>6, <2>7, <2>8 DEF HaltsMatch, AdminInFlight
<1>3. CASE \E want \in BOOLEAN : BeginHalt(a, want)
  <2>1. PICK want \in BOOLEAN : BeginHalt(a, want)
    BY <1>3
  <2> DEFINE others == {b \in Admins : AdminInFlight(b)}
             alone == others = {}
  <2>2. admin' = [b \in Admins |->
                    IF b = a THEN [pc |-> "saving", want |-> want, alone |-> alone]
                    ELSE IF b \in others THEN [admin[b] EXCEPT !.alone = FALSE]
                    ELSE admin[b]]
    BY <2>1 DEF BeginHalt
  <2> HIDE DEF alone
  <2>3. /\ admin'[a].pc = "saving" /\ admin'[a].want = want /\ (admin'[a].alone <=> alone)
        /\ \A b \in Admins \ {a} : admin'[b].pc = admin[b].pc
        /\ \A b \in Admins \ {a} : AdminInFlight(b) => ~admin'[b].alone
    BY <1>0, <2>2 DEF AdminCall
  <2>4. halt' = want /\ past'.halting = None
    BY <1>0, <2>1 DEF BeginHalt, Past
  <2>5. \A b \in Admins \ {a} : AdminInFlight(b)' <=> AdminInFlight(b)
    BY <2>3 DEF AdminInFlight
  <2>6. alone => \A b \in Admins : ~AdminInFlight(b)
    BY DEF alone
  <2>7. \A b \in Admins : (AdminInFlight(b)' /\ admin'[b].alone) => b = a /\ alone
    BY <2>3, <2>5
  <2> QED
    BY <2>3, <2>4, <2>5, <2>6, <2>7 DEF HaltsMatch, AdminInFlight
<1> QED
  BY <1>1, <1>2, <1>3

LEMMA NextHalts == Shape /\ Home /\ HaltsMatch /\ [Next]_vars => HaltsMatch'
<1> SUFFICES ASSUME Shape, Home, HaltsMatch, [Next]_vars PROVE HaltsMatch'
  OBVIOUS
<1>0. TypeOK /\ past \in Past
  BY DEF Shape, TypeOK
<1>1. CASE UNCHANGED vars
  BY <1>1, FrameHalts DEF vars
<1>2. ASSUME NEW r \in Requests, Enter(r) \/ Proceed(r) PROVE HaltsMatch'
  BY <1>2, ProceedFrame, FrameHalts DEF environment
<1>3. ASSUME NEW j \in Tokens, BeginRevoke(j) \/ FinishRevoke(j) PROVE HaltsMatch'
  BY <1>0, <1>3, FrameHalts DEF BeginRevoke, FinishRevoke, Past, environment, stores
<1>4. CASE Tick \/ RedisRecovers
  BY <1>4, FrameHalts DEF Tick, RedisRecovers, stores
<1>5. CASE RedisFails
  <2>1. past'.disrupted = (past.disrupted \/ connected \/ process = "down")
        /\ past'.halting = past.halting
        /\ UNCHANGED <<process, connected, halt, savedHalt, admin>>
    BY <1>0, <1>5 DEF RedisFails, Past, stores
  <2> QED
    BY <2>1 DEF HaltsMatch, Answered, InMemory, AdminInFlight
<1>6. CASE Crash
  <2>1. /\ process = "up" /\ process' = "down" /\ ~connected' /\ savedHalt' = savedHalt
        /\ past'.disrupted = (past.disrupted \/ ~connected)
        /\ past'.halting = past.halting
    BY <1>0, <1>6 DEF Crash, Past
  <2>2. \A a \in Admins : admin'[a].pc = "free"
    BY <1>0, <1>6 DEF Crash, AdminInFlight, Idle, TypeOK
  <2> QED
    BY <2>1, <2>2 DEF HaltsMatch, Answered, InMemory, AdminInFlight
<1>7. CASE Restart
  <2>1. \A a \in Admins : ~AdminInFlight(a) /\ ~AdminInFlight(a)' /\ admin'[a].pc = "free"
    BY <1>7 DEF Restart, Home, AdminInFlight
  <2>2. CASE UNCHANGED <<process, redisUp, connected, halt, past>>
    BY <1>7, <2>2, FrameHalts DEF Restart, stores
  <2>3. CASE past'.disrupted
    BY <2>1, <2>3 DEF HaltsMatch
  <2>4. CASE process' = "up" /\ connected' = redisUp /\ halt' = (redisUp /\ savedHalt = TRUE)
             /\ UNCHANGED past /\ ~past.disrupted
    <3>1. redisUp /\ process = "down" /\ savedHalt' = savedHalt
      BY <1>7, <2>4 DEF Restart, Home, InMemory, stores
    <3>2. past.halting # None => (savedHalt = TRUE <=> past.halting) /\ past.halting \in BOOLEAN
      BY <1>0, <2>4, <3>1 DEF HaltsMatch, Answered, InMemory, Past
    <3>3. past.halting # None => Answered(past.halting)'
      BY <2>4, <3>1, <3>2 DEF Answered
    <3> QED
      BY <2>1, <2>4, <3>3 DEF HaltsMatch
  <2> QED
    BY <1>0, <1>7, <2>2, <2>3, <2>4 DEF Restart, Past
<1> QED
  BY <1>1, <1>2, <1>3, <1>4, <1>5, <1>6, <1>7, AdminHalts DEF Next

\* After a halt or resume that was answered the gateway is halted or not as
\* asked, across crashes and restarts, while Redis answers and no other runs.
THEOREM HaltsHold == Spec => []HaltHolds
<1>1. HaltsMatch => HaltHolds
  BY DEF HaltsMatch, HaltHolds, Answered
<1> QED
  BY <1>1, InitShape, NextShape, InitHome, NextHome, InitHalts, NextHalts, PTL DEF Spec

-----------------------------------------------------------------------------
\* A jti of a token is either long enough in the store or free to be used.
LEMMA KeptIsRegistered ==
  ASSUME Shape, Home, ~past.disrupted, process = "up", NEW g \in Registers, NEW j \in Jtis,
         Kept(g, j), now < ExpiryOf[j]
  PROVE  Registered(g, j)
<1>1. Backend = Store /\ Store \in Backends
  BY BackendIsStore DEF Store
<1>2. registry[g][Store][j] >= ExpiryOf[j] /\ registry[g][Store][j] \in Nat /\ now \in Nat
      /\ ExpiryOf[j] \in Nat
  BY <1>1, GatewayConstants DEF Kept, Shape, TypeOK
<1> QED
  BY <1>1, <1>2 DEF Registered, MaybeRegistered, Absent

\* A registration that was long enough stays so when it is not the one that is written.
LEMMA KeptStays ==
  ASSUME Shape, NEW g \in Registers, NEW j \in Jtis, Kept(g, j),
         UNCHANGED <<now, process, connected>>,
         registry'[g][Store][j] = registry[g][Store][j]
  PROVE  Kept(g, j)'
BY DEF Kept, Store, InMemory

\* Every step keeps what must be kept, unless the run is disrupted by it.
LEMMA EnvironmentKeeps ==
  ASSUME Shape, Home, Tick \/ RedisFails \/ RedisRecovers \/ Crash \/ Restart,
         ~past'.disrupted
  PROVE  /\ ~past.disrupted
         /\ past'.used = past.used /\ past'.revocations = past.revocations
         /\ \A g \in Registers, j \in Jtis : Kept(g, j) => Kept(g, j)'
<1>0. TypeOK /\ past \in Past
  BY DEF Shape, TypeOK
<1>1. CASE Tick
  <2>1. now \in Nat /\ now' = now + 1 /\ UNCHANGED <<process, connected, past>>
    BY <1>0, <1>1 DEF Tick, TypeOK
  <2>2. ASSUME NEW g \in Registers, NEW j \in Jtis
        PROVE  /\ registry'[g]["memory"][j] = registry[g]["memory"][j]
               /\ registry[g]["redis"][j] > now' => registry'[g]["redis"][j] = registry[g]["redis"][j]
    BY <1>0, <1>1 DEF Tick, TypeOK
  <2>3. ASSUME NEW g \in Registers, NEW j \in Jtis, Kept(g, j) PROVE Kept(g, j)'
    <3> SUFFICES ASSUME now' < ExpiryOf[j]
                 PROVE  registry'[g][Store][j] >= ExpiryOf[j]
      BY <2>1 DEF Kept, Store, InMemory
    <3>1. ExpiryOf[j] \in Nat /\ registry[g][Store][j] \in Nat
      BY <1>0, GatewayConstants DEF TypeOK, Store
    <3>2. registry[g][Store][j] >= ExpiryOf[j]
      BY <2>1, <2>3, <3>1 DEF Kept
    <3> QED
      BY <2>1, <2>2, <3>1, <3>2 DEF Store
  <2> QED
    BY <2>1, <2>3
<1>2. CASE RedisFails \/ RedisRecovers
  <2>1. /\ UNCHANGED <<now, process, connected, registry>>
        /\ ~past.disrupted
        /\ past'.used = past.used /\ past'.revocations = past.revocations
    BY <1>0, <1>2 DEF RedisFails, RedisRecovers, Past, stores
  <2> QED
    BY <2>1 DEF Kept, Store, InMemory
<1>3. CASE Crash
  <2>1. /\ past'.disrupted = (past.disrupted \/ ~connected)
        /\ past'.used = past.used /\ past'.revocations = past.revocations
        /\ process' = "down" /\ now' = now
    BY <1>0, <1>3 DEF Crash, Past
  <2>2. \A g \in Registers, j \in Jtis : registry'[g]["redis"][j] = registry[g]["redis"][j]
    BY <1>0, <1>3 DEF Crash, TypeOK
  <2>3. connected /\ ~past.disrupted
    BY <2>1
  <2> QED
    BY <2>1, <2>2, <2>3 DEF Kept, Store, InMemory
<1>4. CASE Restart
  <2>1. UNCHANGED <<now, registry, past>> /\ process = "down"
    BY <1>0, <1>4 DEF Restart, Past, stores
  <2>2. redisUp
    BY <2>1 DEF Home, InMemory
  <2>3. process' = "up" => connected'
    BY <1>4, <2>1, <2>2 DEF Restart
  <2> QED
    BY <1>4, <2>1, <2>3 DEF Kept, Store, InMemory, Restart
<1> QED
  BY <1>1, <1>2, <1>3, <1>4

LEMMA InitTokens == Init => TokensUsed
  BY DEF Init, TokensUsed

LEMMA NextTokens == Shape /\ Home /\ TokensUsed /\ [Next]_vars => TokensUsed'
<1> SUFFICES ASSUME Shape, Home, TokensUsed, [Next]_vars, ~past'.disrupted
             PROVE  \A j \in Jtis : past'.used[j] <= 1 /\ (past'.used[j] = 1 => Kept("seen", j)')
  BY DEF TokensUsed
<1>0. TypeOK /\ past \in Past /\ past.used \in [Jtis -> Nat]
  BY DEF Shape, TypeOK, Past
<1>1. ASSUME UNCHANGED <<now, process, connected>>, past'.used = past.used,
             past'.disrupted = past.disrupted,
             \A j \in Jtis : registry'["seen"][Store][j] = registry["seen"][Store][j]
      PROVE  \A j \in Jtis : past'.used[j] <= 1 /\ (past'.used[j] = 1 => Kept("seen", j)')
  BY <1>1, KeptStays DEF TokensUsed
<1>2. CASE UNCHANGED vars
  BY <1>1, <1>2 DEF vars
<1>3. ASSUME NEW r \in Requests, Enter(r) \/ Proceed(r)
      PROVE  \A j \in Jtis : past'.used[j] <= 1 /\ (past'.used[j] = 1 => Kept("seen", j)')
  <2>0. /\ UNCHANGED <<now, process, redisUp, connected>> /\ process = "up"
        /\ past'.disrupted = past.disrupted
    BY <1>3, ProceedFrame DEF environment
  <2>1. Backend = Store /\ Store \in Backends
    BY <2>0, BackendIsStore DEF Store
  <2>2. CASE CheckProof(r)
    <3> DEFINE proof == ProofOf[Content(r)]
    <3>1. CASE UNCHANGED registry
      BY <1>1, <2>0, <2>2, <3>1 DEF CheckProof
    <3>2. CASE Register("seen", proof, 2 * Skew) /\ ~Registered("seen", proof)
      <4>1. proof \in Jtis /\ 2 * Skew \in Int
        BY <2>2, GatewayConstants DEF CheckProof, At, Shape, RequestOK, Content
      <4>2. \A j \in Jtis \ {proof} : registry'["seen"][Store][j] = registry["seen"][Store][j]
        BY <1>0, <2>1, <3>2, <4>1, RegisterShape
      <4>3. Kept("seen", proof) => now >= ExpiryOf[proof]
        BY <1>0, <2>0, <3>2, <4>1, KeptIsRegistered, GatewayConstants DEF TypeOK
      <4>4. past' = past
        BY <2>2 DEF CheckProof
      <4>5. ASSUME NEW j \in Jtis, past.used[j] = 1 PROVE Kept("seen", j)'
        <5>1. Kept("seen", j)
          BY <2>0, <4>5 DEF TokensUsed
        <5>2. CASE j = proof
          BY <1>0, <2>0, <4>1, <4>3, <5>1, <5>2, GatewayConstants DEF Kept, TypeOK
        <5>3. CASE j # proof
          BY <2>0, <4>2, <5>1, <5>3, KeptStays
        <5> QED
          BY <5>2, <5>3
      <4> QED
        BY <2>0, <4>4, <4>5 DEF TokensUsed
    <3> QED
      BY <2>2, <3>1, <3>2 DEF CheckProof
  <2>3. CASE MarkToken(r)
    <3>0. PICK token \in Jtis : token = Token(r)
      BY <2>3, TokenTtlInt DEF MarkToken
    <3>1. CASE UNCHANGED <<registry, past>>
      BY <1>1, <2>0, <3>1
    <3>2. CASE /\ ~Registered("seen", token)
               /\ Register("seen", token, TokenTtl(r))
               /\ past' = [past EXCEPT !.used[token] = IF now < ExpiryOf[token] THEN @ + 1 ELSE @]
      <4>1. token \in Jtis /\ TokenTtl(r) \in Nat /\ TokenTtl(r) + now >= ExpiryOf[token]
        BY <2>3, <3>0, TokenTtlInt DEF MarkToken
      <4>2. /\ registry'["seen"][Store][token] >= now + TokenTtl(r)
            /\ registry' \in [Registers -> [Backends -> [Jtis -> Nat]]]
            /\ \A j \in Jtis \ {token} : registry'["seen"][Store][j] = registry["seen"][Store][j]
        BY <1>0, <2>1, <3>2, <4>1, RegisterShape
      <4>3. registry'["seen"][Store][token] \in Nat
        BY <2>1, <4>2, <4>1
      <4>4. Kept("seen", token)'
        <5>1. Store' = Store
          BY <2>0 DEF Store, InMemory
        <5> QED
          BY <1>0, <2>0, <4>1, <4>2, <4>3, <5>1, GatewayConstants DEF Kept, TypeOK
      <4>5. (past.used[token] = 1) => now >= ExpiryOf[token]
        BY <1>0, <2>0, <3>2, <4>1, KeptIsRegistered, GatewayConstants DEF TokensUsed, TypeOK
      <4>6. /\ \A j \in Jtis \ {token} : past'.used[j] = past.used[j]
            /\ past'.used[token] = IF now < ExpiryOf[token] THEN past.used[token] + 1 ELSE past.used[token]
        BY <1>0, <3>2, <4>1 DEF Past
      <4>7. past'.used[token] <= 1
        BY <1>0, <2>0, <4>1, <4>5, <4>6, GatewayConstants DEF TokensUsed, TypeOK
      <4>8. ASSUME NEW j \in Jtis \ {token}, past.used[j] = 1 PROVE Kept("seen", j)'
        BY <2>0, <4>2, <4>8, KeptStays DEF TokensUsed
      <4> QED
        BY <2>0, <4>4, <4>6, <4>7, <4>8 DEF TokensUsed
    <3> QED
      BY <2>3, <3>0, <3>1, <3>2 DEF MarkToken
  <2>4. CASE ~CheckProof(r) /\ ~MarkToken(r)
    <3>1. UNCHANGED registry /\ past'.used = past.used
      BY <1>0, <1>3, <2>4 DEF Enter, Proceed, Lookup, Screen, CheckRevocation, QueryOpa,
         RecordEvidence, StoreAnswer, stores, Past
    <3> QED
      BY <1>1, <2>0, <3>1
  <2> QED
    BY <2>2, <2>3, <2>4
<1>4. ASSUME NEW a \in Admins, SaveHalt(a) \/ ReplyHalt(a) \/ \E want \in BOOLEAN : BeginHalt(a, want)
      PROVE  \A j \in Jtis : past'.used[j] <= 1 /\ (past'.used[j] = 1 => Kept("seen", j)')
  <2>1. UNCHANGED <<environment, registry>> /\ past'.used = past.used
        /\ past'.disrupted = past.disrupted
    BY <1>0, <1>4 DEF SaveHalt, ReplyHalt, BeginHalt, Past, stores
  <2> QED
    BY <1>1, <2>1 DEF environment
<1>5. ASSUME NEW i \in Tokens, BeginRevoke(i) \/ FinishRevoke(i)
      PROVE  \A j \in Jtis : past'.used[j] <= 1 /\ (past'.used[j] = 1 => Kept("seen", j)')
  <2>1. UNCHANGED environment /\ past'.used = past.used /\ past'.disrupted = past.disrupted
    BY <1>0, <1>5 DEF BeginRevoke, FinishRevoke, Past
  <2>2. i \in Jtis
    BY <1>5, RevokeShape
  <2>3. \A b \in Backends, j \in Jtis : registry'["seen"][b][j] = registry["seen"][b][j]
    BY <1>0, <1>5, <2>2, RegisterShape, GatewayConstants DEF BeginRevoke, FinishRevoke, stores
  <2> QED
    BY <1>1, <2>1, <2>3 DEF environment, Store
<1>6. CASE Tick \/ RedisFails \/ RedisRecovers \/ Crash \/ Restart
  BY <1>6, EnvironmentKeeps DEF TokensUsed
<1> QED
  BY <1>2, <1>3, <1>4, <1>5, <1>6 DEF Next

\* A token is accepted at most once while it is valid, however the requests
\* that carry it interleave, across crashes while Redis answers.
THEOREM TokensAreUsedOnce == Spec => []SingleUse
<1>1. TokensUsed => SingleUse
  BY DEF TokensUsed, SingleUse
<1> QED
  BY <1>1, InitShape, NextShape, InitHome, NextHome, InitTokens, NextTokens, PTL DEF Spec

-----------------------------------------------------------------------------
\* What the second half of RevocationsKept says of a request.
Warned(r) ==
  req[r].revoked =>
    /\ TokenOf[Content(r)] \in past.revocations
    /\ (~past.disrupted /\ req[r].pc \in {"proof", "mark"}) => now >= ExpiryOf[Token(r)]

LEMMA InitRevocations == Init => RevocationsKept
<1> SUFFICES ASSUME Init PROVE RevocationsKept
  OBVIOUS
<1>1. past.revocations = {} /\ \A r \in Requests : req[r].revoked = FALSE
  BY DEF Init, NoRequest
<1> QED
  BY <1>1 DEF RevocationsKept

\* A request that was cut off or refused.
LEMMA FailedNotRevoked == Failed.revoked = FALSE
  BY DEF Failed, NoRequest

LEMMA NextRevocations == Shape /\ Home /\ RevocationsKept /\ [Next]_vars => RevocationsKept'
<1> SUFFICES ASSUME Shape, Home, RevocationsKept, [Next]_vars PROVE RevocationsKept'
  OBVIOUS
<1> DEFINE Safe == ~past.disrupted => \A j \in past.revocations : Kept("revoked", j)
<1>0. /\ TypeOK /\ past \in Past /\ past.revocations \subseteq Jtis
      /\ \A r \in Requests : RequestOK(req[r]) /\ req[r] \in Request
      /\ Safe /\ \A r \in Requests : Warned(r)
  BY DEF Shape, TypeOK, Past, RevocationsKept, Warned
<1>1. Safe' /\ (\A r \in Requests : Warned(r)') => RevocationsKept'
  BY DEF RevocationsKept, Warned
<1>2. ASSUME UNCHANGED <<now, process, connected>>, past'.revocations = past.revocations,
             past'.disrupted = past.disrupted,
             \A j \in Jtis : registry'["revoked"][Store][j] = registry["revoked"][Store][j]
      PROVE  Safe'
  BY <1>0, <1>2, KeptStays
<1>3. ASSUME NEW r \in Requests, req'[r] = req[r], past.revocations \subseteq past'.revocations,
             past.disrupted => past'.disrupted, now' \in {now, now + 1}
      PROVE  Warned(r)'
  <2>1. now \in Nat /\ Content(r)' = Content(r) /\ Token(r)' = Token(r)
    BY <1>0, <1>3 DEF TypeOK, Content, Token
  <2>2. (req[r].pc \in {"proof", "mark"}) => ExpiryOf[Token(r)] \in Nat
    BY <1>0, GatewayConstants DEF RequestOK, Content, Token
  <2>3. Warned(r)
    BY <1>0
  <2> QED
    BY <1>3, <2>1, <2>2, <2>3 DEF Warned
<1>4. CASE UNCHANGED vars
  BY <1>1, <1>2, <1>3, <1>4 DEF vars
<1>5. ASSUME NEW r \in Requests, Enter(r) \/ Proceed(r) PROVE RevocationsKept'
  <2>0. /\ UNCHANGED <<now, process, connected>> /\ process = "up"
        /\ past'.disrupted = past.disrupted /\ past'.revocations = past.revocations
        /\ \A s \in Requests \ {r} : req'[s] = req[s]
    BY <1>5, ProceedFrame DEF environment
  <2>1. \A b \in Backends, j \in Jtis : registry'["revoked"][b][j] = registry["revoked"][b][j]
    <3>1. CASE UNCHANGED registry
      BY <3>1
    <3>2. CASE CheckProof(r) /\ Register("seen", ProofOf[Content(r)], 2 * Skew)
      <4>1. ProofOf[Content(r)] \in Jtis /\ 2 * Skew \in Int
        BY <1>0, <3>2, GatewayConstants DEF CheckProof, At, RequestOK, Content
      <4> QED
        BY <1>0, <3>2, <4>1, RegisterShape
    <3>3. CASE MarkToken(r) /\ Register("seen", Token(r), TokenTtl(r))
      BY <1>0, <3>3, RegisterShape, TokenTtlInt DEF MarkToken
    <3> QED
      BY <1>5, <3>1, <3>2, <3>3 DEF Enter, Proceed, Lookup, Screen, CheckRevocation, CheckProof,
         MarkToken, QueryOpa, RecordEvidence, StoreAnswer, stores
  <2>2. Safe'
    BY <1>2, <2>0, <2>1 DEF Store
  <2>3. Warned(r)'
    <3>1. CASE Refuse(r)
      BY <1>0, <3>1, FailedNotRevoked DEF Refuse, Warned, TypeOK
    <3>2. CASE Enter(r) /\ ~Refuse(r)
      BY <2>0, <3>2, EnteredRequest DEF Warned, Content
    <3>3. CASE CheckRevocation(r) /\ ~Refuse(r)
      <4>1. /\ ~Registered("revoked", Token(r)) /\ Token(r) \in Jtis
            /\ req'[r].content = req[r].content /\ req'[r].revoked = req[r].revoked
        BY <1>0, <3>3 DEF CheckRevocation, At, Goto, RequestOK, Token, Content, Request, TypeOK
      <4>2. PICK token \in Jtis : token = Token(r)
        BY <4>1
      <4>3. TokenOf[Content(r)]' = token /\ Token(r)' = token /\ TokenOf[Content(r)] = token
        BY <4>1, <4>2 DEF Token, Content
      <4>4. (~past.disrupted /\ token \in past.revocations) => now >= ExpiryOf[token]
        BY <1>0, <2>0, <4>1, <4>2, KeptIsRegistered, GatewayConstants DEF TypeOK
      <4> QED
        BY <1>0, <2>0, <4>1, <4>3, <4>4 DEF Warned
    <3>4. CASE CheckProof(r) /\ ~Refuse(r)
      <4>1. /\ req[r].pc = "proof" /\ req'[r].pc = "mark"
            /\ req'[r].content = req[r].content /\ req'[r].revoked = req[r].revoked
        BY <1>0, <3>4 DEF CheckProof, At, Goto, Request, TypeOK
      <4>2. Content(r)' = Content(r) /\ Token(r)' = Token(r)
        BY <4>1 DEF Content, Token
      <4> QED
        BY <1>0, <2>0, <4>1, <4>2 DEF Warned
    <3>5. CASE ~Refuse(r) /\ ~Enter(r) /\ ~CheckRevocation(r) /\ ~CheckProof(r)
      <4>1. /\ req'[r].pc \notin {"proof", "mark"}
            /\ req'[r].content = req[r].content /\ req'[r].revoked = req[r].revoked
        BY <1>0, <1>5, <3>5 DEF Proceed, Lookup, Screen, MarkToken, QueryOpa, RecordEvidence,
           StoreAnswer, Goto, Repeat, Reply, Request, TypeOK
      <4>2. Content(r)' = Content(r)
        BY <4>1 DEF Content
      <4> QED
        BY <1>0, <2>0, <4>1, <4>2 DEF Warned
    <3> QED
      BY <3>1, <3>2, <3>3, <3>4, <3>5
  <2>4. \A s \in Requests \ {r} : Warned(s)'
    BY <1>3, <2>0
  <2> QED
    BY <1>1, <2>2, <2>3, <2>4
<1>6. ASSUME NEW a \in Admins, SaveHalt(a) \/ ReplyHalt(a) \/ \E want \in BOOLEAN : BeginHalt(a, want)
      PROVE  RevocationsKept'
  <2>1. UNCHANGED <<environment, registry, req>> /\ past'.revocations = past.revocations
        /\ past'.disrupted = past.disrupted
    BY <1>0, <1>6 DEF SaveHalt, ReplyHalt, BeginHalt, Past, stores
  <2> QED
    BY <1>1, <1>2, <1>3, <2>1 DEF environment
<1>7. ASSUME NEW j \in Tokens, BeginRevoke(j) \/ FinishRevoke(j) PROVE RevocationsKept'
  <2>0. j \in Jtis /\ UNCHANGED <<now, process, connected, req>> /\ process = "up"
    BY <1>7, RevokeShape DEF BeginRevoke, FinishRevoke, environment
  <2>1. CASE BeginRevoke(j)
    BY <1>1, <1>2, <1>3, <2>0, <2>1 DEF BeginRevoke, stores
  <2>2. CASE FinishRevoke(j)
    <3>1. past'.revocations = past.revocations \union {j} /\ past'.disrupted = past.disrupted
      BY <1>0, <2>2 DEF FinishRevoke, Past
    <3>2. /\ registry'["revoked"][Backend][j] >= now + Window
          /\ registry' \in [Registers -> [Backends -> [Jtis -> Nat]]]
          /\ \A i \in Jtis \ {j}, b \in Backends :
               registry'["revoked"][b][i] = registry["revoked"][b][i]
      BY <1>0, <2>0, <2>2, RegisterShape, GatewayConstants DEF FinishRevoke
    <3>3. ASSUME ~past.disrupted PROVE Kept("revoked", j)'
      <4>1. Backend = Store /\ Store' = Store /\ Store \in Backends
        BY <2>0, <3>3, BackendIsStore DEF Store, InMemory
      <4>2. registry'["revoked"][Store][j] \in Nat /\ now \in Nat
        BY <1>0, <2>0, <3>2, <4>1 DEF TypeOK
      <4> QED
        BY <2>0, <3>2, <4>1, <4>2, GatewayConstants DEF Kept
    <3>4. ASSUME ~past.disrupted, NEW i \in past.revocations \ {j} PROVE Kept("revoked", i)'
      <4>1. i \in Jtis /\ Kept("revoked", i) /\ Store \in Backends
        BY <1>0, <3>4 DEF Store
      <4> QED
        BY <2>0, <3>2, <4>1, KeptStays
    <3>5. Safe'
      BY <3>1, <3>3, <3>4
    <3> QED
      BY <1>1, <1>3, <2>0, <3>1, <3>5
  <2> QED
    BY <1>7, <2>1, <2>2
<1>8. CASE Tick \/ RedisFails \/ RedisRecovers \/ Crash \/ Restart
  <2>1. Safe'
    BY <1>0, <1>8, EnvironmentKeeps
  <2>2. \A r \in Requests : req'[r] = req[r] \/ req'[r] = Failed
    BY <1>0, <1>8 DEF Tick, RedisFails, RedisRecovers, Crash, Restart, TypeOK
  <2>3. /\ past'.revocations = past.revocations
        /\ past.disrupted => past'.disrupted
        /\ now' \in {now, now + 1}
    BY <1>0, <1>8 DEF Tick, RedisFails, RedisRecovers, Crash, Restart, Past
  <2>4. \A r \in Requests : Warned(r)'
    BY <1>3, <2>2, <2>3, FailedNotRevoked DEF Warned
  <2> QED
    BY <1>1, <2>1, <2>4
<1> QED
  BY <1>4, <1>5, <1>6, <1>7, <1>8 DEF Next

\* A request sent after the revocation of its token was answered is not
\* accepted while the token is valid, across crashes while Redis answers.
THEOREM RevokedStaysRevoked == Spec => RevokedNotAccepted
<1> DEFINE Refused ==
      \A r \in Requests :
        (req[r].pc = "mark" /\ req'[r].pc = "opa" /\ now < ExpiryOf[Token(r)] /\ req[r].revoked)
          => past.disrupted
<1>1. Shape /\ RevocationsKept => Refused
  <2> SUFFICES ASSUME Shape, RevocationsKept, NEW r \in Requests, req[r].pc = "mark",
                      now < ExpiryOf[Token(r)], req[r].revoked, ~past.disrupted
               PROVE  FALSE
    OBVIOUS
  <2>1. now >= ExpiryOf[Token(r)]
    BY DEF RevocationsKept
  <2>2. now \in Nat /\ ExpiryOf[Token(r)] \in Nat
    BY GatewayConstants DEF Shape, TypeOK, RequestOK, Token, Content
  <2> QED
    BY <2>1, <2>2
<1>2. Shape /\ Home /\ RevocationsKept /\ [Next]_vars => [Refused]_vars
  BY <1>1
<1> QED
  BY <1>2, InitShape, NextShape, InitHome, NextHome, InitRevocations, NextRevocations, PTL
  DEF Spec, RevokedNotAccepted

-----------------------------------------------------------------------------
LEMMA InitAnswers == Init => AnswersKept
  BY DEF Init, AnswersKept, MemoryUnused, Consistent, Stored, Alone, Repeats,
         Decided, Working, InFlight, NoRequest

\* The answers do not depend on the rest of the state.
LEMMA FrameAnswers ==
  ASSUME AnswersKept, UNCHANGED <<now, process, connected, cache, cacheExpiry, req>>,
         past'.overlapped = past.overlapped, past.disrupted => past'.disrupted
  PROVE  AnswersKept'
BY DEF AnswersKept, MemoryUnused, Consistent, Stored, Alone, Repeats, Fresh,
       Decided, Working, InFlight, Content, Store, InMemory

\* A step of a request that does not end with the content c, and works on c
\* only if it did, changes nothing for c.
LEMMA OtherContent ==
  ASSUME NEW c, NEW r \in Requests, Consistent(c), UNCHANGED <<now, Store>>,
         cache'[Store][c] = cache[Store][c], cacheExpiry'[c] = cacheExpiry[c],
         \A s \in Requests \ {r} : req'[s] = req[s],
         ~Decided(r, c)', Working(r, c)' => Working(r, c)
  PROVE  Consistent(c)'
<1>1. \A s \in Requests :
        /\ Decided(s, c)' => Decided(s, c) /\ req'[s] = req[s] /\ (Fresh(s)' <=> Fresh(s))
        /\ Working(s, c)' => Working(s, c)
  BY DEF Decided, Working, InFlight, Content, Fresh
<1>2. \A s \in Requests : Stored(s, c)' /\ Alone(s, c)'
  BY <1>1 DEF Consistent, Stored, Alone
<1>3. \A s, t \in Requests : Repeats(s, t, c)'
  BY <1>1 DEF Consistent, Repeats
<1> QED
  BY <1>2, <1>3 DEF Consistent

\* A request that is not decided after its step, and works only if it did.
LEMMA QuietAnswers ==
  ASSUME AnswersKept, NEW r \in Requests,
         UNCHANGED <<now, process, connected, cache, cacheExpiry>>,
         past'.overlapped = past.overlapped, past'.disrupted = past.disrupted,
         \A s \in Requests \ {r} : req'[s] = req[s],
         \A c \in Keyed : ~Decided(r, c)' /\ (Working(r, c)' => Working(r, c))
  PROVE  AnswersKept'
<1>1. Store' = Store /\ InMemory' = InMemory
  BY DEF Store, InMemory
<1> QED
  BY <1>1, OtherContent DEF AnswersKept, MemoryUnused

\* An answer given less than a ttl after another one: that one is cached.
LEMMA WithinTtl ==
  ASSUME Shape, NEW r \in Requests,
         req[r].own, now - req[r].at \in 0 .. IdemTtl - 1
  PROVE  Fresh(r)
<1>1. now \in Nat /\ req[r].at \in Nat /\ IdemTtl \in Nat
  BY GatewayConstants DEF Shape, TypeOK, Request
<1> QED
  BY <1>1 DEF Fresh

\* The cache answers: the answer is the one that every fresh one is.
LEMMA HitAnswers ==
  ASSUME Shape, NEW c, NEW r \in Requests, Consistent(c),
         UNCHANGED <<now, Store, cache, cacheExpiry>>,
         \A s \in Requests \ {r} : req'[s] = req[s],
         req'[r].pc = "done", req'[r].answer = cache[Store][c], ~req'[r].own,
         req'[r].at = now
  PROVE  Consistent(c)'
<1>1. \A s \in Requests \ {r} :
        /\ Decided(s, c)' <=> Decided(s, c)
        /\ Fresh(s)' <=> Fresh(s)
        /\ Working(s, c)' <=> Working(s, c)
  BY DEF Decided, Working, InFlight, Content, Fresh
<1>2. ~Working(r, c)'
  BY DEF Working, InFlight
<1>3. \A s \in Requests : Stored(s, c)' /\ Alone(s, c)'
  BY <1>1, <1>2 DEF Consistent, Stored, Alone
<1>4. ASSUME NEW s \in Requests, NEW t \in Requests PROVE Repeats(s, t, c)'
  <2>1. CASE s = r
    BY <2>1 DEF Repeats
  <2>2. CASE s # r /\ t # r
    BY <1>1, <2>2 DEF Consistent, Repeats
  <2>3. CASE s # r /\ t = r
    <3> SUFFICES ASSUME Decided(s, c), req[s].own, now - req[s].at \in 0 .. IdemTtl - 1
                 PROVE  req'[r].answer = req[s].answer
      BY <1>1, <2>3 DEF Repeats
    <3> QED
      BY WithinTtl DEF Consistent, Stored
  <2> QED
    BY <2>1, <2>2, <2>3
<1> QED
  BY <1>3, <1>4 DEF Consistent

\* A request that stores its answer: it worked alone and none was cached, so
\* every earlier answer is as old as the ttl, or older.
LEMMA StoredAnswers ==
  ASSUME Shape, NEW c, NEW r \in Requests, Consistent(c), Working(r, c),
         UNCHANGED <<now, Store>>,
         \A s \in Requests \ {r} : req'[s] = req[s],
         req[r].answer \in Decisions,
         req'[r].pc = "done", req'[r].answer = req[r].answer, req'[r].at = now,
         cache'[Store][c] = req[r].answer,
         Store = "redis" => cacheExpiry'[c] = now + IdemTtl
  PROVE  Consistent(c)'
<1>0. now \in Nat /\ IdemTtl \in Nat /\ \A s \in Requests : req[s].at \in Nat /\ req[s].at <= now
  BY GatewayConstants DEF Shape, TypeOK, Request, RequestOK
<1>1. \A s \in Requests \ {r} :
        /\ Decided(s, c)' <=> Decided(s, c)
        /\ Fresh(s)' <=> Fresh(s)
        /\ Working(s, c)' <=> Working(s, c)
  BY DEF Decided, Working, InFlight, Content, Fresh
<1>2. ~Working(r, c)'
  BY DEF Working, InFlight
<1>3. cache[Store][c] = None /\ \A s \in Requests \ {r} : ~Working(s, c)
  BY DEF Consistent, Alone
<1>4. \A s \in Requests \ {r} : ~(Decided(s, c) /\ Fresh(s))
  BY <1>3, GatewayConstants DEF Consistent, Stored, Decided
<1>5. \A s \in Requests \ {r} : Stored(s, c)' /\ Alone(s, c)'
  BY <1>1, <1>3, <1>4 DEF Stored, Alone
<1>6. Stored(r, c)' /\ Alone(r, c)'
  BY <1>0, <1>2 DEF Stored, Alone
<1>7. ASSUME NEW s \in Requests, NEW t \in Requests PROVE Repeats(s, t, c)'
  <2>1. CASE s = r /\ t = r
    BY <2>1 DEF Repeats
  <2>2. CASE s # r /\ t # r
    BY <1>1, <2>2 DEF Consistent, Repeats
  <2>3. CASE s # r /\ t = r
    <3> SUFFICES ASSUME Decided(s, c), req[s].own, now - req[s].at \in 0 .. IdemTtl - 1
                 PROVE  FALSE
      BY <1>1, <2>3 DEF Repeats
    <3> QED
      BY <1>4, <2>3, WithinTtl
  <2>4. CASE s = r /\ t # r
    <3> SUFFICES ASSUME Decided(t, c), req[t].at - now \in 0 .. IdemTtl - 1
                 PROVE  FALSE
      BY <1>1, <2>4 DEF Repeats
    <3>1. req[t].at = now
      BY <1>0
    <3> QED
      BY <1>4, <2>4, <3>1 DEF Fresh
  <2> QED
    BY <2>1, <2>2, <2>3, <2>4
<1> QED
  BY <1>5, <1>6, <1>7 DEF Consistent

LEMMA ProceedAnswers ==
  ASSUME Shape, Home, AnswersKept, NEW r \in Requests, Enter(r) \/ Proceed(r)
  PROVE  AnswersKept'
<1>0. /\ UNCHANGED <<now, process, connected>> /\ process = "up"
      /\ past'.disrupted = past.disrupted
      /\ \A s \in Requests \ {r} : req'[s] = req[s]
      /\ TypeOK /\ past \in Past /\ req[r] \in Request /\ RequestOK(req[r])
  BY ProceedFrame DEF environment, Shape, TypeOK
<1>1. Store' = Store /\ InMemory' = InMemory /\ Store \in Backends
  BY <1>0 DEF Store, InMemory
<1>2. \A c \in Keyed : c # None /\ c \in Contents
  BY GatewayConstants
<1>4. CASE Refuse(r)
  <2>1. req'[r].pc = "done" /\ req'[r].answer = Error
    BY <1>0, <1>4 DEF Refuse, Failed, NoRequest, TypeOK
  <2>2. \A c \in Keyed : ~Decided(r, c)' /\ ~Working(r, c)'
    BY <2>1 DEF Decided, Working, InFlight, Error
  <2>3. UNCHANGED <<cache, cacheExpiry>> /\ past'.overlapped = past.overlapped
    BY <1>0, <1>4, <2>1, GatewayConstants DEF Enter, Proceed, Lookup, Screen, CheckRevocation,
       CheckProof, MarkToken, QueryOpa, RecordEvidence, StoreAnswer, stores, Goto, Repeat, Reply,
       Past, Error, At, TypeOK, Request, RequestOK
  <2> QED
    BY <1>0, <2>2, <2>3, QuietAnswers
<1>5. CASE Enter(r) /\ ~Refuse(r)
  <2>1. req'[r].pc \in {"lookup", "screen"} /\ (req'[r].content \in Keyed => req'[r].pc = "lookup")
    BY <1>5, EnteredRequest
  <2>2. \A c \in Keyed : ~Decided(r, c)' /\ ~Working(r, c)'
    BY <2>1 DEF Decided, Working, Content
  <2> QED
    BY <1>0, <1>5, <2>2, QuietAnswers DEF Enter, stores
<1>6. CASE Lookup(r)
  <2>0. /\ Content(r) \in Keyed /\ Content(r) \in Contents /\ UNCHANGED <<cache, cacheExpiry>>
        /\ ~req[r].own
    BY <1>0, <1>2, <1>6 DEF Lookup, At, RequestOK, Content, stores
  <2>1. PICK c \in Keyed : c = Content(r)
    BY <2>0
  <2>2. ASSUME ~past.disrupted
        PROVE  Cached(c) = cache[Store][c] /\ MemoryUnused
    BY <1>0, <1>1, <1>2, <2>2, BackendIsStore DEF Cached, AnswersKept, MemoryUnused, Store
  <2>3. CASE Cached(c) # None
    <3>1. past' = past /\ req'[r].pc = "done" /\ req'[r].answer = Cached(c)
          /\ req'[r].content = req[r].content /\ ~req'[r].own /\ req'[r].at = now
      BY <1>0, <1>6, <2>0, <2>1, <2>3 DEF Lookup, Repeat, TypeOK, Request
    <3>2. \A d \in Keyed : ~Working(r, d)' /\ (Decided(r, d)' => d = c)
      BY <2>1, <3>1 DEF Working, InFlight, Decided, Content
    <3>3. ASSUME ~past.disrupted, NEW d \in Keyed \ past.overlapped PROVE Consistent(d)'
      <4>1. Consistent(d)
        BY <3>3 DEF AnswersKept
      <4>2. CASE d = c
        BY <1>0, <1>1, <2>0, <2>2, <3>1, <3>3, <4>1, <4>2, HitAnswers
      <4>3. CASE d # c
        BY <1>0, <1>1, <2>0, <3>2, <4>1, <4>3, OtherContent
      <4> QED
        BY <4>2, <4>3
    <3> QED
      BY <1>0, <1>1, <2>0, <2>2, <3>1, <3>3 DEF AnswersKept, MemoryUnused
  <2>4. CASE Cached(c) = None
    <3> DEFINE other == \E s \in Requests \ {r} : InFlight(s) /\ Content(s) = c
    <3>1. /\ past'.overlapped = past.overlapped \union {d \in {c} : other}
          /\ req'[r].pc = "screen" /\ req'[r].content = req[r].content
      <4>1. /\ req'[r].pc = "screen" /\ req'[r].content = req[r].content
        BY <1>0, <1>6, <2>1, <2>4 DEF Lookup, Goto, TypeOK, Request
      <4>2. past'.overlapped = past.overlapped \union
              {d \in {Content(r)} : \E s \in Requests \ {r} : InFlight(s) /\ Content(s) = d}
        BY <1>0, <1>6, <2>1, <2>4 DEF Lookup, Past
      <4> QED
        BY <2>1, <4>1, <4>2
    <3>2. \A d \in Keyed : ~Decided(r, d)' /\ (Working(r, d)' => d = c)
      BY <2>1, <3>1 DEF Working, Decided, Content
    <3>3. c \notin past'.overlapped => ~other
      BY <3>1
    <3>5. ASSUME ~past.disrupted, NEW d \in Keyed \ past'.overlapped PROVE Consistent(d)'
      <4>1. Consistent(d)
        BY <3>1, <3>5 DEF AnswersKept
      <4>2. CASE d # c
        BY <1>0, <1>1, <2>0, <3>2, <4>1, <4>2, OtherContent
      <4>3. CASE d = c
        <5>1. \A s \in Requests \ {r} :
                /\ Decided(s, c)' <=> Decided(s, c)
                /\ Fresh(s)' <=> Fresh(s)
          BY <1>0 DEF Decided, Content, Fresh
        <5>2. \A s \in Requests \ {r} : ~Working(s, c)'
          BY <1>0, <3>3, <3>5, <4>3 DEF Working, InFlight, Content
        <5>3. cache'[Store'][c] = None
          BY <1>1, <2>0, <2>2, <2>4, <3>5
        <5>4. \A s \in Requests : Stored(s, c)' /\ Alone(s, c)'
          BY <1>0, <1>1, <2>0, <3>2, <4>1, <4>3, <5>1, <5>2, <5>3 DEF Consistent, Stored, Alone
        <5>5. \A s, t \in Requests : Repeats(s, t, c)'
          BY <1>0, <3>2, <4>1, <4>3, <5>1 DEF Consistent, Repeats
        <5> QED
          BY <4>3, <5>4, <5>5 DEF Consistent
      <4> QED
        BY <4>2, <4>3
    <3> QED
      BY <1>0, <1>1, <2>0, <2>2, <3>5 DEF AnswersKept, MemoryUnused
  <2> QED
    BY <2>3, <2>4
<1>7. CASE StoreAnswer(r)
  <2>0. /\ req'[r].pc = "done" /\ req'[r].answer = req[r].answer /\ req'[r].content = req[r].content
        /\ req'[r].at = now
        /\ past' = past /\ Content(r) \in Contents /\ req[r].answer \in Decisions
        /\ cache' = [cache EXCEPT ![Backend][Content(r)] = req[r].answer]
        /\ cacheExpiry' = IF Backend = "redis"
                            THEN [cacheExpiry EXCEPT ![Content(r)] = now + IdemTtl]
                            ELSE cacheExpiry
        /\ req[r].pc = "store"
    BY <1>0, <1>7 DEF StoreAnswer, At, Reply, RequestOK, Content, Request, TypeOK
  <2>1. PICK c \in Contents : c = Content(r)
    BY <2>0
  <2>2. ASSUME ~past.disrupted
        PROVE  /\ cache'[Store][c] = req[r].answer
               /\ Store = "redis" => cacheExpiry'[c] = now + IdemTtl
               /\ \A d \in Contents \ {c} : /\ cache'[Store][d] = cache[Store][d]
                                            /\ cacheExpiry'[d] = cacheExpiry[d]
               /\ MemoryUnused'
    <3>1. Backend = Store
      BY <1>0, <2>2, BackendIsStore
    <3>2. MemoryUnused
      BY <2>2 DEF AnswersKept
    <3>3. Store = "memory" \/ cache'["memory"] = cache["memory"]
      BY <1>0, <1>1, <2>0, <2>1, <3>1 DEF TypeOK
    <3>4. MemoryUnused'
      BY <1>1, <3>2, <3>3 DEF MemoryUnused, Store
    <3>5. /\ Store = "redis" => cacheExpiry'[c] = now + IdemTtl
          /\ \A d \in Contents \ {c} : cacheExpiry'[d] = cacheExpiry[d]
      BY <1>0, <2>0, <2>1, <3>1 DEF TypeOK
    <3> QED
      BY <1>0, <1>1, <2>0, <2>1, <3>1, <3>4, <3>5 DEF TypeOK
  <2>3. \A d \in Keyed : ~Working(r, d)' /\ (Decided(r, d)' => d = c)
    BY <2>0, <2>1 DEF Working, InFlight, Decided, Content
  <2>4. Working(r, c)
    BY <2>0, <2>1 DEF Working, InFlight
  <2>5. ASSUME ~past.disrupted, NEW d \in Keyed \ past.overlapped PROVE Consistent(d)'
    <3>1. Consistent(d)
      BY <2>5 DEF AnswersKept
    <3>2. CASE d # c
      <4>1. /\ cache'[Store][d] = cache[Store][d]
            /\ cacheExpiry'[d] = cacheExpiry[d]
        BY <1>2, <2>2, <2>5, <3>2
      <4> QED
        BY <1>0, <1>1, <2>3, <3>1, <3>2, <4>1, OtherContent
    <3>3. CASE d = c
      BY <1>0, <1>1, <2>0, <2>2, <2>4, <2>5, <3>1, <3>3, StoredAnswers
    <3> QED
      BY <3>2, <3>3
  <2> QED
    BY <1>0, <1>1, <2>0, <2>2, <2>5 DEF AnswersKept
<1>8. CASE ~Refuse(r) /\ (Screen(r) \/ CheckRevocation(r) \/ CheckProof(r) \/ MarkToken(r)
                          \/ QueryOpa(r) \/ RecordEvidence(r))
  <2>1. /\ UNCHANGED <<cache, cacheExpiry>> /\ past'.overlapped = past.overlapped
        /\ req[r].pc \notin {"free", "done", "lookup"}
        /\ req'[r].content = req[r].content
        /\ req'[r].pc = "done" => req[r].content \notin Keyed
    BY <1>0, <1>8 DEF Screen, CheckRevocation, CheckProof, MarkToken, QueryOpa, RecordEvidence,
       At, Goto, Content, Past, Request, TypeOK, stores
  <2>2. \A c \in Keyed : ~Decided(r, c)' /\ (Working(r, c)' => Working(r, c))
    BY <2>1 DEF Decided, Working, InFlight, Content
  <2> QED
    BY <1>0, <2>1, <2>2, QuietAnswers
<1> QED
  BY <1>4, <1>5, <1>6, <1>7, <1>8 DEF Proceed

\* Time takes the answers whose ttl is over out of Redis, and no other.
LEMMA TickAnswers ==
  ASSUME Shape, AnswersKept, Tick
  PROVE  AnswersKept'
<1>0. /\ now \in Nat /\ now' = now + 1 /\ IdemTtl \in Nat
      /\ \A r \in Requests : req[r].at \in Nat /\ req[r].at <= now
      /\ \A c \in Contents : cacheExpiry[c] \in Nat
      /\ UNCHANGED <<process, connected, req, past, cacheExpiry>>
  BY GatewayConstants DEF Shape, TypeOK, Request, RequestOK, Tick
<1>1. /\ cache'["memory"] = cache["memory"]
      /\ \A c \in Contents :
           cache'["redis"][c] = IF cacheExpiry[c] > now' THEN cache["redis"][c] ELSE None
  BY DEF Shape, TypeOK, Tick
<1>2. Store' = Store /\ InMemory' = InMemory /\ Store \in Backends
  BY <1>0 DEF Store, InMemory
<1>3. ASSUME NEW c \in Contents, Consistent(c) PROVE Consistent(c)'
  <2>1. \A r \in Requests :
          /\ Decided(r, c)' <=> Decided(r, c)
          /\ Working(r, c)' <=> Working(r, c)
    BY <1>0 DEF Decided, Working, InFlight, Content
  <2>2. ASSUME NEW r \in Requests, Decided(r, c), Fresh(r)'
        PROVE  /\ cache'[Store][c] = req[r].answer
               /\ (req[r].own /\ Store = "redis") => cacheExpiry[c] >= req[r].at + IdemTtl
    <3>1. req[r].own /\ now' < req[r].at + IdemTtl /\ Fresh(r)
      BY <1>0, <2>2 DEF Fresh
    <3>2. /\ cache[Store][c] = req[r].answer
          /\ Store = "redis" => cacheExpiry[c] >= req[r].at + IdemTtl
      BY <1>3, <2>2, <3>1 DEF Consistent, Stored
    <3>3. Store = "redis" => cacheExpiry[c] > now'
      BY <1>0, <3>1, <3>2
    <3> QED
      BY <1>1, <1>2, <3>2, <3>3
  <2>3. \A r \in Requests : Stored(r, c)'
    BY <1>0, <1>2, <2>1, <2>2 DEF Stored
  <2>4. \A r \in Requests : Alone(r, c)'
    BY <1>1, <1>2, <1>3, <2>1 DEF Consistent, Alone
  <2>5. \A r, s \in Requests : Repeats(r, s, c)'
    BY <1>0, <1>3, <2>1 DEF Consistent, Repeats
  <2> QED
    BY <2>3, <2>4, <2>5 DEF Consistent
<1> QED
  BY <1>0, <1>1, <1>2, <1>3, GatewayConstants DEF AnswersKept, MemoryUnused

LEMMA NextAnswers == Shape /\ Home /\ AnswersKept /\ [Next]_vars => AnswersKept'
<1> SUFFICES ASSUME Shape, Home, AnswersKept, [Next]_vars PROVE AnswersKept'
  OBVIOUS
<1>0. TypeOK /\ past \in Past
  BY DEF Shape, TypeOK
<1>1. CASE UNCHANGED vars
  BY <1>1, FrameAnswers DEF vars
<1>2. ASSUME NEW a \in Admins, SaveHalt(a) \/ ReplyHalt(a) \/ \E want \in BOOLEAN : BeginHalt(a, want)
      PROVE  AnswersKept'
  BY <1>0, <1>2, FrameAnswers DEF SaveHalt, ReplyHalt, BeginHalt, Past, environment, stores
<1>3. ASSUME NEW j \in Tokens, BeginRevoke(j) \/ FinishRevoke(j) PROVE AnswersKept'
  BY <1>0, <1>3, FrameAnswers DEF BeginRevoke, FinishRevoke, Past, environment, stores
<1>4. CASE RedisFails \/ RedisRecovers
  BY <1>0, <1>4, FrameAnswers DEF RedisFails, RedisRecovers, Past, stores
<1>5. CASE Crash
  <2> SUFFICES ASSUME ~past'.disrupted PROVE AnswersKept'
    BY DEF AnswersKept
  <2>1. ~past.disrupted /\ connected /\ past'.overlapped = past.overlapped
        /\ process' = "down" /\ process = "up"
    BY <1>0, <1>5 DEF Crash, Past
  <2>2. /\ \A c \in Contents : cache'["memory"][c] = None
        /\ cache'["redis"] = cache["redis"]
        /\ UNCHANGED <<now, cacheExpiry>>
    BY <1>0, <1>5 DEF Crash, TypeOK
  <2>3. Failed.pc = "done" /\ Failed.answer = Error
    BY DEF Failed, NoRequest
  <2>4. \A r \in Requests : (req'[r] = req[r] /\ ~InFlight(r)) \/ req'[r] = Failed
    BY <1>0, <1>5 DEF Crash, TypeOK
  <2>5. \A r \in Requests, c \in Keyed :
          ~Working(r, c)' /\ (Decided(r, c)' => Decided(r, c) /\ req'[r] = req[r])
    BY <2>3, <2>4 DEF Working, InFlight, Decided, Content, Error
  <2>6. Store = "redis" /\ Store' = "redis"
    BY <2>1 DEF Store, InMemory
  <2>7. ASSUME NEW c \in Keyed, Consistent(c) PROVE Consistent(c)'
    <3>1. \A r \in Requests : Stored(r, c)' /\ Alone(r, c)'
      BY <2>2, <2>5, <2>6, <2>7 DEF Consistent, Stored, Alone, Fresh
    <3>2. \A r, s \in Requests : Repeats(r, s, c)'
      BY <2>5, <2>7 DEF Consistent, Repeats
    <3> QED
      BY <3>1, <3>2 DEF Consistent
  <2> QED
    BY <2>1, <2>2, <2>7 DEF AnswersKept, MemoryUnused
<1>6. CASE Restart
  <2> SUFFICES ASSUME ~past'.disrupted PROVE AnswersKept'
    BY DEF AnswersKept
  <2>1. UNCHANGED <<now, cache, cacheExpiry, req, past>> /\ ~past.disrupted /\ process = "down"
    BY <1>0, <1>6 DEF Restart, Past, stores
  <2>2. redisUp
    BY <2>1 DEF Home, InMemory
  <2>3. ~InMemory /\ ~InMemory'
    BY <1>6, <2>1, <2>2 DEF Restart, InMemory
  <2> QED
    BY <2>1, <2>3 DEF AnswersKept, MemoryUnused, Consistent, Stored, Alone, Repeats, Fresh,
       Store, Decided, Working, InFlight, Content
<1> QED
  BY <1>1, <1>2, <1>3, <1>4, <1>5, <1>6, ProceedAnswers, TickAnswers DEF Next

\* Requests with one Idempotency-Key that do not overlap repeat the decision
\* of the one that was cached, for the length of the ttl, although the policy
\* may have changed or the gateway crashed in between.
THEOREM AnswersAreRepeated == Spec => []IdempotentAnswers
<1>1. AnswersKept => IdempotentAnswers
  <2> SUFFICES ASSUME AnswersKept, NEW r \in Requests, NEW s \in Requests, ~past.disrupted,
                      Content(r) = Content(s), Content(r) \in Keyed \ past.overlapped,
                      req[r].pc = "done", req[s].pc = "done",
                      {req[r].answer, req[s].answer} \subseteq Decisions,
                      req[r].own, req[s].at - req[r].at \in 0 .. IdemTtl - 1
               PROVE  req[r].answer = req[s].answer
    BY DEF IdempotentAnswers
  <2>1. Decided(r, Content(r)) /\ Decided(s, Content(r))
    BY DEF Decided
  <2> QED
    BY <2>1 DEF AnswersKept, Consistent, Repeats
<1> QED
  BY <1>1, InitShape, NextShape, InitHome, NextHome, InitAnswers, NextAnswers, PTL DEF Spec

=============================================================================
