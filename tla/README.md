# Verification of ARHIAX AgentCreator

ARHIAX AgentCreator is a control plane for AI agents: an agent is created and
given an identity and a level of autonomy, asks a gateway before every tool
call, and every decision is recorded in a hash-chained evidence ledger. This
directory models the parts whose correctness depends on ordering, failure and
restart. Every module is translated from the source, and `map` in
`PROJECT.json` names the lines behind each definition.

- [1. The system](#1-the-system)
- [2. Modules](#2-modules)
- [3. Runs](#3-runs)
- [4. Proofs](#4-proofs)
- [5. Where code and documents disagree](#5-where-code-and-documents-disagree)
- [6. What is not modelled](#6-what-is-not-modelled)
- [7. Plan](#7-plan)

## 1. The system

Paths are relative to `src/`. Python services are single-process FastAPI
applications: a handler runs without interruption from one `await` to the
next, and requests interleave at the awaits.

| Component | State | Operations | Hard behaviour | What makes it correct |
|---|---|---|---|---|
| Evidence store, Python (`services/evidence-store/main.py`) | JSONL file, `_sequence`, `_last_hash`, bounded `_index` | append, replay at start, verify, list, get, report | the head moves before the write; partial writes; no flush or fsync, so a host crash takes lines or cuts one off; a replay that skips | numbers never repeat; loss shows in the chain, but for what the host took; crashes of the process, or of the host between two lines, leave a chain that verifies; between requests the index holds the newest entries of the file |
| Evidence store, Go (`runtime/reference-images/images/evidence-store`) | JSONL file, head hash, id index | open and replay, append (write, sync, commit), get, tail, close | crash between write, sync and commit; failing sync; torn line; reads beside an append | acknowledged records survive everything; the store never starts on a file that hides one |
| Gateway: registry of tokens (`services/gateway/main.py:229-266`) | two maps jti -> expiry, two queues | `mark_seen`, `is_revoked`, `revoke`, purge | queues in order of insertion, not of expiry; a jti registered twice | nothing is forgotten early, everything is forgotten in the end |
| Gateway: service (`services/gateway/main.py`) | halt state, idempotency cache, registry, each in Redis (where keys expire) or in memory | decide, halt, resume, revoke, start-up | interleaved requests with one token or one key; Redis failing; crash and restart | one use per token; revocation and halt hold; fail-closed; same key, same answer until its ttl |
| Gateway, Go image | none | decide | policy fail-closed, evidence fail-open | as above without state |
| AIM (`services/aim-service`) | agents, their credential, level and history in SQLite | register, rotate, revoke, update level | stores the level it is told; a rotation reactivates a suspended agent | the history accounts for the level; only levels that AUT granted |
| AUT (`services/aut-service`) | autonomy level and its events in SQLite | register, promote, degrade | promotions and degradations that cross; a registration that is repeated | a level rises only when all gates pass, one step at a time, and the events account for it |
| Creator API (`services/creator-api`) | none of its own | create, promote, decommission: sequences of calls to AIM and AUT | a call is lost, or handled after the creator gave it up, when the one before it committed | READY means registered in both; AIM and AUT agree unless something was lost or crossed |
| Credential broker (`services/credential-broker`) | `_proof_nonces` in memory | issue a token for a proof, or for an hmac | AIM's answer is awaited; the cache is bounded and lost in a restart; clocks differ | one token per proof while its nonce is kept; no token for a credential replaced before the request |
| HIC (`services/hic-service`) | tickets with a deadline | create, approve, reject, expire | an approval after the deadline; nobody resolves | a ticket is resolved once; what it says is what the call goes by |
| SDK (`sdk/python/arhiax`) | the calls under way, the credential, the gateway client's breaker | governed tool, model, data, other agent; step-up; token and its confirmation; retries | a request sent again while the first is decided; a ticket approved when nobody polls any more; a breaker shared by calls | a call runs only after an allow, an approval where one is due, a confirmation where one is due; every call ends |
| ATK (`runtime/atk`) | nothing between envelopes | evaluate an envelope: five checks over six services | a service fails, or acts and does not answer; the credential changes between two checks | a failure denies; what passes was justified; warnings add up |
| Hardened clients (`runtime/hardened`) | a circuit breaker per client | call, with retries | late answers while the breaker is open; every caller is a probe | the service is left alone for the reset time; calls get through again |
| C09 (`runtime/c09`) | producers, and a hash-chained log of their changes | register, suspend, revoke, replay, gate | memory is changed before the log; a line torn or joined by the next | who was stopped stays stopped; memory follows the log |
| Policies (`runtime/bundles/main.rego`) | none | one decision | | as an operator of `GovernedTool` |
| BBR, correlator, MCP interceptor | statistics, gauges, pure functions | | | |

How they interact: the SDK calls the gateway, opens tickets in HIC when a
decision escalates, and fetches a token for a tool from the broker; the gateway
asks OPA for a decision, appends the decision to an evidence store, keeps tokens, keys and
the halt state in Redis when it reached it at its start, and in memory
otherwise; the Creator API calls AIM, AUT and the gateway; the broker asks AIM for the
credential of an agent and signs the tokens that the gateway verifies. ATK is a second, synchronous
place of decision: it calls AIM, OPA, BBR, AUT, EGA and HIC, in production
through the hardened clients; the C09 gate gives it one of its signals.

## 2. Modules

| Module | Models | Interface |
|---|---|---|
| `AppendOnlyLog` | what an evidence store promises | abstract |
| `EvidenceLedger` | the Python evidence store | implements `AppendOnlyLog` |
| `JsonlStore` | the Go evidence store | implements `AppendOnlyLog` |
| `JtiStore` | the gateway's registry in memory | what it promises is what `Gateway` assumes |
| `Gateway` | decide, halt, resume, revoke, start-up, both backends | uses the promise of `JtiStore`, and of Redis |
| `AgentIdentity` | the table of AIM, one operator per handler | used by the two below |
| `AgentLifecycle` | the creator API over AIM and AUT | composes `AgentIdentity` with AUT |
| `CredentialBroker` | the credential broker over AIM | composes `AgentIdentity` with the broker |
| `GovernedTool` | the SDK's calls over HIC, the broker and the gateway | takes the gateway for one promise of `Gateway`, one use per token |
| `ProducerRegistry` | the C09 registry, its log and the gate | |
| `TrustKernel` | ATK's evaluation of an envelope | |
| `HardenedClient` | one client of the kernel and its breaker | |
| `...Proofs` | of the component they name; `AgentLifecycleProofs` also of `CredentialBroker`, `TrustKernelProofs` also of `HardenedClient` | theorems |
| `MC...` | | instances for TLC |

### AppendOnlyLog

The log grows by one entry at a time, at the end, with growing numbers; no
entry changes or disappears; an entry is acknowledged only when it is in the
log. `Damaged` says that the medium lost data: nothing is promised afterwards.
The two stores have different notions of damage, which is the point of stating
one specification for both. The Python store never syncs and skips what it
cannot parse, so a partial write or a host crash ends the promise. The Go store
keeps it through partial writes and failing syncs, and only the host going down
ends it (a synced record survives even that: `AckedDurable`).

### EvidenceLedger

| State | Code |
|---|---|
| `lines`, `terminated` | the file: of each line its entry and what its text is (the whole of it, a part, or more text joined to it), and whether the last has its newline |
| `sequence`, `lastHash`, `index` | `_sequence`, `_last_hash`, `_index` |
| `pc`, `entry` | the handler, which holds the lock from the number to the answer |
| `acked`, `lost`, `faults` | history: entries answered with 201, those of them that the last host crash took, the kinds of fault so far |

An append is `BeginAppend` (number, link and HMAC, and the head moves),
`WriteLine` (or `WriteRefused`, `WritePart` when the write fails),
`IndexAndReply` (eviction, index, 201). They are separate steps because a crash
or a failing write can separate them, not because another request can. The
HMAC is a fresh number: two entries never share one, and recomputing it from
another predecessor never gives the stored one. `Restart` is `_init_ledger`.
A line that was left without a newline takes the text of the next append, and
then does not parse; this is what append mode does.
`HostCrash` leaves any prefix of the bytes of the file, since the handler never
flushes or syncs: whole lines, a last line cut within its text, or one that lacks
only its newline (`Cut`; an entry to which a later text was joined can come back
this way). The replay skips a line that was cut and accepts one without its
newline; in both cases the next append joins it.

### JsonlStore

The file is a sequence of pieces, one per write. `durable` counts the pieces
known to be on disk. `Append` is `BeginAppend`, `WriteRecord` or `WriteFails`,
`SyncRecord` or `SyncFails`, `CommitRecord`; `writeMu` is held through all of
it, so one `rec` suffices. `Open` replays the file, and refuses it if a line
does not parse or link. The hash of a record is the sequence of the payloads it
covers (`hashablePayload` leaves out the id and the timestamp), so equality of
hashes is what equality of SHA-256 digests is taken to be. A process is
identified by the number of its start, for `startNanos`. As a log (`Entries`)
the file is its whole pieces in their order: the k-th entry is the piece with k
whole pieces up to it. A successful sync is
taken to make every earlier piece durable, also after a sync that failed. An
operator who repairs a refused file by hand is not modelled.

### JtiStore

The in-memory registry at the granularity of its method calls, which contain
no await. A purge removes the `n` expired items at the front, for the one `n`
at which the loop stops. `promised` is history: the expiry that the last call
which registered a jti gave it.

### Gateway

Each action is the code of a handler between two awaits. `Enter` has the checks
that precede the first await (halt, size); `Lookup` the idempotency cache;
`Screen` the injection patterns and the verification of the token's signature,
after which the clock is read (`clock`); `CheckRevocation` the registry of
revoked tokens and, without another await, `exp`, audience and context;
`CheckProof` the DPoP proof and its registration; `MarkToken` the registration
of the token; `QueryOpa`, `RecordEvidence` and `StoreAnswer` the rest.

- The answers 4xx, 5xx and a broken connection are one value, `Error`: no
  property tells them apart. What a policy answers is a free choice, so no
  property depends on a policy.
- `Backend` is Redis if the gateway reached it at its start and it answers
  this call, memory otherwise, as in `_RedisJtiStore` and `_idem_get`/`_idem_set`.
- `Registered` is the promise of `JtiStore` (`NothingForgotten`). After its
  expiry an entry may or may not still be there (`MaybeRegistered`), because
  the queues are not sorted by expiry; Redis drops keys at their ttl (`Tick`).
- A cached answer expires `IdemTtl` after it was stored if it is in Redis
  (`cacheExpiry`, dropped by `Tick`), and never if it is in memory, as in
  `_idem_set`. Behind its expiry the gateway decides again. `own` and `at` say
  of an answered request whether it stored its answer or repeated one, and when:
  they are history.
- Halts and resumes have three steps: memory, Redis, evidence and answer.
- A revocation waits for the evidence store before it is registered. It is
  given the default ttl; a caller who asks for a shorter one gets less.
- `Restart` is `lifespan`. If the keys of the broker cannot be fetched, the
  `except` branch (`main.py:36`) refers to `self`, which is not defined there,
  and the start fails: the process stays down.
- `past` is history and guards nothing.

### AgentIdentity

`agents` is AIM's table: the state of each row, the level, the number of the
credential (`issued`, which stands for `credential_issued_at` and the hmac that
depends on it) and the history of levels. Each handler reads and writes its row
between two awaits, so it is one operator; the record it sends to the evidence
store afterwards changes nothing in AIM and is ignored when it fails.

### AgentLifecycle

| State | Code |
|---|---|
| `agents` | AIM (above) |
| `autonomy`, `events` | `autonomy_registry`, `autonomy_events` of AUT |
| `jobs` | a request the creator handles: the call it has under way and the answer of its client |
| `disturbed` | history: agents whose last promotion was not alone and undisturbed |

A call is one action, taken when AIM or AUT handles it: `RegisterIdentity`,
`RegisterAutonomy`, `Promote` (or `RefusePromotion`, `RejectPromotion`),
`StoreLevel`, `Revoke`. The reply to a call and the call that follows it are
merged (`GoOn`): a reply that is lost has the effect of losing the next call.
`GiveUp` is the timeout of ten seconds, or a crash of the creator: the client
has its error and the call still arrives, with nobody to go on after it. `Lose`
is the call that never arrives. `Degrade`, `RegisterDirectly` and `Rotate` are
requests that go to AUT or AIM and not through the creator. Only the creator
calls AIM's update of the level: no other code of the repository does.

### CredentialBroker

A request is sent (`SendSigned`, `SendAgain`, `SendUnsigned`), AIM reads the
row (`LoadCredential`), and the broker authorizes with what was read: the one
await lies between the two. The rest of `_authorize_tool_token` is one step
with the outcomes `RefuseInactive`, `RefuseReused`, `AcceptProof`,
`AcceptHmacForWrongProof` and `AcceptHmac`. A proof is a credential, a time and
a nonce of its own. The agent may sign with a credential that was replaced, and
its clock may be ahead by a member of `ClockErrors`. `Kept` is the cleanup:
what has expired goes, and above the limit one of the nonces that expire first
(the code takes the first of these in the dictionary; the model takes any).
What the agent may do with which tool is a free choice between `Mint` and
`Refuse`. A request has a proof or an hmac; no client of the repository sends
both. `Restart` loses the nonces and the requests and keeps the signing key.

### GovernedTool

| State | Code |
|---|---|
| `call` | a coroutine: where it awaits, the stage of its decision (initial, reevaluation, confirmation), the attempts of `GatewayClient.decide` |
| `answers` | the gateway's idempotency cache, by call and context |
| `accepted` | the calls whose token the gateway used up |
| `breaker` | `_CircuitBreaker`, shared by the calls of an agent |
| `tickets` | HIC's table: the step-up ticket of a call, and the one a model call opens to notify |
| `profile`, `credential` | `SecurityProfile` (broker, step-up), `load_credential` |

The calls differ by kind, severity, level of autonomy and by the flags the
caller passes in its own arguments. `Policy` is the part of `main.rego` that
tells these apart; its other gates count as denials, which the gateway may give
at any time. An attempt that timed out stays in `pending`: the gateway may
handle it later, beside the attempts that follow it; a context it has decided
before it answers from its cache or decides again (the answer expires, and
overlapping attempts are decided independently), so that nothing in this module
rests on one answer per key. A confirmation uses up the token, and an
attempt that comes second is refused as a replay. The confirmation is sent with
the context of the first decision, as in the code. Tickets are approved,
rejected and expired by HIC at any time; `late` says that the deadline has
passed, which an approval does not look at. `tool`, `model`, `data` and `agent`
differ after the decision: the `...Allowed` operators.

### ProducerRegistry

`file` and `log` are the log on disk and in memory, `producers` the dictionary.
`register` writes the log first, `suspend` and `revoke` change the dictionary
first (`Register`/`RegisterFails`, `Stop`/`StopFails`). A failing write leaves
a part of a line, or the line without its newline (`FileWith`), which the next
entry joins. `Crash`, `CrashAfterWrite` and `HostCrash` (which leaves any
prefix of the bytes of the file, as in `EvidenceLedger`) lose the memory;
`Restart` replays, `RefuseStart` is a log that does not parse or link. Hashes
are fresh numbers. `edited` and `shared` follow the list that a replayed
producer and its entry have in common. `Outcome` is `gate.py` over the
divergence, given by where it stands between the thresholds, and `Signal` what
`atk_bridge.py` makes of it.

### TrustKernel

`pc` is the place in `evaluate_envelope`; each call of a service is an action
that succeeds, and another that fails (`...Fails`): before it acted, or after it
acted (an entry recorded, a ticket opened, and an exception all the same).
`Change` alters the credential in AIM between any two steps. `seen` and `failed`
are history. The bundles B05, B14 and B16 of the reference policy client are
operators. A deviation counts in halves of sigma, which is what the thresholds
need.

### HardenedClient

A call passes `before_call`, makes up to `MaxRetries` attempts and reports once,
at its end. The breaker is asked once per call and hears once per call, so calls
that began before it opened report to it later. Counter and ages stop at their
limits, beyond which the code does not tell values apart. `Results` is what a
caller gets, by method: the lookups make `None` of a 404.

## 3. Runs

| Run | Instance | States | What it shows |
|---|---|---|---|
| `evidence_ledger` | index of 2, 5 appends, 2 crashes | 222,560 | the ledger's invariants, `BrokenStaysBroken`, and that it implements `AppendOnlyLog` |
| `jti_store` | 2 jtis, ttls 0..3, time 0..5, queues of 3 | 521,593 | `NothingForgotten`, `EveryEntryQueued`, `ForgottenInTime` |
| `jsonl_store` | 2 payloads, 4 appends, 3 starts | 159,506 | durability, lookup, unique ids, recovery, and that it implements `AppendOnlyLog` |
| `gateway` | 2 requests, 2 administrators, one token, one proof, one key, a cached answer kept for 2, time 0..2, four workloads | 183,658 | `SingleUse`, `RevokedNotAccepted`, `IdempotentAnswers`, `HaltHolds`, `FailClosed`, `EventuallyAnswered` |
| `agent_lifecycle` | 1 agent, levels 0..2, 3 requests at a time, 3 changes of level | 394,236 | `HistoryAccountsForLevel`, `OnlyGrantedLevels`, `AgreeUndisturbed`, `ReadyIsComplete` |
| `credential_broker` | 1 agent, 3 proofs, 3 requests, cache of 1, time 0..2, 2 credentials | 700,275 | `OneTokenPerProof`, `MintedForLiveCredential` |
| `governed_tool` | 2 calls, 2 attempts, breaker of 2 failures, all profiles | 262,292 | `HumanApproved`, `ConfirmedBeforeRun`, `ReevaluationDecides`, `EveryCallEnds` |
| `step_up_unlocks` | the same | | a disagreement, section 5 |
| `producer_registry` | 2 producers, 4 changes, 2 crashes | 73,875 | `StoppedProducersIgnored`, `MemoryMatchesLog`, `AckedInLog` |
| `registry_verify_log` | the same | | a disagreement |
| `trust_kernel` | 3 configurations, 6 credentials, 8 envelopes, 2 of them one after the other, 1 change | 3,289,352 | `FailureDenies`, `PassedIsJustified`, `WarningsAddUp` |
| `hardened_client` | 3 calls, 2 attempts, 2 failures, reset of 2 ticks, 2 methods | 386,448 | `NoCallSoonAfterFailure`, `Recovers` |

Why the bounds are enough.
`evidence_ledger`: an index of two evicts at the third append, a replay fills
it beyond its size, and the fifth append runs behind a replay of a replay. A
torn line needs one failing append and one behind it, or a host crash, a replay
and one append.
`jti_store`: a jti with a short ttl must expire behind one with a long ttl and
be registered again before the purge reaches its first item; this takes two
jtis, three items and five seconds.
`jsonl_store`: a failing append, its successor, a replay, and the same again.
`gateway`: a race is between two requests, a request and a revocation, or two
administrators; the second request can be sent before, during and after the
first, on either side of crashes and outages; the token and the window are two
ticks long, and the clock runs to 2. `CONSTRAINT Workloads` keeps one source of
events at a time: tokens with their revocation and the clock (up to the first
disruption, after which neither property about them claims anything); requests
with a key beside the clock, which reaches the ttl of the answer stored at 0;
halts and resumes; injections. The four share no variable that a
property relates, and the theorems of section 4, which have no workloads and
no bounds, cover the rest. A state outside the constraint is checked for the
invariants and not extended. It is entered only by a step that fairness is not
assumed of (a new request, a halt, a revocation, a tick, an outage, a crash),
so no request is cut off from its own next step, and `EventuallyAnswered` is
not made vacuous: every fair behaviour within a workload is complete.
`agent_lifecycle`: every action reads and writes the rows of one agent, so two
agents do not influence each other; the theorems of section 4 hold for any
number. Three requests are a late promotion, the one that overtakes it and a
third that crosses both; three changes of level are a promotion, a degradation
and a promotion again.
`credential_broker`: a cache of one is full with the second proof and evicts at
the third. The clock of an agent that is ahead by the whole skew, with the
nonce kept for twice the skew, is the proportion of the defaults (60 and 120
seconds): the nonce and the proof end in the same second. Two credentials make
one of them old. Signed proofs are not required, so that the hmac is reached.

`governed_tool`: one call asks for what the policy tells apart (a tool and
another agent that escalate, a tool and a model whose caller claims the
approval); the other is plain access to data that shares its breaker and can open
or close it. Two
attempts are a repetition, and two failures open the breaker from either call.
`producer_registry`: with two producers the entries of one stand between those
of the other; four changes are a torn line, the entry that joins it, one behind
both and a change of a stopped producer; two crashes replay a replay. The
producers are interchangeable (`SYMMETRY`; no liveness property).
`trust_kernel`: nothing but the evidence outlives an envelope, so two show that
what the first read is not used for the second; one change at any point is what
`seen` has to tell. The envelopes have one warning, two and none of them.
`hardened_client`: two calls open the breaker while the third is under way; two
attempts separate its start from its end by a failure; a reset time of two has a
time in its middle. Of the nine methods one is a lookup and one is not.

Fairness. In `Gateway`, `FairSpec` adds weak fairness on `Proceed(r)`, the next step of a
request that has entered. Each await in it is an `httpx` call with a timeout
or a Redis call that answers or raises, so the event loop resumes every
handler. Nothing is assumed of clients, administrators, Redis, crashes or
restarts: a crash answers the requests it interrupts with a broken connection.
In `GovernedTool` it is weak fairness of the next step of each call: every await
of the SDK has a timeout of `httpx` or of the polling, and the tool itself is
taken to return. Nothing is assumed of reviewers, of `check_expired`, of the
gateway or of the broker: `EveryCallEnds` holds although none of them acts.
In `HardenedClient` an attempt has a timeout, a sleep between attempts ends, and
time passes. `Recovers` supposes in its premise what no code can promise, that
the service becomes healthy for good and that callers keep coming.

Deadlock is checked in every run; every specification has a step in each
reachable state (a query, a failure of Redis or a recovery).

Properties with a condition say what they leave out. `past.disrupted` covers
the loss of the registry in use: Redis failing while the gateway is connected
to it, or a crash of a gateway that keeps everything in memory.
`past.overlapped` covers requests with one key that were in flight together,
which the code decides independently. `IdempotentAnswers` compares a decision
with the answers given less than `IdemTtl` after it: at the ttl TLC finds the
code deciding again. `CrashKeepsChain` and `IndexIsNewest` end at the first line
that was left cut off. `past.halting` is `None` while a halt or
resume is unanswered or when two of them overlapped.

## 4. Proofs

`EvidenceLedgerProofs` proves, for every index size and any number of appends
and crashes:

| Theorem | Property | Inductive invariant |
|---|---|---|
| `TypeCorrect` | `TypeOK` | itself |
| `SequencesIncrease` | `SequenceIncreasing` | `SequenceInv`: also, an entry in progress is numbered by the counter, and before its write that number is above every line's; a line that begins with a whole entry (`Begun`), which a cut can bring back, is numbered above the readable lines before it |
| `LossIsVisible` | `NoSilentLoss` | `LossInv`: a file in which every line parses contains every acknowledged entry but the lost ones, and the entry about to be acknowledged |
| `CrashesKeepChain` | `CrashKeepsChain` | `ChainInv`: under `faults \subseteq {"lostByHost"}` the file ends with a newline, and the head is the last line's hash except between `BeginAppend` and the write, when it is the entry's |
| `ImplementsLog` | `LogSpec` | `LogInv`: without damage nothing is lost, and every line is terminated and parses, so that the refinement mapping is one entry per line |
| `IndexesAreNewest` | `IndexIsNewest` | `IndexInv`: as long as no line was cut off, also while an append is between its write and its eviction, when the index is the newest of all but the entry just written |
| `BrokenChainsStayBroken` | `BrokenStaysBroken` | `TypeOK`: a step leaves the lines alone, adds one behind them, or joins the last one, which then does not parse (`WritesDoNotRepair`); only a host crash takes lines away |

None of the properties is inductive alone. `NoSilentLoss` speaks of the chain,
and a chain may be broken and (as far as the formula knows) be repaired; that
an unparsable line stays until the host takes it, and that what the host takes
is counted in `lost`, is what `LossInv` adds. `SequenceIncreasing` needs the
counter's relation to an entry that is not yet written. `IndexIsNewest` rests on
`SequenceInv`: the index evicts its oldest entry, and that this is the lowest
number follows from the order of the file.

`JsonlStoreProofs` proves, for every number of appends, faults and starts and
files of every length:

| Theorem | Property | Inductive invariant |
|---|---|---|
| `TypeCorrect` | `TypeOK` | itself |
| `AcknowledgedStaysDurable` | `AckedDurable` | `DurableInv`: also, behind the write the last piece is the record of the append, whole, and behind the sync everything is on disk |
| `LookupsFindTheirRecord` | `LookupFindsRecord` | `DurableInv` |
| `StartsAreComplete` | `OpensComplete` | `DurableInv`; a replay that succeeds indexes every piece, and the acknowledged ones are there |
| `IdsStayUnique` | `IdsUnique` | `IdsInv`: the ids of the file grow, none is above the newest one given, and the newest is not in the file before its write |
| `CrashesStayRecoverable` | `CrashesRecoverable` | `ChainInv`: while no write was torn, the file replays, its last hash is the head, and a record about to be written links to it |
| `ImplementsLog` | `LogSpec` | `LogInv`: `DurableInv`, `IdsInv` and the bound of the counter, which make the numbers of the entries grow |

The refinement needs that counting the whole pieces up to a piece numbers them
without a gap (`WholeNumbered`). This is an induction in disguise; it is proved
without one, from the count being injective on a finite set and therefore onto
its image. `EntriesOfWhole` and `AddedPieceExtends` then say that a torn piece
leaves the log as it is and a whole one adds its entry at the end.

`JtiStoreProofs` proves, for every set of identifiers, every largest ttl and
queues of any length:

| Theorem | Property | Inductive invariant |
|---|---|---|
| `TypeCorrect` | `TypeOK` | itself |
| `NothingIsForgotten` | `NothingForgotten` | `PromiseInv`: what was promised and has not expired is exactly what is registered; an item is purged only after its own expiry, so one that equals the registered expiry is purged after the promise is over |
| `EntriesAreQueued` | `EveryEntryQueued` | itself with `TypeOK` |
| `RefusalsEnd` | `ForgottenInTime` | `InTimeInv`: `EveryEntryQueued`, `SortedInv`, and what is registered is what was promised last |

`QueuesNearlySorted` is the fact behind `RefusalsEnd`: of two items of a queue
the one in front expires less than `MaxTtl` after the one behind it.
`SortedInv` is inductive because it says also that no item expires later than
`MaxTtl` from now. An entry that a purge leaves has an item in the queue, behind
or at a front that has not expired (`WaitsBehindFront`); so its own expiry is
less than `MaxTtl` ago. The code gives no better bound: an expired
item is refused until everything in front of it has expired.

`AgentLifecycleProofs` proves, for every number of agents, levels, requests and
changes of level:

| Theorem | Property | Inductive invariant |
|---|---|---|
| `TypeCorrect` | `TypeOK` | `TypeInv`: also, a request with a call under way names an agent |
| `ReadyAgentsAreComplete` | `ReadyIsComplete` | `RowsComeFirst`: also, a row of AUT, and a call about an agent, come after the row of AIM |
| `HistoriesAccountForLevels` | `HistoryAccountsForLevel` | itself with `TypeInv` |
| `LevelsAreGranted` | `OnlyGrantedLevels` | `PromotionsComeFirst`: also, a call that updates AIM, however late, follows the event of its promotion |
| `UndisturbedLevelsAgree` | `AgreeUndisturbed` | `AllAgree`: an undisturbed agent has equal levels and no update under way, or exactly one, which brings the level of AUT |

The argument has two layers. `AutonomySteps`, `RowSteps` and `JobSteps` say what
a step can do to one agent in AUT, to one in AIM and to one request, with the
case split over the actions; the invariants follow from these three facts and
not from the actions again. `AllAgree` is the exception: it depends on
`disturbed`, and has a step per action. `OnlyGrantedLevels` alone is not
inductive because it does not speak of the calls under way, and
`AgreeUndisturbed` because it claims nothing while an update is under way.

It proves of `CredentialBroker`, for every number of agents, credentials,
requests and proofs, any skew of clocks and any size of the cache:

| Theorem | Property | Inductive invariant |
|---|---|---|
| `BrokerTypeCorrect` | `BrokerTypeOK` | `BrokerTypeInv`: also, an agent without a row has no credential, and proofs are signed by agents |
| `MintsAreForLiveCredentials` | `MintedForLiveCredential` | `CredentialsInv`: from the request to the token (`RequestSince`), what it goes by is not older than what AIM had when it was sent, and a suspended agent that became active was rotated |
| `OneTokenForEachProof` | `OneTokenPerProof` | `TokensInv`: also `NoncesHeld`, that a proof with a token, unless its nonce was evicted or lost, has its nonce kept for `NonceTtl` from that token, or that time is over |

`MintedForLiveCredential` compares the request with what was read after the
await, so it needs `Since` at both ends: from the sending to the row as it is
now, and from the sending to the row as it was read. For `OneTokenPerProof` the
actions split in two: those that mint for a proof (`MintingHolds`), which found
its nonce absent, and all others (`NoncesStayHeld`). A clean-up removes what has
expired or is counted as forgotten (`NoncesSettle`).

`GatewayProofs` proves, for every number of requests, administrators, tokens
and proofs, any clock and any outages, crashes and restarts:

| Theorem | Property | Inductive invariant |
|---|---|---|
| `TypeCorrect` | `TypeOK` | `Shape`: also, what a request carries at each step |
| `AllowsArePermitted` | `FailClosed` | `PermittedOnly`: also, the cache answers "allow" only for what the policy allowed |
| `HaltsHold` | `HaltHolds` | `HaltsMatch`: also, what is in Redis will restore what was answered; a call that runs alone has set the state it will answer |
| `TokensAreUsedOnce` | `SingleUse` | `TokensUsed`: a token that was used is registered until it expires, where the state lives |
| `RevokedStaysRevoked` | `RevokedNotAccepted` | `RevocationsKept`: the same of revocations; a warned request that got past the check carries an expired token |
| `AnswersAreRepeated` | `IdempotentAnswers` | `AnswersKept`: of a key that never overlapped, an answer is cached until its ttl is over (`Stored`), a request works on the key only while nothing is cached, and alone (`Alone`), and what is answered within the ttl of a decision repeats it (`Repeats`) |

All but the first two rest on `Home`: while nothing was disrupted, the state is
in Redis and Redis answers, or the gateway never reached Redis and did not
crash. `TokensUsed` needs that the registration lasts at least until `exp`
although its ttl is computed with an older clock than the one it is added to;
and that a DPoP proof, which is put into the same register, never shortens it.

`GovernedToolProofs`, for any number of calls, attempts and failures and
whatever the callers claim: `TypeCorrect`; `HumansApprove` (`HumanApproved`),
`TokensConfirm` (`ConfirmedBeforeRun`), `ReevaluationsDecide`
(`ReevaluationDecides`). `CallOK` says of one call which stages it has gone
through at each step, and that without an approval an escalated call never gets
past its first decision. `TicketsMatch` (a call that believes in an approval has
an approved ticket, and tickets never lose theirs), `TokensMatch` (who is past
the confirmation was accepted) and `AnswersMatch` (the gateway's answers are what the
policy may say of that context) relate the calls to the rest.

`ProducerRegistryProofs`, for any producers and any number of changes and
crashes: `TypeCorrect`; `MemoryFollowsLog` (`MemoryMatchesLog`),
`AnsweredStaysInLog` (`AckedInLog`), `StopsAreFinal`
(`StoppedProducersIgnored`). A stop is final because a replay goes by the last
entry of a producer, and behind a stop a file that parses has only stops of it
(`StopsStay`); this needs that the file holds the log and at most what a failed
write left (`FileHoldsLog`), that answers are in the file (`AckedInFile`) and
that the dictionary knows them (`StopsHeld`). `SignalsAreMonotone` is about the
gate alone: more divergence never gives a weaker signal.

`TrustKernelProofs`, for any configurations, credentials and envelopes and any
history of AIM: `TypeCorrect`; `FailuresDeny` (`FailureDenies`),
`PassesAreJustified` (`PassedIsJustified`), `WarningsAreAdded`
(`WarningsAddUp`). One invariant says of each step what the checks before it
have established (`Opened`, `Identified`, ..., `Ticketed`), and that it holds
on although the credential changes and services fail.

Of `HardenedClient` it proves, for any number of calls, attempts and failures and
any reset time: `ClientTypeCorrect`; `BreakerAlwaysKnows` and, from it, `ServiceIsLeftAlone`
(`NoCallSoonAfterFailure`). A call is let in by `state` and `openAge`, the
promise is about `failures` and the time since the last failure;
`BreakerKnows` relates them.

The assumptions are those of the constants (`LedgerConstants`,
`JsonlConstants`, `JtiStoreConstants`, `TopLevelIsNat`, `LifecycleConstants`,
`BrokerConstants`, `GatewayConstants`, `GovernedToolConstants`,
`RegistryConstants`, `KernelConstants`, `ClientConstants`), which TLC evaluates
in the runs. The one of `Gateway` that
carries weight is `ExpiryOf[j] <= Window`: a token of the broker lives at most
300 seconds, the default of the replay window. Without it a registration would
end before its token.

Every invariant and action property of the passing runs, and both refinements,
are theorems. Only model-checked are the liveness properties
(`EventuallyAnswered`, `EveryCallEnds`, `Recovers`), since liveness under
fairness is out of the prover's reach, and the two disagreements of section 5,
which are violations.

## 5. Where code and documents disagree

Each is a run in which TLC finds the quoted statement violated; `findings` in
`PROJECT.json` has the lines.

- `step_up_unlocks`: "open a blocking HIC ticket and evaluate again with
  step_up_satisfied once it is approved" (`agent.py:114`, `SECURITY.md:72`). The
  confirmation of the token is sent with the context of the first request, in
  which the approval is missing; the policy escalates it again, and the call
  that a human approved ends as escalated. The test of the step-up runs with the
  broker disabled, which is not the default.
- `registry_verify_log`: "immutable log entry", and "ok=True means no tampering
  detected" (`cir_persistent.py:81`, `:280`). A replayed producer and its entry
  share one list, so the next suspension changes the entry, and `verify_log`
  reports a mismatch on a log that nobody touched.

Noted without a run.

Evidence stores: the Python README says evicted entries are recoverable from
disk; after a partial write the next acknowledged entry stands on the line of
the failed one and cannot be parsed. In the Go store a comment says that after a
failing fsync the next append will extend the log correctly
(`jsonl.go:308`); the failed line stays and the replay refuses the file.

Gateway: a halt is said to persist in Redis; a save that fails is swallowed and
answered with 200 (`main.py:201`, `:410`). The `except` branch at `main.py:36`
refers to `self`, so a gateway that cannot fetch the broker's keys does not
start. `exp` is compared with a clock read before the awaits on Redis, so a slow
request can be accepted just after its token expired. Overlapping halts and
resumes can leave in Redis the one that is not in memory (`:415`). The gateway
reads the evidence id from a 200 and the evidence store answers 201.

AIM, AUT, creator, broker: a rotation makes a suspended agent active, and a
suspended agent can be promoted. A promotion that AUT committed and AIM did not
store cannot be repeated through the creator, because AUT refuses the target as
reached. A refused promotion leaves no event. The broker's README lists the
reuse of a nonce among what is checked; a restart forgets the nonces.

SDK, HIC, policy: `approve_ticket` reads a field `approved` of its request and
ignores it; a ticket is approved after its deadline until `check_expired` ran.
`load_credential` stores a credential before it checks it. In `main.rego` a
comment gives A0 only reads without a severity (`:122`), and every call of A0
below HIGH passes; A0 with HIGH and A1 with CRITICAL are escalated and then
denied with the approval they were asked to get.

C09: the docstring of `PersistentCIR` says that all mutations append to the log
before they update memory; `suspend` and `revoke` do it the other way round. A
suspension after a revocation leaves `suspended`. `interp.rego` lacks the checks
of expiry, calibration and signature that `gate.py` makes.

ATK and its clients: the head of the module asks for a denial when evidence
cannot be emitted; the failure to record the end of an envelope is only logged.
A failing prompt inspection raises through the ASGI application. A call that
began before the breaker opened closes it when it succeeds, where the docstring
describes one probe; a 4xx leaves it half open; the lookups make `None` of any
4xx whose text contains "404"; a POST that timed out is sent again. The clients
differ from the protocols of the kernel (names, `async`, exceptions), so
`TrustKernel` is checked over abstract services and not over `HardenedClient`.

## 6. What is not modelled

Of the modelled components: metrics, the anomaly counters, the map of token
issuers, the refresh of the JWKS by age and its lock in the gateway; the HTTP
layer of the Go store; the arithmetic of the compliance report; what the SDK
redacts, its keys for DPoP, and what it reports to BBR; the parsing of ATK's
requests; the configuration of the hardened clients and the choice between them
and those in memory; the divergence statistics, the ledger of envelopes and the
signatures of C09. BBR and the correlator are numerical or read-only. The MCP
interceptor and the Go gateway keep no state. `opa/main.rego` and `interp.rego`
are pure functions; `main.rego` is modelled as far as a call's course depends on
it. Deployment files, dashboards, examples and generated documents carry no
behaviour.

Hazards without a property, beside those that `hazards` lists with a note: two
administrators whose saves arrive in Redis in the other order
(`services/gateway/main.py:415`; `HaltHolds` leaves overlapping calls out), the
lock around the refresh of the keys (`:575`), and a request that is slow past
the expiry of its token (`:723`; `SingleUse` and `RevokedNotAccepted` speak of
tokens that are still valid).

`OneTokenPerProof` is about requests that carry one proof at once or in
succession. It does not limit what `hazards` lists without a property: a restart
of the broker or a full cache forgets a nonce whose proof is still in its time
(`services/credential-broker/main.py:190`), and by the defaults a nonce ends in the
last second of a proof from a clock that was ahead (`:237`). In each the code
accepts the proof a second time.

## 7. Plan

1. Done: the two evidence stores and their abstraction; `JtiStore`; `Gateway`;
   `AgentLifecycle` and `CredentialBroker` over `AgentIdentity`; `GovernedTool`;
   `ProducerRegistry`; `TrustKernel`; `HardenedClient`; the theorems of section 4.
2. Done: a theorem for every invariant, action property and refinement that the
   passing runs check.
3. `GovernedTool` over `Gateway` by refinement instead of by its promises: a
   mapping of a call's attempts to requests with one key.
4. The envelope ledger of C09 with its chain, beside `ProducerRegistry`; the
   hazards of section 6 that no property covers.
