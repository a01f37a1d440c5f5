--------------------------- MODULE HardenedClient ---------------------------
(***************************************************************************)
(* One of the kernel's clients of a service (runtime/hardened): concurrent *)
(* calls, each of them up to MaxRetries attempts, behind one circuit       *)
(* breaker.  The breaker's lock is never held over an await, so what it    *)
(* does is one step with the answer that causes it; a call that was let in *)
(* does not ask it again, and ends whatever the breaker has become since.  *)
(*                                                                         *)
(* The breaker compares its counter with the threshold and its age with    *)
(* the reset time only: both are counted up to there and no further.       *)
(***************************************************************************)
EXTENDS Integers

CONSTANTS
  Calls,             \* tasks that use the client
  MethodsCalled,     \* the methods of the client they call
  MaxRetries,        \* max_retries, the attempts of a call
  FailureThreshold,  \* circuit_failure_threshold
  Reset              \* circuit_reset_seconds, in ticks

\* The methods of the six clients; two of them answer None to a 404.
Methods == {"get_credential", "evaluate_bundle", "check_autonomy",
            "score_observation", "append", "get", "query_by_envelope",
            "open_ticket", "get_ticket_status"}
Lookups == {"get_credential", "get"}

ASSUME ClientConstants ==
  /\ MethodsCalled \subseteq Methods
  /\ MaxRetries \in Nat \ {0}
  /\ FailureThreshold \in Nat \ {0}
  /\ Reset \in Nat

VARIABLES
  state,      \* the breaker: CLOSED, HALF_OPEN or OPEN
  failures,   \* consecutive_failures, up to FailureThreshold
  openAge,    \* the time since opened_at, up to Reset
  phase,      \* per call: where it is, or how it ended
  attempts,   \* per call: the attempts begun
  method,     \* per call: the method called
  healthy,    \* the service answers requests
  failureAge  \* history: the time since the last call that failed, up to Reset

breaker == <<state, failures, openAge, failureAge>>
clientVars == <<state, failures, openAge, phase, attempts, method, healthy, failureAge>>

\* What a method returns or raises: its data, None, UpstreamContractError,
\* UpstreamUnavailableError, CircuitOpenError, or what nothing translates.
Results == {"data", "none", "contract", "unavailable", "refused", "escaped"}

ClientInit ==
  /\ state = "CLOSED"
  /\ failures = 0
  /\ openAge = Reset
  /\ failureAge = Reset
  /\ phase = [c \in Calls |-> "idle"]
  /\ attempts = [c \in Calls |-> 0]
  /\ method = [c \in Calls |-> CHOOSE m \in Methods : TRUE]
  /\ healthy = TRUE

AtMost(n, limit) == IF n < limit THEN n ELSE limit

(***************************************************************************)
(* before_call, and the first attempt.                                     *)
(***************************************************************************)

Begin(c, m) ==
  /\ phase[c] = "idle"
  /\ method' = [method EXCEPT ![c] = m]

Admit(c, m) ==
  /\ Begin(c, m)
  /\ state = "OPEN" => openAge >= Reset
  /\ state' = IF state = "OPEN" THEN "HALF_OPEN" ELSE state
  /\ phase' = [phase EXCEPT ![c] = "sent"]
  /\ attempts' = [attempts EXCEPT ![c] = 1]
  /\ UNCHANGED <<failures, openAge, healthy, failureAge>>

\* Mutant: a refused call starts the reset time again.
Refuse_Restarts(c, m) ==
  /\ Begin(c, m)
  /\ state = "OPEN" /\ openAge < Reset
  /\ openAge' = 0
  /\ phase' = [phase EXCEPT ![c] = "refused"]
  /\ UNCHANGED <<state, failures, attempts, healthy, failureAge>>

Refuse(c, m) ==
  /\ Begin(c, m)
  /\ state = "OPEN" /\ openAge < Reset
  /\ phase' = [phase EXCEPT ![c] = "refused"]
  /\ UNCHANGED <<breaker, attempts, healthy>>

(***************************************************************************)
(* The end of an attempt.                                                  *)
(***************************************************************************)

End(c, results) ==
  /\ phase[c] = "sent"
  /\ \E r \in results : phase' = [phase EXCEPT ![c] = r]
  /\ UNCHANGED <<attempts, method, healthy>>

\* What the methods make of a 2xx answer: its data; for a body of another
\* shape the contract error of OPA's client or what Python raises; and None
\* for an answer without a credential.
Accepted(m) ==
  {"data", "escaped"}
    \union (IF m = "evaluate_bundle" THEN {"contract"} ELSE {})
    \union (IF m = "get_credential" THEN {"none"} ELSE {})

\* A 2xx answer closes the breaker, whenever its call began.
Succeed(c) ==
  /\ healthy
  /\ End(c, Accepted(method[c]))
  /\ state' = "CLOSED"
  /\ failures' = 0
  /\ openAge' = Reset
  /\ UNCHANGED failureAge

\* A lookup turns a 404 into None, and any 4xx whose body has a "404" in it.
Refused(m) == {"contract"} \union IF m \in Lookups THEN {"none"} ELSE {}

\* A 4xx answer leaves the breaker as it is.
Reject(c) ==
  /\ healthy
  /\ End(c, Refused(method[c]))
  /\ UNCHANGED breaker

\* A 3xx answer, a body that is no JSON, or the task is cancelled: neither
\* except branch is for it, and the breaker does not hear of it.
Escape(c) ==
  /\ \/ End(c, {"escaped"})
     \/ /\ phase[c] = "sleeping"
        /\ phase' = [phase EXCEPT ![c] = "escaped"]
        /\ UNCHANGED <<attempts, method, healthy>>
  /\ UNCHANGED breaker

\* A 5xx answer, no connection or a timeout, with attempts left.
FailAttempt(c) ==
  /\ ~healthy
  /\ phase[c] = "sent"
  /\ attempts[c] < MaxRetries
  /\ phase' = [phase EXCEPT ![c] = "sleeping"]
  /\ UNCHANGED <<breaker, attempts, method, healthy>>

Retry(c) ==
  /\ phase[c] = "sleeping"
  /\ phase' = [phase EXCEPT ![c] = "sent"]
  /\ attempts' = [attempts EXCEPT ![c] = @ + 1]
  /\ UNCHANGED <<breaker, method, healthy>>

\* Mutant: the time of opening is that of the first failure only.
OnFailure_FirstOnly ==
  /\ failures' = AtMost(failures + 1, FailureThreshold)
  /\ IF state = "CLOSED" /\ failures + 1 < FailureThreshold
       THEN UNCHANGED <<state, openAge>>
       ELSE /\ state' = "OPEN"
            /\ openAge' = IF state = "OPEN" THEN openAge ELSE 0

\* on_failure: a failure that comes when the breaker is open already starts
\* the reset time again.
OnFailure ==
  /\ failures' = AtMost(failures + 1, FailureThreshold)
  /\ IF state = "HALF_OPEN" \/ failures + 1 >= FailureThreshold
       THEN state' = "OPEN" /\ openAge' = 0
       ELSE UNCHANGED <<state, openAge>>

\* The last attempt failed, or one that is not retried (a broken protocol).
Fail(c) ==
  /\ ~healthy
  /\ End(c, {"unavailable"})
  /\ OnFailure
  /\ failureAge' = 0

\* The caller has the result, and may call again.
Return(c) ==
  /\ phase[c] \in Results
  /\ phase' = [phase EXCEPT ![c] = "idle"]
  /\ attempts' = [attempts EXCEPT ![c] = 0]
  /\ UNCHANGED <<breaker, method, healthy>>

(***************************************************************************)
(* The environment.                                                        *)
(***************************************************************************)

Tick ==
  /\ openAge' = AtMost(openAge + 1, Reset)
  /\ failureAge' = AtMost(failureAge + 1, Reset)
  /\ UNCHANGED <<state, failures, phase, attempts, method, healthy>>

ServiceFailsOrRecovers ==
  /\ healthy' = ~healthy
  /\ UNCHANGED <<breaker, phase, attempts, method>>

Answer(c) == Succeed(c) \/ Reject(c) \/ FailAttempt(c) \/ Fail(c)

ClientNext ==
  \/ \E c \in Calls, m \in MethodsCalled : Admit(c, m) \/ Refuse(c, m)
  \/ \E c \in Calls :
       Succeed(c) \/ Reject(c) \/ Escape(c) \/ FailAttempt(c) \/ Retry(c)
         \/ Fail(c) \/ Return(c)
  \/ Tick
  \/ ServiceFailsOrRecovers

ClientSpec == ClientInit /\ [][ClientNext]_clientVars

\* Every attempt has a timeout, every wait between attempts an end, and time
\* passes.  Nothing makes callers call, or the service recover.
FairClientSpec ==
  /\ ClientSpec
  /\ \A c \in Calls : WF_clientVars(Answer(c)) /\ WF_clientVars(Retry(c)) /\ WF_clientVars(Return(c))
  /\ WF_clientVars(Tick)

-----------------------------------------------------------------------------
(***************************************************************************)
(* Properties.                                                             *)
(***************************************************************************)

\* Every variable keeps its shape.
ClientTypeOK ==
  /\ state \in {"CLOSED", "HALF_OPEN", "OPEN"}
  /\ failures \in 0 .. FailureThreshold
  /\ openAge \in 0 .. Reset
  /\ failureAge \in 0 .. Reset
  /\ phase \in [Calls -> {"idle", "sent", "sleeping"} \union Results]
  /\ attempts \in [Calls -> 0 .. MaxRetries]
  /\ method \in [Calls -> Methods]
  /\ healthy \in BOOLEAN

\* The breaker protects the service: once FailureThreshold calls failed
\* without one that succeeded, no call is let in before the reset time has
\* passed since the last failure, whichever calls were under way when it
\* opened and however many probe it at once.
NoCallSoonAfterFailure ==
  [][\A c \in Calls :
       (phase[c] = "idle" /\ phase'[c] = "sent" /\ failures = FailureThreshold)
         => failureAge = Reset]_clientVars

\* A closed breaker has not missed a failure: with FailureThreshold of them
\* in a row it is open, or half open after the reset time and nothing failed yet.
BreakerKnows ==
  /\ failures = FailureThreshold <=> state # "CLOSED"
  /\ state = "HALF_OPEN" => failureAge = Reset
  /\ state = "OPEN" => openAge = failureAge

\* The breaker does not outlive the outage: when the service stays healthy
\* and calls keep coming, however often they are refused, a time comes from
\* which none is refused.
Traffic == \E c \in Calls : phase[c] # "idle"
Recovers == (<>[]healthy /\ []<>Traffic) => <>[](state # "OPEN")

=============================================================================
