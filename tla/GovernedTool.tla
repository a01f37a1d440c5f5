---------------------------- MODULE GovernedTool ----------------------------
(***************************************************************************)
(* The calls of a governed agent (sdk/python/arhiax): a tool, a model, an  *)
(* access to data or another agent.  A call asks the gateway, waits for a  *)
(* human when the gateway escalates, asks again, fetches a token from the  *)
(* broker, has the gateway confirm it, and runs.                           *)
(*                                                                         *)
(* The calls of one agent are coroutines that share the circuit breaker of *)
(* its gateway client; each action is the code between two awaits.  The    *)
(* tickets are the table of services/hic-service.  The gateway is taken    *)
(* for what Gateway promises, one use per token, and for the policy of     *)
(* runtime/bundles/main.rego; that an answer is repeated for as long as it *)
(* is cached is not relied on.                                             *)
(***************************************************************************)
EXTENDS Naturals, FiniteSets

CONSTANTS
  Calls,        \* calls, each made once, with an invocationId of its own
  InputsOf,     \* call -> what it may ask for, a set of Input
  MaxRetries,   \* attempts of GatewayClient.decide
  Threshold,    \* failures that open the breaker
  None

Kinds == {"tool", "model", "data", "agent"}
Severities == {"MEDIUM", "HIGH", "CRITICAL"}
Levels == {"A0", "A1", "A2", "A3", "A4"}
Flags == {"step_up_satisfied", "dual_approval_ticket_id"}
\* flags: what the caller itself claims in its arguments
Input == [kind : Kinds, severity : Severities, level : Levels, flags : SUBSET Flags]

Allows == {"ALLOW", "ALLOW_WITH_HIC_NOTIFICATION"}
\* "DENY" stands for DENY_WITH_INCIDENT too: both end the call.
Outcomes == Allows \union {"DENY", "ESCALATE_TO_HUMAN"}
Resolved == {"APPROVED", "REJECTED", "SLA_EXPIRED"}
Ticket == [status : {"PENDING"} \union Resolved, late : BOOLEAN]
Ends == {"returned", "raised", "refused", "unavailable", "denied", "escalated"}

ASSUME GovernedToolConstants ==
  /\ InputsOf \in [Calls -> SUBSET Input]
  /\ MaxRetries \in Nat \ {0}
  /\ Threshold \in Nat \ {0}
  /\ None \notin Outcomes \union Resolved \union Ends \union Ticket

VARIABLES
  profile,     \* the security profile of the agent
  credential,  \* self.credential
  call,        \* the calls
  answers,     \* what the gateway decided, by call and context (its cache)
  accepted,    \* the calls whose token the gateway accepted
  breaker,     \* _CircuitBreaker
  tickets      \* the tickets of HIC, by call and purpose

vars == <<profile, credential, call, answers, accepted, breaker, tickets>>

Profile == [broker : BOOLEAN, stepUp : BOOLEAN]
Credentials == {"none", "valid", "expired"}
Steps == {"free", "deciding", "opening", "polling", "issuing", "notifying", "running", "done"}
Stages == {"initial", "reevaluation", "confirmation"}
Results == Ends \union {None}
\* pending: the attempts that the gateway has not handled; status: what HIC
\* said of the ticket of this call
Call == [pc : Steps, input : Input \union {None}, stage : Stages, attempt : 0..MaxRetries,
         pending : SUBSET (1..MaxRetries),
         reply : Outcomes \union {None}, status : {"APPROVED", "REJECTED", "SLA_EXPIRED", None},
         ran : BOOLEAN, result : Results]
Purposes == {"stepUp", "notice"}

NoCall == [pc |-> "free", input |-> None, stage |-> "initial", attempt |-> 0, pending |-> {},
           reply |-> None, status |-> None, ran |-> FALSE, result |-> None]

Init ==
  /\ profile \in Profile
  /\ credential = "none"
  /\ call = [c \in Calls |-> NoCall]
  /\ answers = {}
  /\ accepted = {}
  /\ breaker = [failures |-> 0, state |-> "closed"]
  /\ tickets = [t \in Calls \X Purposes |-> None]

-----------------------------------------------------------------------------
(***************************************************************************)
(* The policy: autonomy, severity and approvals (its other gates deny).    *)
(***************************************************************************)

AutonomyPermits(input, flags) ==
  \/ input.level = "A4"
  \/ input.level = "A3" /\ input.severity # "CRITICAL"
  \/ input.level \in {"A1", "A2"} /\ input.severity = "HIGH" /\ "step_up_satisfied" \in flags
  \/ input.level = "A2" /\ input.severity = "CRITICAL" /\ flags = Flags
  \/ input.severity = "MEDIUM"

Policy(input, flags) ==
  CASE AutonomyPermits(input, flags) ->
         IF input.severity = "HIGH" THEN "ALLOW_WITH_HIC_NOTIFICATION" ELSE "ALLOW"
    [] /\ ~AutonomyPermits(input, flags)
       /\ \/ input.severity = "CRITICAL" /\ "dual_approval_ticket_id" \notin flags
          \/ input.severity = "HIGH" /\ "step_up_satisfied" \notin flags -> "ESCALATE_TO_HUMAN"
    [] OTHER -> "DENY"

(***************************************************************************)
(* _CircuitBreaker.  "lapsed": open, and the recovery time is over.        *)
(***************************************************************************)

FailureRecorded(b) ==
  LET failures == IF b.failures < Threshold THEN b.failures + 1 ELSE Threshold
  IN [failures |-> failures, state |-> IF failures = Threshold THEN "open" ELSE b.state]

SuccessRecorded == [failures |-> 0, state |-> "closed"]

RecoveryElapses ==
  /\ breaker.state = "open"
  /\ breaker' = [breaker EXCEPT !.state = "lapsed"]
  /\ UNCHANGED <<profile, credential, call, answers, accepted, tickets>>

(***************************************************************************)
(* Calls.                                                                  *)
(***************************************************************************)

At(c, step) == call[c].pc = step
\* What the gateway still decides for a call that ended is read by nobody.
Ended(c, result) ==
  [c EXCEPT !.pc = "done", !.attempt = 0, !.pending = {}, !.reply = None, !.result = result]
End(c, result) == call' = [call EXCEPT ![c] = Ended(@, result)]

\* The context of a request: the flags of the caller, and the approvals of
\* the ticket in the reevaluation.
Context(c, stage) ==
  LET input == call[c].input IN
  input.flags \union
    CASE stage # "reevaluation" -> {}
      [] stage = "reevaluation" /\ input.severity = "CRITICAL" -> Flags
      [] OTHER -> {"step_up_satisfied"}

\* GatewayClient.decide, up to its first await: the request of the call as
\* given is sent, or the breaker refuses it.
Decide(c, as) ==
  IF breaker.state = "open"
    THEN /\ call' = [call EXCEPT ![c] = Ended(as, "unavailable")]
         /\ UNCHANGED breaker
    ELSE /\ call' = [call EXCEPT ![c] =
                       [as EXCEPT !.pc = "deciding", !.attempt = 1, !.pending = {1}, !.reply = None]]
         /\ breaker' = IF breaker.state = "lapsed" THEN SuccessRecorded ELSE breaker

\* Only a model looks at the expiry of the credential, and only now.
HasExpired(input) == input.kind = "model" /\ credential = "expired"

\* A tool that the credential does not list, and a model with a credential
\* that expired, are refused.
Begin(c, input) ==
  /\ At(c, "free")
  /\ \/ /\ HasExpired(input) \/ (input.kind = "tool" /\ credential # "none")
        /\ End(c, "refused")
        /\ UNCHANGED breaker
     \/ /\ ~HasExpired(input)
        /\ Decide(c, [NoCall EXCEPT !.input = input])
  /\ UNCHANGED <<profile, credential, answers, accepted, tickets>>

\* Where an allowed call goes on: a tool and another agent want a token and
\* its confirmation if the profile says so; a tool and a model run; access to
\* data and another agent are left to the caller.
WantsToken(c) == profile.broker /\ c.stage # "confirmation"
ToolAllowed(c) == [c EXCEPT !.pc = IF WantsToken(c) THEN "issuing" ELSE "running"]
ModelAllowed(c, outcome) ==
  [c EXCEPT !.pc = IF outcome = "ALLOW" THEN "running" ELSE "notifying"]
DataAllowed(c) == Ended(c, "returned")
AgentAllowed(c) ==
  IF WantsToken(c) THEN [c EXCEPT !.pc = "issuing"] ELSE Ended(c, "returned")

\* _handle_decision.
Handled(c, outcome) ==
  CASE outcome = "DENY" -> Ended(c, "denied")
    [] outcome = "ESCALATE_TO_HUMAN" -> Ended(c, "escalated")
    [] outcome \in Allows /\ c.input.kind = "tool" -> ToolAllowed(c)
    [] outcome \in Allows /\ c.input.kind = "model" -> ModelAllowed(c, outcome)
    [] outcome \in Allows /\ c.input.kind = "data" -> DataAllowed(c)
    [] outcome \in Allows /\ c.input.kind = "agent" -> AgentAllowed(c)

\* The answer arrives.  An escalation of the first decision goes to HIC.
Receive(c) ==
  LET k == call[c] IN
  /\ At(c, "deciding")
  /\ k.reply # None
  /\ breaker' = SuccessRecorded
  /\ call' = [call EXCEPT ![c] =
       IF /\ k.reply = "ESCALATE_TO_HUMAN" /\ profile.stepUp
          /\ k.stage = "initial" /\ k.input.kind # "data"
         THEN [k EXCEPT !.pc = "opening"]
         ELSE Handled(k, k.reply)]
  /\ UNCHANGED <<profile, credential, answers, accepted, tickets>>

\* A timeout: tried again with the same key, whatever the breaker says now.
TimeOut(c) ==
  LET k == call[c] IN
  /\ At(c, "deciding")
  /\ breaker' = FailureRecorded(breaker)
  /\ IF k.attempt < MaxRetries
       THEN call' = [call EXCEPT ![c] = [k EXCEPT !.attempt = k.attempt + 1, !.reply = None,
                                                  !.pending = k.pending \union {k.attempt + 1}]]
       ELSE End(c, "unavailable")
  /\ UNCHANGED <<profile, credential, answers, accepted, tickets>>

\* Another failure ends the call: no connection, or an answer that is not
\* JSON, which is a success for the breaker and then a failure.
Break(c) ==
  /\ At(c, "deciding")
  /\ \/ breaker' = FailureRecorded(breaker)
     \/ breaker' = FailureRecorded(SuccessRecorded)
  /\ End(c, "unavailable")
  /\ UNCHANGED <<profile, credential, answers, accepted, tickets>>

\* HIC creates the ticket of a call.
NewTicket(c, purpose) ==
  [tickets EXCEPT ![<<c, purpose>>] = [status |-> "PENDING", late |-> FALSE]]

OpenTicket(c) ==
  /\ At(c, "opening")
  /\ tickets' = NewTicket(c, "stepUp")
  /\ call' = [call EXCEPT ![c].pc = "polling"]
  /\ UNCHANGED <<profile, credential, answers, accepted, breaker>>

\* HICClient.open_ticket: whatever fails, the ticket is then "" and the call
\* ends with the escalation, although HIC may have stored the ticket.
OpenFails(c) ==
  /\ At(c, "opening")
  /\ tickets' \in {tickets, NewTicket(c, "stepUp")}
  /\ End(c, "escalated")
  /\ UNCHANGED <<profile, credential, answers, accepted, breaker>>

Unapproved(c, status) ==
  /\ call' = [call EXCEPT ![c] = [Ended(@, "escalated") EXCEPT !.status = status]]
  /\ UNCHANGED breaker

\* Mutant: every ticket that was closed and not rejected is an approval.
ReadResolution_NotRejected(c) ==
  LET status == tickets[<<c, "stepUp">>].status IN
  /\ At(c, "polling")
  /\ status \in Resolved
  /\ IF status # "REJECTED"
       THEN Decide(c, [call[c] EXCEPT !.stage = "reevaluation", !.status = status])
       ELSE Unapproved(c, status)
  /\ UNCHANGED <<profile, credential, answers, accepted, tickets>>

\* Mutant: the approved call asks again with the context it had.
ReadResolution_SameContext(c) ==
  LET status == tickets[<<c, "stepUp">>].status IN
  /\ At(c, "polling")
  /\ status \in Resolved
  /\ IF status = "APPROVED"
       THEN Decide(c, [call[c] EXCEPT !.status = status])
       ELSE Unapproved(c, status)
  /\ UNCHANGED <<profile, credential, answers, accepted, tickets>>

\* A poll that finds the ticket resolved; one that fails, or finds it
\* pending, changes nothing.
ReadResolution(c) ==
  LET status == tickets[<<c, "stepUp">>].status IN
  /\ At(c, "polling")
  /\ status \in Resolved
  /\ IF status = "APPROVED"
       THEN Decide(c, [call[c] EXCEPT !.stage = "reevaluation", !.status = status])
       ELSE Unapproved(c, status)
  /\ UNCHANGED <<profile, credential, answers, accepted, tickets>>

\* Mutant: the agent polls until HIC has closed the ticket.
StopPolling_Never(c) ==
  /\ At(c, "polling")
  /\ tickets[<<c, "stepUp">>].status = "SLA_EXPIRED"
  /\ Unapproved(c, None)
  /\ UNCHANGED <<profile, credential, answers, accepted, tickets>>

\* hic_poll_timeout_seconds: the ticket stays open.
StopPolling(c) ==
  /\ At(c, "polling")
  /\ Unapproved(c, None)
  /\ UNCHANGED <<profile, credential, answers, accepted, tickets>>

\* The audience is not among those of the profile, or the broker's token
\* comes and the confirmation that carries it goes.
IssueToken(c) ==
  /\ At(c, "issuing")
  /\ \/ /\ call[c].input.kind = "tool"
        /\ End(c, "denied")
        /\ UNCHANGED breaker
     \/ Decide(c, [call[c] EXCEPT !.stage = "confirmation"])
  /\ UNCHANGED <<profile, credential, answers, accepted, tickets>>

\* Mutant: a broker that does not answer does not stop the tool.
IssueFails_FailOpen(c) ==
  /\ At(c, "issuing")
  /\ call' = [call EXCEPT ![c].pc = "running"]
  /\ UNCHANGED <<profile, credential, answers, accepted, breaker, tickets>>

\* The broker refuses or does not answer.
IssueFails(c) ==
  /\ At(c, "issuing")
  /\ End(c, "unavailable")
  /\ UNCHANGED <<profile, credential, answers, accepted, breaker, tickets>>

\* invoke_model tells HIC of an invocation with impact, and does not wait.
Notify(c) ==
  /\ At(c, "notifying")
  /\ tickets' \in {tickets, NewTicket(c, "notice")}
  /\ call' = [call EXCEPT ![c].pc = "running"]
  /\ UNCHANGED <<profile, credential, answers, accepted, breaker>>

\* The tool or the model runs.  What BBR is told of it is lost when it fails.
Run(c) ==
  /\ At(c, "running")
  /\ \E result \in {"returned", "raised"} :
       call' = [call EXCEPT ![c] = [Ended(@, result) EXCEPT !.ran = TRUE]]
  /\ UNCHANGED <<profile, credential, answers, accepted, breaker, tickets>>

\* load_credential, at start-up, stores what AIM answers, and then raises if it is not
\* active or has expired: the credential stays, and only its expiry is ever
\* looked at again.
LoadCredential ==
  /\ \A c \in Calls : At(c, "free")
  /\ credential' \in {"valid", "expired"}
  /\ UNCHANGED <<profile, call, answers, accepted, breaker, tickets>>

CredentialExpires ==
  /\ credential = "valid"
  /\ credential' = "expired"
  /\ UNCHANGED <<profile, call, answers, accepted, breaker, tickets>>

-----------------------------------------------------------------------------
(***************************************************************************)
(* The gateway handles a request, perhaps long after its client gave up.   *)
(***************************************************************************)

Answered(c, n, outcome) ==
  /\ call' = [call EXCEPT ![c] =
       [call[c] EXCEPT !.pending = call[c].pending \ {n},
                       !.reply = IF n = call[c].attempt THEN outcome ELSE call[c].reply]]
  /\ UNCHANGED <<profile, credential, breaker, tickets>>

Sent(c) == Context(c, call[c].stage)
Decided(c) == {a \in answers : a.call = c /\ a.context = Sent(c)}
Evaluations(c) == {Policy(call[c].input, Sent(c)), "DENY"}

\* A request without a token: the answer of an earlier attempt, a new one (no
\* attempt was decided yet, or its answer has expired or was lost), or an
\* error, which reads as a denial and is not kept.
HandlePlain(c, n) ==
  /\ call[c].stage # "confirmation"
  /\ \/ \E a \in Decided(c) : Answered(c, n, a.outcome) /\ UNCHANGED answers
     \/ \E outcome \in Evaluations(c) :
          /\ Answered(c, n, outcome)
          /\ answers' = (answers \ Decided(c)) \union
               {[call |-> c, context |-> Sent(c), outcome |-> outcome]}
     \/ Answered(c, n, "DENY") /\ UNCHANGED answers
  /\ UNCHANGED accepted

\* A request with a token: it is used up before the policy is asked, and an
\* attempt that comes later is a replay.
HandleConfirmation(c, n) ==
  /\ call[c].stage = "confirmation"
  /\ \/ Answered(c, n, "DENY") /\ UNCHANGED accepted
     \/ /\ c \notin accepted
        /\ accepted' = accepted \union {c}
        /\ \E outcome \in Evaluations(c) : Answered(c, n, outcome)
  /\ UNCHANGED answers

(***************************************************************************)
(* HIC.                                                                    *)
(***************************************************************************)

Resolve(t, status) ==
  /\ tickets[t] # None
  /\ tickets[t].status = "PENDING"
  /\ tickets' = [tickets EXCEPT ![t].status = status]
  /\ UNCHANGED <<profile, credential, call, answers, accepted, breaker>>

\* A reviewer; the deadline is not looked at.
Approve(t) == Resolve(t, "APPROVED")
Reject(t) == Resolve(t, "REJECTED")

\* The deadline of a ticket that is open passes.
DeadlinePasses(t) ==
  /\ tickets[t] = [status |-> "PENDING", late |-> FALSE]
  /\ tickets' = [tickets EXCEPT ![t].late = TRUE]
  /\ UNCHANGED <<profile, credential, call, answers, accepted, breaker>>

\* GET /v1/tickets/expired/check, called by somebody: nothing else expires.
CheckExpired ==
  LET due == {t \in DOMAIN tickets :
                tickets[t] # None /\ tickets[t].status = "PENDING" /\ tickets[t].late} IN
  /\ due # {}
  /\ tickets' = [t \in DOMAIN tickets |->
       IF t \in due THEN [tickets[t] EXCEPT !.status = "SLA_EXPIRED"] ELSE tickets[t]]
  /\ UNCHANGED <<profile, credential, call, answers, accepted, breaker>>

-----------------------------------------------------------------------------
\* What a call does by itself once it has begun.
Proceed(c) ==
  \/ Receive(c) \/ TimeOut(c) \/ Break(c) \/ OpenTicket(c) \/ OpenFails(c)
  \/ ReadResolution(c) \/ StopPolling(c) \/ IssueToken(c) \/ IssueFails(c)
  \/ Notify(c) \/ Run(c)

Idle == UNCHANGED vars /\ \A c \in Calls : At(c, "done")

Next ==
  \/ \E c \in Calls :
       \/ Proceed(c)
       \/ \E input \in InputsOf[c] : Begin(c, input)
       \/ \E n \in call[c].pending : HandlePlain(c, n) \/ HandleConfirmation(c, n)
  \/ \E t \in DOMAIN tickets : Approve(t) \/ Reject(t) \/ DeadlinePasses(t)
  \/ CheckExpired \/ RecoveryElapses \/ LoadCredential \/ CredentialExpires \/ Idle

\* Each await of a call has a timeout, of httpx or of the polling; the tool
\* itself is taken to return.
Spec == Init /\ [][Next]_vars
FairSpec == Spec /\ \A c \in Calls : WF_vars(Proceed(c))

-----------------------------------------------------------------------------
(***************************************************************************)
(* Properties.                                                             *)
(***************************************************************************)

\* Every variable keeps its shape.
TypeOK ==
  /\ profile \in Profile
  /\ credential \in Credentials
  /\ call \in [Calls -> Call]
  /\ answers \subseteq [call : Calls, context : SUBSET Flags, outcome : Outcomes]
  /\ accepted \subseteq Calls
  /\ breaker \in [failures : 0..Threshold, state : {"closed", "open", "lapsed"}]
  /\ tickets \in [Calls \X Purposes -> Ticket \union {None}]

\* A call that the policy escalates, and whose caller claims no approval, has
\* run only if a human approved its ticket; the ticket then stays approved,
\* whatever reviewers and the check of the deadlines do around it.
HumanApproved ==
  \A c \in Calls :
    (call[c].ran /\ Policy(call[c].input, call[c].input.flags) = "ESCALATE_TO_HUMAN") =>
      /\ tickets[<<c, "stepUp">>] # None
      /\ tickets[<<c, "stepUp">>].status = "APPROVED"

\* With the broker enforced a tool has run only if the gateway accepted the
\* token of this very call, also when decisions time out and are repeated.
ConfirmedBeforeRun ==
  \A c \in Calls :
    (profile.broker /\ call[c].ran /\ call[c].input.kind = "tool") => c \in accepted

\* An approved call is decided on its approval: the reevaluation never ends
\* in another escalation, by the policy or by an answer kept from before.
ReevaluationDecides ==
  \A c \in Calls :
    (call[c].status = "APPROVED" /\ call[c].stage # "confirmation") =>
      call[c].result # "escalated"

\* Every call that began ends, although no reviewer looks at its ticket, the
\* gateway does not answer and nobody checks the deadlines.
EveryCallEnds == \A c \in Calls : ~At(c, "free") ~> At(c, "done")

\* sdk/python/README.md and SECURITY.md: once the ticket is approved, the
\* call is decided again with step_up_satisfied.  No approved call ends as
\* one that waits for a human.
ApprovalUnlocks ==
  \A c \in Calls : call[c].status = "APPROVED" => call[c].result # "escalated"
=============================================================================
