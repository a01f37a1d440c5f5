---------------------------- MODULE TrustKernel ----------------------------
(***************************************************************************)
(* The Agent Trust Kernel (runtime/atk/arhiax_atk_service.py): the five    *)
(* checks of an envelope, in their order, over six services each of which  *)
(* can be unavailable at any call or answer too late, while the agent's    *)
(* credential changes.  One envelope is evaluated at a time: the ASGI      *)
(* application calls evaluate_envelope without an await.  Nothing is kept  *)
(* between envelopes but what the services keep: the entries of EGA and    *)
(* the tickets of HIC.                                                     *)
(***************************************************************************)
EXTENDS Integers

CONSTANTS
  Configs,       \* ATKConfig: the bundles asked, and bbr_soft_failure
  Credentials,   \* what AIM may hold for the agent
  Envelopes,     \* the requests that may come
  MaxEnvelopes,  \* bound of the model: envelopes received
  MaxChanges     \* bound of the model: changes of the credential

Operations == {"modelInvoke", "toolCall", "dataAccess", "interAgentCall"}
Levels == 0 .. 4   \* A0 .. A4

\* allowed: the operations and the tools, data scopes or boundary that the
\* credential lists; complete: none of its required fields is empty and it is
\* that of the agent.  A deviation counts in halves of sigma.
Config == [runtime : SUBSET {"B05", "B14", "B16"}, prompt : SUBSET {"B05"},
           soft : BOOLEAN]
Credential == [lifecycle : {"ACTIVE", "SUSPENDED", "absent"}, level : Levels,
               complete : BOOLEAN, allowed : SUBSET (Operations \X {"own", "other"})]
Envelope == [operation : Operations, target : {"own", "other"}, level : Levels,
             injected : BOOLEAN, deep : BOOLEAN, impact : BOOLEAN, deviation : Nat]

ASSUME KernelConstants ==
  /\ Configs \subseteq Config
  /\ Credentials \subseteq Credential
  /\ Envelopes \subseteq Envelope
  /\ Envelopes # {}
  /\ MaxEnvelopes \in Nat
  /\ MaxChanges \in Nat

VARIABLES
  config,     \* the configuration of the running service
  pc,         \* the step of evaluate_envelope that comes next
  decision,   \* the decision being made, counted from 1
  envelope,   \* the envelope being evaluated
  credential, \* what AIM answered
  deviation,  \* the baseline deviation, or -1 when the check was skipped
  outcome,    \* the outcome, once it is known
  aim,        \* AIM: the credential of the agent
  ledger,     \* EGA: the events recorded of each decision
  tickets,    \* HIC: the tickets opened for each decision
  changes,    \* how often the credential changed
  seen,       \* history: the credentials AIM held since the envelope came
  failed      \* history: the services that failed before the outcome

kernel == <<config, envelope, credential, deviation>>
vars == <<config, pc, decision, envelope, credential, deviation, outcome, aim,
          ledger, tickets, changes, seen, failed>>

\* The outcomes that are no denial.
Passing == {"ALLOW", "ALLOW_WITH_MONITORING", "ALLOW_WITH_HIC_NOTIFICATION",
               "ESCALATE_TO_HUMAN"}
Ladder == <<"ALLOW", "ALLOW_WITH_MONITORING", "ALLOW_WITH_HIC_NOTIFICATION",
            "ESCALATE_TO_HUMAN">>

Init ==
  /\ config \in Configs
  /\ pc = "down"
  /\ decision = 0
  /\ envelope = CHOOSE e \in Envelopes : TRUE
  /\ aim \in Credentials
  /\ credential = aim
  /\ deviation = 0
  /\ outcome = "none"
  /\ ledger = {}
  /\ tickets = {}
  /\ changes = 0
  /\ seen = {}
  /\ failed = {}

With(event) == ledger \union {[decision |-> decision, event |-> event]}

\* __init__: the attestation is best effort.
Start ==
  /\ pc = "down"
  /\ pc' = "idle"
  /\ ledger' \in {ledger, ledger \union {[decision |-> 0, event |-> "configReload"]}}
  /\ UNCHANGED <<kernel, decision, outcome, aim, tickets, changes, seen, failed>>

Receive(e) ==
  /\ pc = "idle"
  /\ decision < MaxEnvelopes
  /\ decision' = decision + 1
  /\ envelope' = e
  /\ outcome' = "none"
  /\ seen' = {aim}
  /\ failed' = {}
  /\ pc' = "opening"
  /\ UNCHANGED <<config, credential, deviation, aim, ledger, tickets, changes>>

\* An outcome is reached and _finalize comes next.
Conclude(o) ==
  /\ outcome' = o
  /\ pc' = "closing"

\* _hard_deny: a service raised DependencyUnavailable.
HardDeny(service) ==
  /\ Conclude("DENY")
  /\ failed' = failed \union {service}
  /\ UNCHANGED <<kernel, decision, aim, changes, seen>>

\* Where an event is recorded, which, and what comes next.
Emissions == {<<"opening", "envelopeStart", "identity">>,
              <<"identified", "identityResolved", "policy">>,
              <<"measured", "baselineDeviation", "autonomy">>}

Emit(e) ==
  /\ pc = e[1]
  /\ ledger' = With(e[2])
  /\ pc' = e[3]
  /\ UNCHANGED <<kernel, decision, outcome, aim, tickets, changes, seen, failed>>

\* EGA is down, or has recorded the event and its answer is lost.
EmitFails(e) ==
  /\ pc = e[1]
  /\ ledger' \in {ledger, With(e[2])}
  /\ HardDeny("EGA")
  /\ UNCHANGED tickets

(***************************************************************************)
(* Check 1, identity.                                                      *)
(***************************************************************************)

\* Mutant: the credential of the last envelope is used again.
ResolveIdentity_Cached ==
  /\ pc = "identity"
  /\ credential' = IF decision > 1 THEN credential ELSE aim
  /\ IF credential'.lifecycle = "ACTIVE"
       THEN pc' = "identified" /\ UNCHANGED outcome
       ELSE Conclude("DENY")
  /\ UNCHANGED <<config, decision, envelope, deviation, aim, ledger, tickets,
                 changes, seen, failed>>

ResolveIdentity ==
  /\ pc = "identity"
  /\ credential' = aim
  /\ \/ /\ aim.lifecycle = "ACTIVE"
        /\ pc' = "identified"
        /\ UNCHANGED outcome
     \/ /\ aim.lifecycle # "ACTIVE"
        /\ Conclude("DENY")
  /\ UNCHANGED <<config, decision, envelope, deviation, aim, ledger, tickets,
                 changes, seen, failed>>

ResolveFails ==
  /\ pc = "identity"
  /\ HardDeny("AIM")
  /\ UNCHANGED <<ledger, tickets>>

(***************************************************************************)
(* Checks 2 and 3, policies and prompt.                                    *)
(***************************************************************************)

\* What each bundle denies; the bundles without rules deny nothing, and B06
\* looks at the output of a model, which an envelope does not have yet.
B14(e, c) == c.lifecycle # "ACTIVE" \/ e.level > c.level \/ ~c.complete
B16(e, c) == <<e.operation, e.target>> \notin c.allowed \/ e.deep
B05(e) == e.injected
Denies(bundles, e, c) ==
  \/ "B14" \in bundles /\ B14(e, c)
  \/ "B16" \in bundles /\ B16(e, c)
  \/ "B05" \in bundles /\ B05(e)

EvaluatePolicies ==
  /\ pc = "policy"
  /\ pc' = IF Denies(config.runtime, envelope, credential) THEN "denied"
           ELSE IF envelope.operation = "modelInvoke" THEN "prompt"
           ELSE "baseline"
  /\ UNCHANGED <<kernel, decision, outcome, aim, ledger, tickets, changes, seen, failed>>

PoliciesFail ==
  /\ pc = "policy"
  /\ HardDeny("OPA")
  /\ UNCHANGED <<ledger, tickets>>

\* The denial is recorded if it can be.
DenyByPolicy ==
  /\ pc = "denied"
  /\ ledger' \in {ledger, With("policyDeny")}
  /\ Conclude("DENY")
  /\ UNCHANGED <<kernel, decision, aim, tickets, changes, seen, failed>>

InspectPrompt ==
  /\ pc = "prompt"
  /\ \/ /\ Denies(config.prompt, envelope, credential)
        /\ Conclude("DENY_WITH_INCIDENT")
     \/ /\ ~Denies(config.prompt, envelope, credential)
        /\ pc' = "baseline"
        /\ UNCHANGED outcome
  /\ UNCHANGED <<kernel, decision, aim, ledger, tickets, changes, seen, failed>>

\* Nobody catches this failure: the caller gets the server's 500, and the
\* envelope has no end in the ledger.
InspectFails ==
  /\ pc = "prompt"
  /\ outcome' = "error"
  /\ failed' = failed \union {"OPA"}
  /\ pc' = "idle"
  /\ UNCHANGED <<kernel, decision, aim, ledger, tickets, changes, seen>>

(***************************************************************************)
(* Checks 4 and 5, baseline and autonomy.                                  *)
(***************************************************************************)

MeasureDeviation ==
  /\ pc = "baseline"
  /\ deviation' = envelope.deviation
  /\ pc' = "measured"
  /\ UNCHANGED <<config, decision, envelope, credential, outcome, aim, ledger,
                 tickets, changes, seen, failed>>

SkipBaseline ==
  /\ pc = "baseline"
  /\ config.soft
  /\ deviation' = -1
  /\ pc' = "measured"
  /\ UNCHANGED <<config, decision, envelope, credential, outcome, aim, ledger,
                 tickets, changes, seen, failed>>

BaselineFails ==
  /\ pc = "baseline"
  /\ ~config.soft
  /\ HardDeny("BBR")
  /\ UNCHANGED <<ledger, tickets>>

\* 1.5 sigma at A0 and half a sigma more at each level.
Threshold(level) == 3 + level
Exceeded == deviation > Threshold(credential.level)
HighImpact == envelope.operation = "toolCall" /\ envelope.impact

EscalateOneTier(o) ==
  LET i == CHOOSE n \in 1 .. 4 : Ladder[n] = o IN Ladder[IF i = 4 THEN 4 ELSE i + 1]

\* Mutant: the deviation is looked at first, and high impact replaces it.
FinalOutcome_EscalatesFirst ==
  IF HighImpact THEN "ALLOW_WITH_HIC_NOTIFICATION"
  ELSE IF deviation = -1 \/ Exceeded THEN "ALLOW_WITH_MONITORING"
  ELSE "ALLOW"

FinalOutcome ==
  LET base == IF HighImpact THEN "ALLOW_WITH_HIC_NOTIFICATION"
              ELSE IF deviation = -1 THEN "ALLOW_WITH_MONITORING"
              ELSE "ALLOW"
  IN IF Exceeded THEN EscalateOneTier(base) ELSE base

NeedsTicket(o) == o \in {"ALLOW_WITH_HIC_NOTIFICATION", "ESCALATE_TO_HUMAN"}

GateAutonomy ==
  /\ pc = "autonomy"
  /\ \/ /\ envelope.level > credential.level
        /\ Conclude("DENY")
     \/ /\ envelope.level <= credential.level
        /\ outcome' = FinalOutcome
        /\ pc' = IF NeedsTicket(FinalOutcome) THEN "ticket" ELSE "closing"
  /\ UNCHANGED <<kernel, decision, aim, ledger, tickets, changes, seen, failed>>

\* Mutant: without the registry the call is taken for one of low impact.
AutonomyFails_LowImpact ==
  /\ pc = "autonomy"
  /\ envelope.level <= credential.level
  /\ Conclude("ALLOW")
  /\ failed' = failed \union {"AUT"}
  /\ UNCHANGED <<kernel, decision, aim, ledger, tickets, changes, seen>>

AutonomyFails ==
  /\ pc = "autonomy"
  /\ HardDeny("AUT")
  /\ UNCHANGED <<ledger, tickets>>

OpenTicket ==
  /\ pc = "ticket"
  /\ tickets' = tickets \union {[decision |-> decision, reason |-> outcome]}
  /\ pc' = "closing"
  /\ UNCHANGED <<kernel, decision, outcome, aim, ledger, changes, seen, failed>>

\* The ticket of a denied call stays open when only the answer was lost.
TicketFails ==
  /\ pc = "ticket"
  /\ tickets' \in {tickets,
                   tickets \union {[decision |-> decision, reason |-> outcome]}}
  /\ HardDeny("HIC")
  /\ UNCHANGED ledger

\* _finalize: the end is recorded if it can be, and the caller answered.
Close ==
  /\ pc = "closing"
  /\ ledger' \in {ledger, With("envelopeEnd")}
  /\ pc' = "idle"
  /\ UNCHANGED <<kernel, decision, outcome, aim, tickets, changes, seen, failed>>

\* inspect_output, called behind a model call that passed: bundles B06, B08 and
\* B09 are asked, and the service changes nothing whatever they answer.
InspectOutput ==
  /\ pc = "idle"
  /\ outcome \in Passing
  /\ envelope.operation = "modelInvoke"
  /\ UNCHANGED vars

\* The environment: AIM's row changes, the service dies.
ChangeCredential(c) ==
  /\ changes < MaxChanges
  /\ c # aim
  /\ changes' = changes + 1
  /\ aim' = c
  /\ seen' = seen \union {c}
  /\ UNCHANGED <<kernel, pc, decision, outcome, ledger, tickets, failed>>

Crash ==
  /\ pc # "down"
  /\ pc' = "down"
  /\ outcome' = "none"
  /\ UNCHANGED <<kernel, decision, aim, ledger, tickets, changes, seen, failed>>

Next ==
  \/ Start
  \/ \E e \in Envelopes : Receive(e)
  \/ \E e \in Emissions : Emit(e) \/ EmitFails(e)
  \/ ResolveIdentity \/ ResolveFails
  \/ EvaluatePolicies \/ PoliciesFail \/ DenyByPolicy
  \/ InspectPrompt \/ InspectFails
  \/ MeasureDeviation \/ SkipBaseline \/ BaselineFails
  \/ GateAutonomy \/ AutonomyFails
  \/ OpenTicket \/ TicketFails
  \/ Close
  \/ InspectOutput
  \/ \E c \in Credentials : ChangeCredential(c)
  \/ Crash

Spec == Init /\ [][Next]_vars

-----------------------------------------------------------------------------
(***************************************************************************)
(* Properties.  An answer is the outcome of an idle service.               *)
(***************************************************************************)

Passed == pc = "idle" /\ outcome \in Passing
Recorded(event) == [decision |-> decision, event |-> event] \in ledger

\* Every variable keeps its shape.
TypeOK ==
  /\ config \in Configs
  /\ pc \in {"down", "idle", "opening", "identity", "identified", "policy",
             "denied", "prompt", "baseline", "measured", "autonomy", "ticket",
             "closing"}
  /\ decision \in Nat
  /\ envelope \in Envelopes
  /\ credential \in Credentials
  /\ deviation \in Nat \union {-1}
  /\ outcome \in Passing \union {"none", "error", "DENY", "DENY_WITH_INCIDENT"}
  /\ aim \in Credentials
  /\ changes \in Nat
  /\ seen \subseteq Credentials
  /\ failed \subseteq {"AIM", "OPA", "BBR", "AUT", "EGA", "HIC"}

\* "Failure-mode policy (TR-2026-034-ATK par. 7)" in the head of the module:
\* an envelope during whose evaluation AIM, OPA, AUT, EGA, HIC or a
\* mandatory BBR failed does not pass, whatever the others said.  (The
\* recording of the end, when the outcome is known, is not covered.)
FailureDenies == Passed => failed = {}

\* An envelope that passed did so by a credential that AIM held while it
\* was evaluated, however it changed: active, of the level that was asked
\* for, and no configured bundle denies the call to it.
ByLiveCredential ==
  \E c \in seen :
    /\ c.lifecycle = "ACTIVE"
    /\ envelope.level <= c.level
    /\ ~Denies(config.runtime, envelope, c)

\* The start, the identity and the deviation of a passed envelope are in
\* the ledger, and the human is told under the outcome that was answered.
Traced ==
  /\ Recorded("envelopeStart")
  /\ Recorded("identityResolved")
  /\ Recorded("baselineDeviation")
  /\ NeedsTicket(outcome) => [decision |-> decision, reason |-> outcome] \in tickets

PassedIsJustified == Passed => ByLiveCredential /\ Traced

\* The outcome of a passed envelope is as severe as all its warnings
\* together: a deviation counts one tier above what the call is without it.
Tier(o) == CHOOSE n \in 1 .. 4 : Ladder[n] = o
WarningsAddUp ==
  Passed =>
    /\ HighImpact => Tier(outcome) >= 3
    /\ deviation = -1 => Tier(outcome) >= 2
    /\ Exceeded => Tier(outcome) >= (IF HighImpact THEN 4 ELSE 2)

=============================================================================
