------------------------- MODULE TrustKernelProofs -------------------------
(***************************************************************************)
(* What TLAPS proves of TrustKernel, for any configuration, credentials    *)
(* and envelopes, any number of envelopes and any history of AIM.          *)
(*                                                                         *)
(* The argument goes along the order of the checks: Inv says of every step *)
(* of evaluate_envelope what the checks before it have established, and    *)
(* that it still holds although the credential changes and services fail   *)
(* around it; an outcome that passes has gone through all of them.         *)
(*                                                                         *)
(* And what it proves of HardenedClient, the clients the kernel reaches    *)
(* its services through, for any number of calls, attempts and failures    *)
(* and any reset time.                                                     *)
(***************************************************************************)
EXTENDS TrustKernel, HardenedClient, TLAPS

-----------------------------------------------------------------------------
(***************************************************************************)
(* What is established where.                                              *)
(***************************************************************************)

\* An outcome that passes is known.
Decided == pc \in {"closing", "idle"} /\ outcome \in Passing

\* The steps behind the end of each check, in the order of the checks.
Ticketed == pc = "ticket" \/ Decided
Measured == pc = "autonomy" \/ Ticketed
Permitted == pc \in {"prompt", "baseline", "measured"} \/ Measured
Resolved == pc \in {"policy", "denied"} \/ Permitted
Identified == pc = "identified" \/ Resolved
Opened == pc = "identity" \/ Identified

Inv ==
  /\ pc = "down" => outcome = "none"
  /\ pc = "opening" => failed = {}
  /\ pc \in {"opening", "identity"} => aim \in seen
  /\ Opened => failed = {} /\ Recorded("envelopeStart")
  /\ Identified => credential \in seen /\ credential.lifecycle = "ACTIVE"
  /\ Resolved => Recorded("identityResolved")
  /\ Permitted => ~Denies(config.runtime, envelope, credential)
  /\ Measured => Recorded("baselineDeviation")
  /\ Ticketed => envelope.level <= credential.level /\ outcome = FinalOutcome
  /\ Decided /\ NeedsTicket(outcome) =>
       [decision |-> decision, reason |-> outcome] \in tickets

-----------------------------------------------------------------------------
(***************************************************************************)
(* The outcomes.                                                           *)
(***************************************************************************)

\* The ladder of the outcomes, by tier.
LEMMA LadderTiers ==
  /\ Ladder[1] = "ALLOW"
  /\ Ladder[2] = "ALLOW_WITH_MONITORING"
  /\ Ladder[3] = "ALLOW_WITH_HIC_NOTIFICATION"
  /\ Ladder[4] = "ESCALATE_TO_HUMAN"
  BY DEF Ladder

\* The tier of an outcome is where it stands.
LEMMA TierOf ==
  /\ Tier("ALLOW") = 1
  /\ Tier("ALLOW_WITH_MONITORING") = 2
  /\ Tier("ALLOW_WITH_HIC_NOTIFICATION") = 3
  /\ Tier("ESCALATE_TO_HUMAN") = 4
  <1>1. ASSUME NEW n \in 1 .. 4, NEW o, Ladder[n] = o,
               \A m \in 1 .. 4 : Ladder[m] = o => m = n
        PROVE  Tier(o) = n
    BY <1>1 DEF Tier
  <1>2. \A n, m \in 1 .. 4 : Ladder[m] = Ladder[n] => m = n
    BY LadderTiers
  <1> QED
    BY <1>1, <1>2, LadderTiers

\* Escalation by one tier.
LEMMA Escalates ==
  /\ EscalateOneTier("ALLOW") = "ALLOW_WITH_MONITORING"
  /\ EscalateOneTier("ALLOW_WITH_MONITORING") = "ALLOW_WITH_HIC_NOTIFICATION"
  /\ EscalateOneTier("ALLOW_WITH_HIC_NOTIFICATION") = "ESCALATE_TO_HUMAN"
  <1>1. \A o : EscalateOneTier(o) = Ladder[IF Tier(o) = 4 THEN 4 ELSE Tier(o) + 1]
    BY DEF EscalateOneTier, Tier
  <1> QED
    BY <1>1, TierOf, LadderTiers

\* Every final outcome passes.
LEMMA FinalPasses == FinalOutcome \in Passing
  BY Escalates DEF FinalOutcome, Passing

-----------------------------------------------------------------------------
(***************************************************************************)
(* The type.                                                               *)
(***************************************************************************)

LEMMA InitType == Init => TypeOK
  BY KernelConstants DEF Init, TypeOK

\* Every step keeps the type.
LEMMA NextType == TypeOK /\ [Next]_vars => TypeOK'
  <1> SUFFICES ASSUME TypeOK, [Next]_vars PROVE TypeOK'
    OBVIOUS
  <1> USE KernelConstants DEF TypeOK, kernel
  <1>1. ASSUME Start PROVE TypeOK'
    BY <1>1 DEF Start
  <1>2. ASSUME NEW e \in Envelopes, Receive(e) PROVE TypeOK'
    BY <1>2 DEF Receive
  <1>3. ASSUME NEW e \in Emissions, Emit(e) PROVE TypeOK'
    BY <1>3 DEF Emit, Emissions
  <1>4. ASSUME NEW e \in Emissions, EmitFails(e) PROVE TypeOK'
    BY <1>4 DEF EmitFails, HardDeny, Conclude
  <1>5. ASSUME ResolveIdentity PROVE TypeOK'
    BY <1>5 DEF ResolveIdentity, Conclude
  <1>6. ASSUME \/ ResolveFails \/ PoliciesFail \/ BaselineFails
               \/ AutonomyFails \/ TicketFails
        PROVE  TypeOK'
    BY <1>6 DEF ResolveFails, PoliciesFail, BaselineFails, AutonomyFails, TicketFails,
                HardDeny, Conclude
  <1>7. ASSUME EvaluatePolicies \/ DenyByPolicy \/ InspectPrompt \/ InspectFails
        PROVE  TypeOK'
    BY <1>7 DEF EvaluatePolicies, DenyByPolicy, InspectPrompt, InspectFails, Conclude
  <1>8. ASSUME MeasureDeviation \/ SkipBaseline PROVE TypeOK'
    <2>1. envelope.deviation \in Nat
      BY DEF Envelope
    <2> QED
      BY <1>8, <2>1 DEF MeasureDeviation, SkipBaseline
  <1>9. ASSUME GateAutonomy PROVE TypeOK'
    BY <1>9, FinalPasses DEF GateAutonomy, Conclude
  <1>10. ASSUME OpenTicket \/ Close \/ InspectOutput \/ Crash PROVE TypeOK'
    BY <1>10 DEF OpenTicket, Close, InspectOutput, Crash, vars
  <1>11. ASSUME NEW c \in Credentials, ChangeCredential(c) PROVE TypeOK'
    BY <1>11 DEF ChangeCredential
  <1>12. ASSUME UNCHANGED vars PROVE TypeOK'
    BY <1>12 DEF vars
  <1> HIDE DEF TypeOK, kernel
  <1> QED
    BY <1>1, <1>2, <1>3, <1>4, <1>5, <1>6, <1>7, <1>8, <1>9, <1>10, <1>11, <1>12
       DEF Next

\* Every variable keeps its shape.
THEOREM TypeCorrect == Spec => []TypeOK
  BY InitType, NextType, PTL DEF Spec

-----------------------------------------------------------------------------
(***************************************************************************)
(* The checks.                                                             *)
(***************************************************************************)

\* What is in the ledger of EGA stays there, for the decision it is about.
LEMMA RecordedStays ==
  ASSUME decision' = decision, ledger \subseteq ledger', NEW event, Recorded(event)
  PROVE  Recorded(event)'
  BY DEF Recorded

\* What an outcome is made of changes with the envelope only.
LEMMA KernelStays ==
  ASSUME UNCHANGED kernel
  PROVE  /\ FinalOutcome' = FinalOutcome
         /\ Denies(config.runtime, envelope, credential)' =
              Denies(config.runtime, envelope, credential)
         /\ envelope' = envelope /\ credential' = credential
         /\ config' = config /\ deviation' = deviation
  BY DEF kernel, FinalOutcome, HighImpact, Exceeded

\* The invariant holds at the start.
LEMMA InitInv == Init => Inv
  BY DEF Init, Inv, Decided, Ticketed, Measured, Permitted, Resolved, Identified,
         Opened, Passing

\* A failure and a denial establish nothing and need nothing.
LEMMA NothingPasses ==
  ASSUME \/ pc' = "closing" /\ outcome' \notin Passing
         \/ pc' = "idle" /\ outcome' \notin Passing
         \/ pc' = "down" /\ outcome' = "none"
         \/ pc' = "opening" /\ failed' = {} /\ aim' \in seen'
  PROVE  Inv'
  BY DEF Inv, Decided, Ticketed, Measured, Permitted, Resolved, Identified, Opened

\* The refusals are no outcomes that pass.
LEMMA RefusalsDoNotPass ==
  /\ "DENY" \notin Passing /\ "DENY_WITH_INCIDENT" \notin Passing
  /\ "error" \notin Passing /\ "none" \notin Passing
  BY DEF Passing

\* Every step keeps the invariant.
LEMMA NextInv == TypeOK /\ Inv /\ [Next]_vars => Inv'
  <1> SUFFICES ASSUME TypeOK, Inv, [Next]_vars PROVE Inv'
    OBVIOUS
  <1>1. ASSUME Start PROVE Inv'
    <2>1. pc' = "idle" /\ outcome' = "none"
      BY <1>1 DEF Start, Inv
    <2> QED
      BY <2>1, NothingPasses, RefusalsDoNotPass
  <1>2. ASSUME NEW e \in Envelopes, Receive(e) PROVE Inv'
    BY <1>2, NothingPasses DEF Receive
  <1>3. ASSUME NEW e \in Emissions, Emit(e) PROVE Inv'
    <2>1. /\ decision' = decision /\ outcome' = outcome /\ UNCHANGED kernel
          /\ aim' = aim /\ seen' = seen /\ failed' = failed /\ tickets' = tickets
          /\ ledger \subseteq ledger' /\ Recorded(e[2])'
      BY <1>3 DEF Emit, With, Recorded
    <2>2. CASE pc = "opening" /\ pc' = "identity" /\ e[2] = "envelopeStart"
      BY <2>1, <2>2
         DEF Inv, Decided, Ticketed, Measured, Permitted, Resolved, Identified, Opened
    <2>3. CASE pc = "identified" /\ pc' = "policy" /\ e[2] = "identityResolved"
      BY <2>1, <2>3, KernelStays, RecordedStays
         DEF Inv, Decided, Ticketed, Measured, Permitted, Resolved, Identified, Opened
    <2>4. CASE pc = "measured" /\ pc' = "autonomy" /\ e[2] = "baselineDeviation"
      BY <2>1, <2>4, KernelStays, RecordedStays
         DEF Inv, Decided, Ticketed, Measured, Permitted, Resolved, Identified, Opened
    <2> QED
      BY <1>3, <2>2, <2>3, <2>4 DEF Emit, Emissions
  <1>4. ASSUME NEW service, HardDeny(service) PROVE Inv'
    BY <1>4, NothingPasses, RefusalsDoNotPass DEF HardDeny, Conclude
  <1>5. ASSUME ResolveIdentity PROVE Inv'
    <2>1. CASE aim.lifecycle = "ACTIVE"
      <3>1. /\ pc = "identity" /\ pc' = "identified"
            /\ credential' \in seen' /\ credential'.lifecycle = "ACTIVE"
            /\ failed' = failed /\ ledger \subseteq ledger' /\ decision' = decision
        BY <1>5, <2>1 DEF ResolveIdentity, Inv
      <3> QED
        BY <3>1, RecordedStays
           DEF Inv, Decided, Ticketed, Measured, Permitted, Resolved, Identified, Opened
    <2>2. CASE aim.lifecycle # "ACTIVE"
      BY <1>5, <2>2, NothingPasses, RefusalsDoNotPass DEF ResolveIdentity, Conclude
    <2> QED
      BY <2>1, <2>2
  \* A step of the service that passes on to the next one.
  <1>6. ASSUME UNCHANGED <<config, envelope, credential, decision, outcome, seen, failed>>,
               ledger' = ledger,
               \/ /\ pc = "policy" /\ pc' \in {"prompt", "baseline", "denied"}
                  /\ pc' # "denied" => ~Denies(config.runtime, envelope, credential)
               \/ pc = "prompt" /\ pc' = "baseline"
               \/ pc = "baseline" /\ pc' = "measured"
        PROVE  Inv'
    BY <1>6, RecordedStays
       DEF Inv, Decided, Ticketed, Measured, Permitted, Resolved, Identified, Opened
  <1>7. ASSUME EvaluatePolicies PROVE Inv'
    BY <1>6, <1>7 DEF EvaluatePolicies, kernel
  <1>8. ASSUME DenyByPolicy PROVE Inv'
    BY <1>8, NothingPasses, RefusalsDoNotPass DEF DenyByPolicy, Conclude
  <1>9. ASSUME InspectPrompt \/ InspectFails PROVE Inv'
    BY <1>6, <1>9, NothingPasses, RefusalsDoNotPass
       DEF InspectPrompt, InspectFails, Conclude, kernel
  <1>10. ASSUME MeasureDeviation \/ SkipBaseline PROVE Inv'
    BY <1>6, <1>10 DEF MeasureDeviation, SkipBaseline
  <1>11. ASSUME GateAutonomy PROVE Inv'
    <2>0. envelope.level \in Int /\ credential.level \in Int
      BY KernelConstants DEF TypeOK, Envelope, Credential, Levels
    <2>1. CASE envelope.level > credential.level
      BY <1>11, <2>0, <2>1, NothingPasses, RefusalsDoNotPass DEF GateAutonomy, Conclude
    <2>2. CASE envelope.level <= credential.level
      <3>1. /\ pc = "autonomy" /\ outcome' = FinalOutcome
            /\ pc' = IF NeedsTicket(FinalOutcome) THEN "ticket" ELSE "closing"
            /\ UNCHANGED kernel /\ decision' = decision /\ ledger' = ledger
            /\ seen' = seen /\ failed' = failed
        BY <1>11, <2>0, <2>2 DEF GateAutonomy
      <3> QED
        BY <2>2, <3>1, KernelStays, RecordedStays, FinalPasses
           DEF Inv, Decided, Ticketed, Measured, Permitted, Resolved, Identified, Opened
    <2> QED
      BY <2>0, <2>1, <2>2
  <1>12. ASSUME OpenTicket PROVE Inv'
    <2>1. /\ pc = "ticket" /\ pc' = "closing" /\ outcome' = outcome
          /\ UNCHANGED kernel /\ decision' = decision /\ ledger' = ledger
          /\ seen' = seen /\ failed' = failed
          /\ [decision |-> decision', reason |-> outcome'] \in tickets'
      BY <1>12 DEF OpenTicket
    <2> QED
      BY <2>1, KernelStays, RecordedStays
         DEF Inv, Decided, Ticketed, Measured, Permitted, Resolved, Identified, Opened
  <1>13. ASSUME Close PROVE Inv'
    <2>1. /\ pc = "closing" /\ pc' = "idle" /\ outcome' = outcome /\ tickets' = tickets
          /\ UNCHANGED kernel /\ decision' = decision /\ ledger \subseteq ledger'
          /\ seen' = seen /\ failed' = failed
      BY <1>13 DEF Close, With
    <2> QED
      BY <2>1, KernelStays, RecordedStays
         DEF Inv, Decided, Ticketed, Measured, Permitted, Resolved, Identified, Opened
  <1>14. ASSUME UNCHANGED vars PROVE Inv'
    BY <1>14
       DEF vars, Inv, Decided, Ticketed, Measured, Permitted, Resolved, Identified,
           Opened, Recorded, FinalOutcome, HighImpact, Exceeded
  <1>15. ASSUME NEW c \in Credentials, ChangeCredential(c) PROVE Inv'
    <2>1. /\ pc' = pc /\ outcome' = outcome /\ tickets' = tickets
          /\ UNCHANGED kernel /\ decision' = decision /\ ledger' = ledger
          /\ aim' \in seen' /\ seen \subseteq seen' /\ failed' = failed
      BY <1>15 DEF ChangeCredential
    <2> QED
      BY <2>1, KernelStays, RecordedStays
         DEF Inv, Decided, Ticketed, Measured, Permitted, Resolved, Identified, Opened
  <1>16. ASSUME Crash PROVE Inv'
    BY <1>16, NothingPasses DEF Crash
  <1>17. ASSUME NEW e \in Emissions, EmitFails(e) PROVE Inv'
    BY <1>4, <1>17 DEF EmitFails
  <1>18. ASSUME \/ ResolveFails \/ PoliciesFail \/ BaselineFails
                \/ AutonomyFails \/ TicketFails
         PROVE  Inv'
    BY <1>4, <1>18 DEF ResolveFails, PoliciesFail, BaselineFails, AutonomyFails, TicketFails
  <1> QED
    BY <1>1, <1>2, <1>3, <1>5, <1>7, <1>8, <1>9, <1>10, <1>11, <1>12, <1>13, <1>14,
       <1>15, <1>16, <1>17, <1>18 DEF Next, InspectOutput

-----------------------------------------------------------------------------
(***************************************************************************)
(* The theorems.                                                           *)
(***************************************************************************)

LEMMA Invariant == Spec => []Inv
  <1>1. TypeOK /\ Inv /\ [Next]_vars => TypeOK' /\ Inv'
    BY NextType, NextInv
  <1>2. Init => TypeOK /\ Inv
    BY InitType, InitInv
  <1> QED
    BY <1>1, <1>2, PTL DEF Spec

\* An envelope during whose evaluation a service failed does not pass.
THEOREM FailuresDeny == Spec => []FailureDenies
  <1>1. Inv => FailureDenies
    BY DEF Inv, FailureDenies, Passed, Decided, Ticketed, Measured, Permitted,
           Resolved, Identified, Opened
  <1> QED
    BY <1>1, Invariant, PTL

\* An envelope that passed did so by a credential that AIM held meanwhile,
\* and its steps and its ticket are kept.
THEOREM PassesAreJustified == Spec => []PassedIsJustified
  <1>1. Inv => PassedIsJustified
    BY DEF Inv, PassedIsJustified, ByLiveCredential, Traced, Passed, Decided, Ticketed,
           Measured, Permitted, Resolved, Identified, Opened
  <1> QED
    BY <1>1, Invariant, PTL

\* The outcome of a passed envelope is as severe as its warnings together.
THEOREM WarningsAreAdded == Spec => []WarningsAddUp
  <1>1. Inv => WarningsAddUp
    <2> SUFFICES ASSUME Inv, Passed
                 PROVE  /\ HighImpact => Tier(outcome) >= 3
                        /\ deviation = -1 => Tier(outcome) >= 2
                        /\ Exceeded => Tier(outcome) >= (IF HighImpact THEN 4 ELSE 2)
      BY DEF WarningsAddUp
    <2>1. outcome = FinalOutcome
      BY DEF Inv, Passed, Decided, Ticketed
    <2> QED
      BY <2>1, TierOf, Escalates DEF FinalOutcome
  <1> QED
    BY <1>1, Invariant, PTL

-----------------------------------------------------------------------------
(***************************************************************************)
(* The clients.  BreakerKnows is the invariant that carries the promise of *)
(* the breaker: a call that begins goes by state and openAge, the promise  *)
(* speaks of failures and failureAge.                                      *)
(***************************************************************************)

\* The phase and the methods have values at the start.
LEMMA MethodsNonEmpty == (CHOOSE m \in Methods : TRUE) \in Methods
  <1>1. \E m \in Methods : TRUE
    BY DEF Methods
  <1> QED
    BY <1>1

\* Counting up to a limit stays within it.
LEMMA AtMostBounds ==
  ASSUME NEW limit \in Nat, NEW n \in 0 .. limit
  PROVE  /\ AtMost(n + 1, limit) \in 0 .. limit
         /\ n = limit => AtMost(n + 1, limit) = limit
         /\ AtMost(n + 1, limit) = IF n + 1 < limit THEN n + 1 ELSE limit
  BY DEF AtMost

\* The inductive invariant: a call sleeps only with attempts left.
SleepersHaveAttempts ==
  \A c \in Calls : phase[c] = "sleeping" => attempts[c] < MaxRetries
ClientTypeInv == ClientTypeOK /\ SleepersHaveAttempts

\* The type invariant holds at the start.
LEMMA InitClientType == ClientInit => ClientTypeInv
  BY ClientConstants, MethodsNonEmpty DEF ClientInit, ClientTypeOK, ClientTypeInv, SleepersHaveAttempts

\* What the end of an attempt keeps of the type.
LEMMA EndType ==
  ASSUME ClientTypeOK, NEW c \in Calls, NEW results \in SUBSET Results, End(c, results)
  PROVE  /\ phase' \in [Calls -> {"idle", "sent", "sleeping"} \union Results]
         /\ attempts' \in [Calls -> 0 .. MaxRetries]
         /\ method' \in [Calls -> Methods]
         /\ healthy' \in BOOLEAN
  BY DEF ClientTypeOK, End

\* Every way a method ends is a result.
LEMMA OutcomesAreResults ==
  ASSUME NEW m
  PROVE  /\ Accepted(m) \subseteq Results
         /\ Refused(m) \subseteq Results
  BY DEF Accepted, Refused, Results

\* Every step keeps the type.
LEMMA NextClientType == ClientTypeInv /\ [ClientNext]_clientVars => ClientTypeOK'
  <1> SUFFICES ASSUME ClientTypeOK, SleepersHaveAttempts, [ClientNext]_clientVars
               PROVE  ClientTypeOK'
    BY DEF ClientTypeInv
  <1>0. FailureThreshold \in Nat /\ Reset \in Nat /\ MaxRetries \in Nat \ {0}
        /\ MethodsCalled \subseteq Methods
    BY ClientConstants
  <1>1. ASSUME NEW c \in Calls, NEW m \in MethodsCalled, Admit(c, m)
        PROVE  ClientTypeOK'
    BY <1>0, <1>1 DEF ClientTypeOK, Admit, Begin
  <1>2. ASSUME NEW c \in Calls, NEW m \in MethodsCalled, Refuse(c, m)
        PROVE  ClientTypeOK'
    BY <1>0, <1>2 DEF ClientTypeOK, Refuse, Begin, breaker, Results
  <1>3. ASSUME NEW c \in Calls, Succeed(c)
        PROVE  ClientTypeOK'
    <2>1. End(c, Accepted(method[c])) /\ Accepted(method[c]) \subseteq Results
      BY <1>3, OutcomesAreResults DEF Succeed
    <2>2. state' = "CLOSED" /\ failures' = 0 /\ openAge' = Reset /\ failureAge' = failureAge
      BY <1>3 DEF Succeed
    <2> QED
      BY <1>0, <2>1, <2>2, EndType DEF ClientTypeOK
  <1>4. ASSUME NEW c \in Calls, Reject(c)
        PROVE  ClientTypeOK'
    <2>1. End(c, Refused(method[c])) /\ Refused(method[c]) \subseteq Results
      BY <1>4, OutcomesAreResults DEF Reject
    <2> QED
      BY <1>0, <1>4, <2>1, EndType DEF ClientTypeOK, Reject, breaker
  <1>5. ASSUME NEW c \in Calls, Escape(c)
        PROVE  ClientTypeOK'
    <2>1. {"escaped"} \subseteq Results
      BY DEF Results
    <2>2. CASE End(c, {"escaped"})
      BY <1>0, <1>5, <2>1, <2>2, EndType DEF ClientTypeOK, Escape, breaker
    <2>3. CASE /\ phase' = [phase EXCEPT ![c] = "escaped"]
               /\ UNCHANGED <<attempts, method, healthy>>
      BY <1>0, <1>5, <2>1, <2>3 DEF ClientTypeOK, Escape, breaker
    <2> QED
      BY <1>5, <2>2, <2>3 DEF Escape
  <1>6. ASSUME NEW c \in Calls, FailAttempt(c)
        PROVE  ClientTypeOK'
    BY <1>6 DEF ClientTypeOK, FailAttempt, breaker
  <1>7. ASSUME NEW c \in Calls, Retry(c)
        PROVE  ClientTypeOK'
    <2>1. attempts[c] \in 0 .. MaxRetries /\ attempts[c] < MaxRetries
      BY <1>7 DEF ClientTypeOK, SleepersHaveAttempts, Retry
    <2>2. attempts[c] + 1 \in 0 .. MaxRetries
      BY <1>0, <2>1
    <2> QED
      BY <1>0, <1>7, <2>2 DEF ClientTypeOK, Retry, breaker
  <1>8. ASSUME NEW c \in Calls, Fail(c)
        PROVE  ClientTypeOK'
    <2>1. {"unavailable"} \subseteq Results
      BY DEF Results
    <2>2. End(c, {"unavailable"}) /\ OnFailure /\ failureAge' = 0
      BY <1>8 DEF Fail
    <2>3. /\ state' \in {"CLOSED", "HALF_OPEN", "OPEN"}
          /\ failures' \in 0 .. FailureThreshold
          /\ openAge' \in 0 .. Reset
      BY <1>0, <2>2, AtMostBounds DEF ClientTypeOK, OnFailure
    <2> QED
      BY <1>0, <2>1, <2>2, <2>3, EndType DEF ClientTypeOK
  <1>9. ASSUME NEW c \in Calls, Return(c)
        PROVE  ClientTypeOK'
    BY <1>0, <1>9 DEF ClientTypeOK, Return, breaker
  <1>10. ASSUME Tick
         PROVE  ClientTypeOK'
    BY <1>0, <1>10, AtMostBounds DEF ClientTypeOK, Tick
  <1>11. ASSUME ServiceFailsOrRecovers
         PROVE  ClientTypeOK'
    BY <1>11 DEF ClientTypeOK, ServiceFailsOrRecovers, breaker
  <1>12. ASSUME UNCHANGED clientVars
         PROVE  ClientTypeOK'
    BY <1>12 DEF ClientTypeOK, clientVars
  <1> QED
    BY <1>1, <1>2, <1>3, <1>4, <1>5, <1>6, <1>7, <1>8, <1>9, <1>10, <1>11, <1>12 DEF ClientNext

\* Every step lets a call sleep only with attempts left.
LEMMA NextSleepers == ClientTypeInv /\ [ClientNext]_clientVars => SleepersHaveAttempts'
  <1> SUFFICES ASSUME ClientTypeOK, SleepersHaveAttempts, [ClientNext]_clientVars,
                      NEW c \in Calls, phase'[c] = "sleeping"
               PROVE  attempts'[c] < MaxRetries
    BY DEF ClientTypeInv, SleepersHaveAttempts
  <1>1. CASE phase'[c] = phase[c] /\ attempts'[c] = attempts[c]
    BY <1>1 DEF SleepersHaveAttempts
  <1>2. ASSUME NEW d \in Calls, NEW m \in MethodsCalled, Admit(d, m) \/ Refuse(d, m)
        PROVE  phase'[c] = phase[c] /\ attempts'[c] = attempts[c]
    BY <1>2 DEF ClientTypeOK, Admit, Refuse, Begin
  <1>3. ASSUME NEW d \in Calls, NEW results \in SUBSET Results, End(d, results)
        PROVE  phase'[c] = phase[c] /\ attempts'[c] = attempts[c]
    BY <1>3 DEF ClientTypeOK, End, Results
  <1>4. ASSUME NEW d \in Calls, Succeed(d) \/ Reject(d) \/ Fail(d)
        PROVE  phase'[c] = phase[c] /\ attempts'[c] = attempts[c]
    <2>1. {"unavailable"} \in SUBSET Results
      BY DEF Results
    <2>2. \E results \in SUBSET Results : End(d, results)
      BY <1>4, <2>1, OutcomesAreResults DEF Succeed, Reject, Fail
    <2> QED
      BY <1>3, <2>2
  <1>5. ASSUME NEW d \in Calls, Escape(d) \/ Retry(d) \/ Return(d)
        PROVE  phase'[c] = phase[c] /\ attempts'[c] = attempts[c]
    BY <1>5 DEF ClientTypeOK, Escape, End, Retry, Return
  <1>6. ASSUME NEW d \in Calls, FailAttempt(d)
        PROVE  attempts'[c] < MaxRetries
    BY <1>1, <1>6 DEF ClientTypeOK, FailAttempt
  <1>7. ASSUME Tick \/ ServiceFailsOrRecovers \/ UNCHANGED clientVars
        PROVE  phase'[c] = phase[c] /\ attempts'[c] = attempts[c]
    BY <1>7 DEF Tick, ServiceFailsOrRecovers, clientVars
  <1> QED
    BY <1>1, <1>2, <1>4, <1>5, <1>6, <1>7 DEF ClientNext

\* Every variable of the client keeps its shape.
THEOREM ClientTypeCorrect == ClientSpec => []ClientTypeOK
  <1>1. ClientTypeInv /\ [ClientNext]_clientVars => ClientTypeInv'
    BY NextClientType, NextSleepers DEF ClientTypeInv
  <1>2. ClientTypeInv => ClientTypeOK
    BY DEF ClientTypeInv
  <1> QED
    BY InitClientType, <1>1, <1>2, PTL DEF ClientSpec

\* The breaker starts closed and knows of no failure.
LEMMA InitKnows == ClientInit => BreakerKnows
  BY ClientConstants DEF ClientInit, BreakerKnows

\* Every step keeps what the breaker knows.
LEMMA NextKnows == ClientTypeOK /\ BreakerKnows /\ [ClientNext]_clientVars => BreakerKnows'
  <1> SUFFICES ASSUME ClientTypeOK, BreakerKnows, [ClientNext]_clientVars
               PROVE  BreakerKnows'
    OBVIOUS
  <1>0. FailureThreshold \in Nat \ {0} /\ Reset \in Nat
    BY ClientConstants
  <1>1. ASSUME NEW c \in Calls, NEW m \in MethodsCalled, Admit(c, m)
        PROVE  BreakerKnows'
    BY <1>0, <1>1 DEF ClientTypeOK, BreakerKnows, Admit
  <1>2. ASSUME UNCHANGED breaker
        PROVE  BreakerKnows'
    BY <1>2 DEF BreakerKnows, breaker
  <1>3. ASSUME NEW c \in Calls, Succeed(c)
        PROVE  BreakerKnows'
    BY <1>0, <1>3 DEF ClientTypeOK, BreakerKnows, Succeed
  <1>4. ASSUME NEW c \in Calls, Fail(c)
        PROVE  BreakerKnows'
    <2>1. failures' = IF failures + 1 < FailureThreshold THEN failures + 1 ELSE FailureThreshold
      BY <1>0, <1>4 DEF Fail, OnFailure, AtMost
    <2>2. failureAge' = 0
      BY <1>4 DEF Fail
    <2>3. CASE state = "HALF_OPEN" \/ failures + 1 >= FailureThreshold
      <3>1. state' = "OPEN" /\ openAge' = 0
        BY <1>4, <2>3 DEF Fail, OnFailure
      <3>2. failures' = FailureThreshold
        BY <1>0, <2>1, <2>3 DEF ClientTypeOK, BreakerKnows
      <3> QED
        BY <2>2, <3>1, <3>2 DEF BreakerKnows
    <2>4. CASE ~(state = "HALF_OPEN" \/ failures + 1 >= FailureThreshold)
      <3>1. state' = state /\ state = "CLOSED"
        BY <1>0, <1>4, <2>4 DEF Fail, OnFailure, ClientTypeOK, BreakerKnows
      <3>2. failures' # FailureThreshold
        BY <1>0, <2>1, <2>4 DEF ClientTypeOK
      <3> QED
        BY <3>1, <3>2 DEF BreakerKnows
    <2> QED
      BY <2>3, <2>4
  <1>5. ASSUME Tick
        PROVE  BreakerKnows'
    BY <1>0, <1>5 DEF ClientTypeOK, BreakerKnows, Tick, AtMost
  <1> QED
    BY <1>1, <1>2, <1>3, <1>4, <1>5
    DEF ClientNext, Refuse, Reject, Escape, FailAttempt, Retry, Return,
        ServiceFailsOrRecovers, clientVars, breaker

\* A closed breaker has not missed a failure, and an open one knows the time
\* since the last of them.
THEOREM BreakerAlwaysKnows == ClientSpec => []BreakerKnows
  <1> QED
    BY ClientTypeCorrect, InitKnows, NextKnows, PTL DEF ClientSpec

\* A call begins to be served only by being admitted.
LEMMA OnlyAdmitSends ==
  ASSUME ClientTypeOK, [ClientNext]_clientVars, NEW c \in Calls, phase[c] = "idle", phase'[c] = "sent"
  PROVE  \E m \in MethodsCalled : Admit(c, m)
  <1>1. ASSUME NEW d \in Calls, NEW m \in MethodsCalled, Admit(d, m)
        PROVE  c = d
    BY <1>1 DEF ClientTypeOK, Admit, Begin
  <1>2. ASSUME NEW d \in Calls, NEW m \in MethodsCalled, Refuse(d, m)
        PROVE  FALSE
    BY <1>2 DEF ClientTypeOK, Refuse, Begin
  <1>3. ASSUME NEW d \in Calls, NEW results \in SUBSET Results, End(d, results)
        PROVE  FALSE
    BY <1>3 DEF ClientTypeOK, End, Results
  <1>4. ASSUME NEW d \in Calls, Succeed(d) \/ Reject(d) \/ Fail(d)
        PROVE  FALSE
    <2>1. {"unavailable"} \in SUBSET Results
      BY DEF Results
    <2>2. \E results \in SUBSET Results : End(d, results)
      BY <1>4, <2>1, OutcomesAreResults DEF Succeed, Reject, Fail
    <2> QED
      BY <1>3, <2>2
  <1>5. ASSUME NEW d \in Calls,
               Escape(d) \/ FailAttempt(d) \/ Retry(d) \/ Return(d)
        PROVE  FALSE
    BY <1>5 DEF ClientTypeOK, Escape, End, FailAttempt, Retry, Return, Results
  <1>6. ASSUME Tick \/ ServiceFailsOrRecovers \/ UNCHANGED clientVars
        PROVE  FALSE
    BY <1>6 DEF Tick, ServiceFailsOrRecovers, clientVars
  <1> QED
    BY <1>1, <1>2, <1>4, <1>5, <1>6 DEF ClientNext

\* No call is let in soon after the last of FailureThreshold failures in a row.
THEOREM ServiceIsLeftAlone == ClientSpec => NoCallSoonAfterFailure
  <1>1. ASSUME ClientTypeOK, BreakerKnows, [ClientNext]_clientVars, NEW c \in Calls,
               phase[c] = "idle", phase'[c] = "sent", failures = FailureThreshold
        PROVE  failureAge = Reset
    <2>1. PICK m \in MethodsCalled : Admit(c, m)
      BY <1>1, OnlyAdmitSends
    <2>2. state = "OPEN" => openAge = Reset
      BY <1>1, <2>1, ClientConstants DEF Admit, ClientTypeOK
    <2> QED
      BY <1>1, <2>2 DEF BreakerKnows, ClientTypeOK
  <1>2. ClientTypeOK /\ BreakerKnows /\ [ClientNext]_clientVars
          => [\A c \in Calls :
                (phase[c] = "idle" /\ phase'[c] = "sent" /\ failures = FailureThreshold)
                  => failureAge = Reset]_clientVars
    BY <1>1
  <1> QED
    BY ClientTypeCorrect, BreakerAlwaysKnows, <1>2, PTL DEF ClientSpec, NoCallSoonAfterFailure

=============================================================================
