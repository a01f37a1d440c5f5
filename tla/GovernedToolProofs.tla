------------------------- MODULE GovernedToolProofs -------------------------
(***************************************************************************)
(* What TLAPS proves of GovernedTool, for any number of calls, attempts    *)
(* and failures and whatever the callers claim.                            *)
(*                                                                         *)
(* CallOK says of one call what holds at each of its steps: the stages it  *)
(* has gone through, and that without an approval an escalated call never  *)
(* gets past the first decision.  Inv relates the calls to the tickets,    *)
(* to the accepted tokens and to the answers that the gateway kept.        *)
(***************************************************************************)
EXTENDS GovernedTool, TLAPS

Escalates(k) == Policy(k.input, k.input.flags) = "ESCALATE_TO_HUMAN"

\* The stages a call has gone through, wherever it is.
StageOK(k) ==
  /\ k \in Call
  /\ k.stage = "initial" => k.status # "APPROVED"
  /\ k.stage = "reevaluation" => k.status = "APPROVED" /\ k.result # "escalated"
  /\ (Escalates(k) /\ k.status # "APPROVED") => k.stage = "initial" /\ ~k.ran

CallOK(k) ==
  /\ StageOK(k)
  /\ k.pc \notin {"free", "done"} => k.input \in Input /\ k.result # "escalated" /\ ~k.ran
  /\ k.pc = "free" => k = NoCall
  /\ k.pc = "done" => k.pending = {}
  /\ k.pc \in {"opening", "polling"} => k.stage = "initial"
  /\ k.pc = "notifying" => k.input.kind = "model"
  /\ k.stage = "reevaluation" => k.reply # "ESCALATE_TO_HUMAN"
  /\ (Escalates(k) /\ k.status # "APPROVED") =>
       k.pc \notin {"issuing", "notifying", "running"} /\ k.reply \notin Allows

\* The call has come to where only a confirmed one may be.
PastConfirmation(k) ==
  \/ k.pc = "running"
  \/ k.ran
  \/ k.stage = "confirmation" /\ k.reply \in Allows

Approved(ticket) == ticket # None /\ ticket.status = "APPROVED"

\* What the gateway can answer to the request of a call in a context.
Possible(k, context) == {Policy(k.input, context), "DENY"}

CallsOK == \A c \in Calls : CallOK(call[c])
\* What the ticket of a call is for a call at its step.
Fits(k, ticket) ==
  /\ k.status = "APPROVED" => Approved(ticket)
  /\ k.pc = "polling" => ticket # None
TicketsMatch == \A c \in Calls : Fits(call[c], tickets[<<c, "stepUp">>])

\* A ticket is never lost, nor its approval.
Kept(old, new) == (old # None => new # None) /\ (Approved(old) => Approved(new))
TokensMatch ==
  \A c \in Calls :
    (profile.broker /\ call[c].input.kind = "tool" /\ PastConfirmation(call[c])) =>
      c \in accepted
AnswersMatch ==
  \A a \in answers :
    /\ call[a.call].pc # "free"
    /\ a.outcome \in Possible(call[a.call], a.context)

Inv ==
  /\ TypeOK
  /\ CallsOK
  /\ TicketsMatch
  /\ TokensMatch
  /\ AnswersMatch

-----------------------------------------------------------------------------
(***************************************************************************)
(* The policy.                                                             *)
(***************************************************************************)

\* What the policy says is an outcome, and with the approvals of a ticket it
\* does not escalate.
LEMMA PolicyFacts ==
  ASSUME NEW input, NEW flags
  PROVE  /\ Policy(input, flags) \in Outcomes
         /\ (input.severity = "CRITICAL" => Flags \subseteq flags)
            /\ (input.severity # "CRITICAL" => "step_up_satisfied" \in flags)
            => Policy(input, flags) # "ESCALATE_TO_HUMAN"
  BY DEF Policy, AutonomyPermits, Outcomes, Allows, Flags

\* The context of a request is made of flags, and in the reevaluation it
\* carries the approvals.
LEMMA ContextFacts ==
  ASSUME NEW c \in Calls, call[c].input \in Input
  PROVE  /\ Sent(c) \subseteq Flags
         /\ call[c].stage # "reevaluation" => Sent(c) = call[c].input.flags
         /\ call[c].stage = "reevaluation" =>
              Policy(call[c].input, Sent(c)) # "ESCALATE_TO_HUMAN"
  <1>1. call[c].input.flags \subseteq Flags
    BY DEF Input
  <1>2. Sent(c) \subseteq Flags /\ (call[c].stage # "reevaluation" => Sent(c) = call[c].input.flags)
    BY <1>1 DEF Sent, Context, Flags
  <1>3. ASSUME call[c].stage = "reevaluation"
        PROVE  /\ call[c].input.severity = "CRITICAL" => Flags \subseteq Sent(c)
               /\ call[c].input.severity # "CRITICAL" => "step_up_satisfied" \in Sent(c)
    BY <1>3 DEF Sent, Context
  <1> QED
    BY <1>2, <1>3, PolicyFacts

-----------------------------------------------------------------------------
(***************************************************************************)
(* The changes of a call.                                                  *)
(***************************************************************************)

\* The call asks the gateway.
Asked(k) == [k EXCEPT !.pc = "deciding", !.attempt = 1, !.pending = {1}, !.reply = None]

\* A decision is asked for, or refused by the breaker.
LEMMA DecideFacts ==
  ASSUME TypeOK, NEW c, NEW as, Decide(c, as)
  PROVE  /\ \/ call' = [call EXCEPT ![c] = Ended(as, "unavailable")]
            \/ call' = [call EXCEPT ![c] = Asked(as)]
         /\ breaker' \in [failures : 0..Threshold, state : {"closed", "open", "lapsed"}]
  <1>1. breaker \in [failures : 0..Threshold, state : {"closed", "open", "lapsed"}]
    BY DEF TypeOK
  <1>2. SuccessRecorded \in [failures : 0..Threshold, state : {"closed", "open", "lapsed"}]
    BY GovernedToolConstants DEF SuccessRecorded
  <1>3. CASE breaker.state = "open"
    BY <1>1, <1>3 DEF Decide
  <1>4. CASE breaker.state # "open"
    BY <1>1, <1>2, <1>4 DEF Decide, Asked
  <1> QED
    BY <1>3, <1>4

\* A failure that is recorded.
LEMMA BreakerFacts ==
  ASSUME NEW b \in [failures : 0..Threshold, state : {"closed", "open", "lapsed"}]
  PROVE  /\ FailureRecorded(b) \in [failures : 0..Threshold, state : {"closed", "open", "lapsed"}]
         /\ SuccessRecorded \in [failures : 0..Threshold, state : {"closed", "open", "lapsed"}]
  BY GovernedToolConstants DEF FailureRecorded, SuccessRecorded

\* A call that ends with anything but an escalation, or not reevaluated.
LEMMA EndedOK ==
  ASSUME NEW k, StageOK(k), NEW result \in Ends,
         result = "escalated" => k.stage # "reevaluation"
  PROVE  /\ CallOK(Ended(k, result))
         /\ Ended(k, result).pc = "done"
         /\ Ended(k, result).input = k.input
         /\ Ended(k, result).status = k.status
         /\ PastConfirmation(Ended(k, result)) => k.ran
  <1> DEFINE e == Ended(k, result)
  <1>1. k \in Call /\ result \in Results
    BY DEF StageOK, Results
  <1>2. /\ e \in Call /\ e.pc = "done" /\ e.attempt = 0 /\ e.pending = {} /\ e.reply = None
        /\ e.result = result /\ e.input = k.input /\ e.stage = k.stage
        /\ e.status = k.status /\ e.ran = k.ran
    <2>1. e.pc = "done" /\ e.attempt = 0 /\ e.pending = {} /\ e.reply = None /\ e.result = result
      BY <1>1 DEF Ended, Call
    <2>2. e.input = k.input /\ e.stage = k.stage /\ e.status = k.status /\ e.ran = k.ran
      BY <1>1 DEF Ended, Call
    <2>3. 0 \in 0 .. MaxRetries
      BY GovernedToolConstants
    <2>4. e \in Call
      BY <1>1, <2>3 DEF Ended, Call, Steps
    <2> QED
      BY <2>1, <2>2, <2>4
  <1> HIDE DEF e
  <1>3. e.reply \notin Outcomes
    BY <1>2, GovernedToolConstants
  <1>4. CallOK(e)
    BY <1>2, <1>3 DEF CallOK, StageOK, Escalates, Outcomes
  <1> QED
    BY <1>2, <1>3, <1>4 DEF PastConfirmation, Outcomes, e

\* A call that asks, in a stage it may be in.
LEMMA AskedOK ==
  ASSUME NEW k, StageOK(k), k.input \in Input, k.result # "escalated", ~k.ran
  PROVE  /\ CallOK(Asked(k))
         /\ Asked(k).pc = "deciding"
         /\ Asked(k).input = k.input
         /\ Asked(k).status = k.status
         /\ ~PastConfirmation(Asked(k))
  <1> DEFINE a == Asked(k)
  <1>0. k \in Call
    BY DEF StageOK
  <1>1. 1 \in 0 .. MaxRetries /\ {1} \subseteq 1 .. MaxRetries
    BY GovernedToolConstants
  <1>2. /\ a \in Call /\ a.pc = "deciding" /\ a.attempt = 1 /\ a.pending = {1} /\ a.reply = None
        /\ a.result = k.result /\ a.input = k.input /\ a.stage = k.stage
        /\ a.status = k.status /\ a.ran = k.ran
    BY <1>0, <1>1 DEF Asked, Call, Steps
  <1> HIDE DEF a
  <1>3. a.reply \notin Outcomes
    BY <1>2, GovernedToolConstants
  <1>4. CallOK(a)
    BY <1>2, <1>3 DEF CallOK, StageOK, Escalates, Outcomes
  <1> QED
    BY <1>2, <1>3, <1>4 DEF PastConfirmation, Outcomes, a

\* A call that goes on to another step behind an approval, or to its ticket.
LEMMA MovedOK ==
  ASSUME NEW k, CallOK(k), k.pc \notin {"free", "done"},
         NEW step \in {"opening", "polling", "issuing", "notifying", "running"},
         step \in {"opening", "polling"} => k.stage = "initial",
         step = "notifying" => k.input.kind = "model",
         step \in {"issuing", "notifying", "running"} =>
           (Escalates(k) => k.status = "APPROVED")
  PROVE  LET m == [k EXCEPT !.pc = step] IN
         /\ CallOK(m)
         /\ m.pc = step
         /\ m.input = k.input
         /\ m.status = k.status
         /\ PastConfirmation(m) => PastConfirmation(k) \/ step = "running"
  <1> DEFINE m == [k EXCEPT !.pc = step]
  <1>1. k \in Call
    BY DEF CallOK, StageOK
  <1>2. /\ m \in Call /\ m.pc = step /\ m.attempt = k.attempt /\ m.pending = k.pending
        /\ m.reply = k.reply /\ m.result = k.result /\ m.input = k.input
        /\ m.stage = k.stage /\ m.status = k.status /\ m.ran = k.ran
    BY <1>1 DEF Call, Steps
  <1> HIDE DEF m
  <1>3. CallOK(m)
    BY <1>2 DEF CallOK, StageOK, Escalates
  <1>4. PastConfirmation(m) => PastConfirmation(k) \/ step = "running"
    BY <1>2 DEF PastConfirmation
  <1> QED
    BY <1>2, <1>3, <1>4 DEF m

\* Two calls that agree in all fields.
LEMMA SameCall ==
  ASSUME NEW k \in Call, NEW m \in Call,
         k.pc = m.pc, k.input = m.input, k.stage = m.stage, k.attempt = m.attempt,
         k.pending = m.pending, k.reply = m.reply, k.status = m.status,
         k.ran = m.ran, k.result = m.result
  PROVE  k = m
  BY DEF Call

\* The call has a reply, or waits for another one.
Replied(k, attempt, reply, pending) ==
  [k EXCEPT !.attempt = attempt, !.reply = reply, !.pending = pending]

\* A call that gets a reply, or waits for another one.
LEMMA RepliedOK ==
  ASSUME NEW k, CallOK(k), k.pc \notin {"free", "done"},
         NEW pending \in SUBSET (1 .. MaxRetries), NEW attempt \in 0 .. MaxRetries,
         NEW reply \in Outcomes \union {None},
         reply = "ESCALATE_TO_HUMAN" => k.stage # "reevaluation",
         reply \in Allows => (Escalates(k) => k.status = "APPROVED")
  PROVE  LET m == Replied(k, attempt, reply, pending) IN
         /\ CallOK(m)
         /\ m.pc = k.pc
         /\ m.input = k.input
         /\ m.status = k.status
         /\ PastConfirmation(m) =>
              PastConfirmation(k) \/ (k.stage = "confirmation" /\ reply \in Allows)
  <1> DEFINE m == Replied(k, attempt, reply, pending)
  <1>1. k \in Call
    BY DEF CallOK, StageOK
  <1>2. /\ m \in Call /\ m.pc = k.pc /\ m.attempt = attempt /\ m.pending = pending
        /\ m.reply = reply /\ m.result = k.result /\ m.input = k.input
        /\ m.stage = k.stage /\ m.status = k.status /\ m.ran = k.ran
    <2>1. m.pc = k.pc /\ m.attempt = attempt /\ m.pending = pending /\ m.reply = reply
      BY <1>1 DEF Call, Replied
    <2>2. /\ m.result = k.result /\ m.input = k.input
          /\ m.stage = k.stage /\ m.status = k.status /\ m.ran = k.ran
      BY <1>1 DEF Call, Replied
    <2>3. m \in Call
      BY <1>1 DEF Call, Replied
    <2> QED
      BY <2>1, <2>2, <2>3
  <1> HIDE DEF m
  <1>3. CallOK(m)
    BY <1>2 DEF CallOK, StageOK, Escalates
  <1>4. PastConfirmation(m) =>
          PastConfirmation(k) \/ (k.stage = "confirmation" /\ reply \in Allows)
    BY <1>2 DEF PastConfirmation
  <1> QED
    BY <1>2, <1>3, <1>4 DEF m

-----------------------------------------------------------------------------
(***************************************************************************)
(* The steps.                                                              *)
(***************************************************************************)

Breakers == [failures : 0..Threshold, state : {"closed", "open", "lapsed"}]

\* A step of one call: what it has to keep.
LEMMA CallStep ==
  ASSUME Inv, NEW c \in Calls, NEW k,
         call' = [call EXCEPT ![c] = k], CallOK(k), k.pc # "free",
         call[c].pc # "free" => k.input = call[c].input,
         UNCHANGED <<profile, credential>>, breaker' \in Breakers,
         answers' \subseteq [call : Calls, context : SUBSET Flags, outcome : Outcomes],
         \A a \in answers' : a \in answers \/ (a.call = c /\ a.outcome \in Possible(k, a.context)),
         accepted \subseteq accepted', accepted' \subseteq Calls,
         (profile.broker /\ k.input.kind = "tool" /\ PastConfirmation(k)) => c \in accepted',
         tickets' \in [Calls \X Purposes -> Ticket \union {None}],
         \A d \in Calls \ {c} : Kept(tickets[<<d, "stepUp">>], tickets'[<<d, "stepUp">>]),
         Fits(k, tickets'[<<c, "stepUp">>])
  PROVE  Inv'
  <1>1. call \in [Calls -> Call]
    BY DEF Inv, TypeOK
  <1>2. call'[c] = k /\ \A d \in Calls \ {c} : call'[d] = call[d]
    BY <1>1
  <1>3. TypeOK'
    BY <1>1 DEF Inv, TypeOK, CallOK, StageOK, Breakers
  <1>4. CallsOK'
    BY <1>2 DEF Inv, CallsOK
  <1>5. TicketsMatch'
    BY <1>2 DEF Inv, TicketsMatch, Fits, Kept
  <1>6. TokensMatch'
    BY <1>2 DEF Inv, TokensMatch
  <1>7. ASSUME NEW a \in answers'
        PROVE  call'[a.call].pc # "free" /\ a.outcome \in Possible(call'[a.call], a.context)
    <2>1. a.call \in Calls
      OBVIOUS
    <2>2. CASE a.call = c /\ a.outcome \in Possible(k, a.context)
      BY <1>2, <2>2
    <2>3. CASE a \in answers
      <3>1. call[a.call].pc # "free" /\ a.outcome \in Possible(call[a.call], a.context)
        BY <2>3 DEF Inv, AnswersMatch
      <3>2. CASE a.call = c
        BY <1>2, <3>1, <3>2 DEF Possible
      <3> QED
        BY <1>2, <2>1, <3>1, <3>2
    <2> QED
      BY <2>2, <2>3
  <1>8. AnswersMatch'
    BY <1>7 DEF AnswersMatch
  <1> QED
    BY <1>3, <1>4, <1>5, <1>6, <1>8 DEF Inv

\* The step of a call that leaves the answers, the tokens and the tickets.
LEMMA OwnStep ==
  ASSUME Inv, NEW c \in Calls, NEW k,
         call' = [call EXCEPT ![c] = k], CallOK(k), k.pc # "free",
         call[c].pc # "free" => k.input = call[c].input,
         breaker' \in Breakers,
         UNCHANGED <<profile, credential, answers, accepted, tickets>>,
         (profile.broker /\ k.input.kind = "tool" /\ PastConfirmation(k)) => c \in accepted,
         Fits(k, tickets[<<c, "stepUp">>])
  PROVE  Inv'
  <1>1. /\ answers' \subseteq [call : Calls, context : SUBSET Flags, outcome : Outcomes]
        /\ accepted' \subseteq Calls
        /\ tickets' \in [Calls \X Purposes -> Ticket \union {None}]
    BY DEF Inv, TypeOK
  <1> QED
    BY <1>1, CallStep DEF Kept

\* What is known of a call that has begun.
LEMMA CallFacts ==
  ASSUME Inv, NEW c \in Calls
  PROVE  /\ CallOK(call[c]) /\ StageOK(call[c])
         /\ (profile.broker /\ call[c].input.kind = "tool" /\ PastConfirmation(call[c])) =>
              c \in accepted
         /\ Fits(call[c], tickets[<<c, "stepUp">>])
         /\ breaker \in Breakers
  BY DEF Inv, CallsOK, CallOK, TokensMatch, TicketsMatch, TypeOK, Breakers

\* A call that ends.
LEMMA EndStep ==
  ASSUME Inv, NEW c \in Calls, NEW result \in Ends,
         result = "escalated" => call[c].stage # "reevaluation",
         call' = [call EXCEPT ![c] = Ended(@, result)],
         breaker' \in Breakers,
         UNCHANGED <<profile, credential, answers, accepted, tickets>>
  PROVE  Inv'
  <1> DEFINE k == Ended(call[c], result)
  <1>1. /\ CallOK(k) /\ k.pc = "done" /\ k.input = call[c].input /\ k.status = call[c].status
        /\ PastConfirmation(k) => call[c].ran
    BY CallFacts, EndedOK
  <1>2. call' = [call EXCEPT ![c] = k]
    OBVIOUS
  <1> HIDE DEF k
  <1>3. (profile.broker /\ k.input.kind = "tool" /\ PastConfirmation(k)) => c \in accepted
    BY <1>1, CallFacts DEF PastConfirmation
  <1>4. Fits(k, tickets[<<c, "stepUp">>])
    BY <1>1, CallFacts DEF Fits
  <1> QED
    BY <1>1, <1>2, <1>3, <1>4, OwnStep

\* A call that decides, in a stage it may be in.
LEMMA DecideStep ==
  ASSUME Inv, NEW c \in Calls, NEW as, Decide(c, as),
         StageOK(as), as.input \in Input, as.result # "escalated", ~as.ran,
         call[c].pc # "free" => as.input = call[c].input,
         as.status = "APPROVED" => Approved(tickets[<<c, "stepUp">>]),
         UNCHANGED <<profile, credential, answers, accepted, tickets>>
  PROVE  Inv'
  <1>0. breaker' \in Breakers
    BY DecideFacts DEF Inv, Breakers
  <1>1. CASE call' = [call EXCEPT ![c] = Ended(as, "unavailable")]
    <2> DEFINE k == Ended(as, "unavailable")
    <2>1. /\ CallOK(k) /\ k.pc = "done" /\ k.input = as.input /\ k.status = as.status
          /\ ~PastConfirmation(k)
      BY EndedOK DEF Ends
    <2> HIDE DEF k
    <2> QED
      BY <1>0, <1>1, <2>1, OwnStep DEF k, Fits
  <1>2. CASE call' = [call EXCEPT ![c] = Asked(as)]
    <2> DEFINE k == Asked(as)
    <2>1. /\ CallOK(k) /\ k.pc = "deciding" /\ k.input = as.input /\ k.status = as.status
          /\ ~PastConfirmation(k)
      BY AskedOK
    <2> HIDE DEF k
    <2> QED
      BY <1>0, <1>2, <2>1, OwnStep DEF k, Fits
  <1> QED
    BY <1>1, <1>2, DecideFacts DEF Inv

\* A call that goes on to another step.
LEMMA MoveStep ==
  ASSUME Inv, NEW c \in Calls, call[c].pc \notin {"free", "done"},
         NEW step \in {"opening", "issuing", "notifying", "running"},
         step = "opening" => call[c].stage = "initial",
         step = "notifying" => call[c].input.kind = "model",
         step \in {"issuing", "notifying", "running"} =>
           (Escalates(call[c]) => call[c].status = "APPROVED"),
         step = "running" =>
           ((profile.broker /\ call[c].input.kind = "tool") => c \in accepted),
         call' = [call EXCEPT ![c] = [@ EXCEPT !.pc = step]],
         breaker' \in Breakers,
         UNCHANGED <<profile, credential, answers, accepted, tickets>>
  PROVE  Inv'
  <1> DEFINE k == [call[c] EXCEPT !.pc = step]
  <1>1. /\ CallOK(k) /\ k.pc = step /\ k.input = call[c].input /\ k.status = call[c].status
        /\ PastConfirmation(k) => PastConfirmation(call[c]) \/ step = "running"
    <2>1. CallOK(call[c])
      BY CallFacts
    <2>2. /\ step \in {"opening", "polling", "issuing", "notifying", "running"}
          /\ step \in {"opening", "polling"} => call[c].stage = "initial"
      OBVIOUS
    <2> QED
      BY <2>1, <2>2, MovedOK
  <1>2. call' = [call EXCEPT ![c] = k]
    OBVIOUS
  <1> HIDE DEF k
  <1>3. (profile.broker /\ k.input.kind = "tool" /\ PastConfirmation(k)) => c \in accepted
    BY <1>1, CallFacts
  <1>4. Fits(k, tickets[<<c, "stepUp">>])
    BY <1>1, CallFacts DEF Fits
  <1> QED
    BY <1>1, <1>2, <1>3, <1>4, OwnStep

\* A call that gets a reply or waits for another one, and what the gateway
\* keeps of it.
LEMMA ReplyStep ==
  ASSUME Inv, NEW c \in Calls, call[c].pc \notin {"free", "done"},
         NEW pending \in SUBSET (1 .. MaxRetries), NEW attempt \in 0 .. MaxRetries,
         NEW reply \in Outcomes \union {None},
         reply = "ESCALATE_TO_HUMAN" => call[c].stage # "reevaluation",
         reply \in Allows => (Escalates(call[c]) => call[c].status = "APPROVED"),
         (/\ profile.broker /\ call[c].input.kind = "tool"
          /\ call[c].stage = "confirmation" /\ reply \in Allows) => c \in accepted',
         call' = [call EXCEPT ![c] = Replied(@, attempt, reply, pending)],
         breaker' \in Breakers,
         answers' \subseteq [call : Calls, context : SUBSET Flags, outcome : Outcomes],
         \A a \in answers' :
           a \in answers \/ (a.call = c /\ a.outcome \in Possible(call[c], a.context)),
         accepted \subseteq accepted', accepted' \subseteq Calls,
         UNCHANGED <<profile, credential, tickets>>
  PROVE  Inv'
  <1> DEFINE k == Replied(call[c], attempt, reply, pending)
  <1>1. /\ CallOK(k) /\ k.pc = call[c].pc /\ k.input = call[c].input
        /\ k.status = call[c].status
        /\ PastConfirmation(k) =>
             PastConfirmation(call[c]) \/ (call[c].stage = "confirmation" /\ reply \in Allows)
    <2>1. CallOK(call[c])
      BY CallFacts
    <2> QED
      BY <2>1, RepliedOK
  <1>2. call' = [call EXCEPT ![c] = k]
    OBVIOUS
  <1> HIDE DEF k
  <1>3. (profile.broker /\ k.input.kind = "tool" /\ PastConfirmation(k)) => c \in accepted'
    BY <1>1, CallFacts
  <1>4. Fits(k, tickets'[<<c, "stepUp">>])
    BY <1>1, CallFacts DEF Fits
  <1>5. \A a \in answers' : a \in answers \/ (a.call = c /\ a.outcome \in Possible(k, a.context))
    BY <1>1 DEF Possible
  <1>6. tickets' \in [Calls \X Purposes -> Ticket \union {None}]
    BY DEF Inv, TypeOK
  <1> QED
    BY <1>1, <1>2, <1>3, <1>4, <1>5, <1>6, CallStep DEF Kept

\* The call as it was: a step elsewhere that keeps what was approved.
LEMMA OtherStep ==
  ASSUME Inv, TypeOK', UNCHANGED <<profile, call, answers, accepted>>,
         \A d \in Calls : Kept(tickets[<<d, "stepUp">>], tickets'[<<d, "stepUp">>])
  PROVE  Inv'
  BY DEF Inv, CallsOK, TicketsMatch, TokensMatch, AnswersMatch, Fits, Kept

\* A new call.
LEMMA BeginStep ==
  ASSUME Inv, NEW c \in Calls, NEW input \in InputsOf[c], Begin(c, input)
  PROVE  Inv'
  <1>1. call[c] = NoCall /\ call[c].pc = "free" /\ breaker \in Breakers
    BY CallFacts DEF Begin, At, CallOK
  <1>2. UNCHANGED <<profile, credential, answers, accepted, tickets>>
    BY DEF Begin
  <1>3. CASE End(c, "refused") /\ UNCHANGED breaker
    BY <1>1, <1>2, <1>3, EndStep DEF End, Ends
  <1>4. CASE Decide(c, [NoCall EXCEPT !.input = input])
    <2> DEFINE as == [NoCall EXCEPT !.input = input]
    <2>1. input \in Input
      BY GovernedToolConstants
    <2>2. None \in Results /\ 0 \in 0 .. MaxRetries
      BY GovernedToolConstants DEF Results
    <2>3. /\ as \in Call /\ as.stage = "initial" /\ as.status = None /\ as.result = None
          /\ ~as.ran /\ as.input = input
      BY <2>1, <2>2 DEF NoCall, Call, Steps, Stages
    <2> HIDE DEF as
    <2>4. None # "APPROVED" /\ None # "escalated"
      BY GovernedToolConstants DEF Resolved, Ends
    <2>5. StageOK(as)
      BY <2>3, <2>4 DEF StageOK
    <2> QED
      BY <1>1, <1>2, <1>4, <2>1, <2>3, <2>4, <2>5, DecideStep DEF as
  <1> QED
    BY <1>3, <1>4 DEF Begin

\* The answer of the gateway arrives.
LEMMA ReceiveStep ==
  ASSUME Inv, NEW c \in Calls, Receive(c)
  PROVE  Inv'
  <1> DEFINE k == call[c]
  <1>1. /\ CallOK(k) /\ k.pc = "deciding" /\ k.reply # None
        /\ (profile.broker /\ k.input.kind = "tool" /\ PastConfirmation(k)) => c \in accepted
    BY CallFacts DEF Receive, At
  <1>2. /\ k.reply \in Outcomes /\ k.input \in Input
        /\ k.input.kind \in Kinds
    BY <1>1 DEF CallOK, StageOK, Call, Input
  <1>3. breaker' \in Breakers /\ UNCHANGED <<profile, credential, answers, accepted, tickets>>
    BY BreakerFacts, CallFacts DEF Receive, Breakers
  <1>4. CASE k.reply = "ESCALATE_TO_HUMAN" /\ profile.stepUp
             /\ k.stage = "initial" /\ k.input.kind # "data"
    <2>1. call' = [call EXCEPT ![c] = [@ EXCEPT !.pc = "opening"]]
      BY <1>4 DEF Receive
    <2> QED
      BY <1>1, <1>3, <1>4, <2>1, MoveStep
  <1>5. CASE ~(k.reply = "ESCALATE_TO_HUMAN" /\ profile.stepUp
               /\ k.stage = "initial" /\ k.input.kind # "data")
    <2>1. call' = [call EXCEPT ![c] = Handled(k, k.reply)]
      BY <1>5 DEF Receive
    <2>2. CASE k.reply = "DENY"
      <3>1. Handled(k, k.reply) = Ended(k, "denied")
        BY <2>2 DEF Handled, Allows
      <3> QED
        BY <1>3, <2>1, <3>1, EndStep DEF Ends
    <2>3. CASE k.reply = "ESCALATE_TO_HUMAN"
      <3>1. Handled(k, k.reply) = Ended(k, "escalated")
        BY <2>3 DEF Handled, Allows
      <3>2. k.stage # "reevaluation"
        BY <1>1, <2>3 DEF CallOK
      <3> QED
        BY <1>3, <2>1, <3>1, <3>2, EndStep DEF Ends
    <2>4. CASE k.reply \in Allows
      <3>0. Escalates(k) => k.status = "APPROVED"
        BY <1>1, <2>4 DEF CallOK
      <3>1. CASE k.input.kind = "tool"
        <4>1. Handled(k, k.reply) = ToolAllowed(k)
          BY <2>4, <3>1 DEF Handled, Allows
        <4>2. CASE WantsToken(k)
          BY <1>1, <1>3, <2>1, <3>0, <4>1, <4>2, MoveStep DEF ToolAllowed
        <4>3. CASE ~WantsToken(k)
          <5>1. profile.broker => c \in accepted
            BY <1>1, <2>4, <3>1, <4>3 DEF WantsToken, PastConfirmation
          <5> QED
            BY <1>1, <1>3, <2>1, <3>0, <4>1, <4>3, <5>1, MoveStep DEF ToolAllowed
        <4> QED
          BY <4>2, <4>3
      <3>2. CASE k.input.kind = "model"
        <4>1. Handled(k, k.reply) = ModelAllowed(k, k.reply)
          BY <2>4, <3>2 DEF Handled, Allows
        <4>2. CASE k.reply = "ALLOW"
          BY <1>1, <1>3, <2>1, <3>0, <3>2, <4>1, <4>2, MoveStep DEF ModelAllowed
        <4>3. CASE k.reply # "ALLOW"
          BY <1>1, <1>3, <2>1, <3>0, <3>2, <4>1, <4>3, MoveStep DEF ModelAllowed
        <4> QED
          BY <4>2, <4>3
      <3>3. CASE k.input.kind = "data"
        <4>1. Handled(k, k.reply) = Ended(k, "returned")
          BY <2>4, <3>3 DEF Handled, Allows, DataAllowed
        <4> QED
          BY <1>3, <2>1, <4>1, EndStep DEF Ends
      <3>4. CASE k.input.kind = "agent"
        <4>1. Handled(k, k.reply) = AgentAllowed(k)
          BY <2>4, <3>4 DEF Handled, Allows
        <4>2. CASE WantsToken(k)
          BY <1>1, <1>3, <2>1, <3>0, <4>1, <4>2, MoveStep DEF AgentAllowed
        <4>3. CASE ~WantsToken(k)
          BY <1>3, <2>1, <4>1, <4>3, EndStep DEF AgentAllowed, Ends
        <4> QED
          BY <4>2, <4>3
      <3> QED
        BY <1>2, <3>1, <3>2, <3>3, <3>4 DEF Kinds
    <2> QED
      BY <1>2, <2>2, <2>3, <2>4 DEF Outcomes
  <1> QED
    BY <1>4, <1>5

\* A timeout, and any other failure of the gateway.
LEMMA TimeOutStep ==
  ASSUME Inv, NEW c \in Calls, TimeOut(c) \/ Break(c)
  PROVE  Inv'
  <1>1. /\ CallOK(call[c]) /\ call[c] \in Call /\ call[c].pc = "deciding"
        /\ breaker' \in Breakers
        /\ UNCHANGED <<profile, credential, answers, accepted, tickets>>
    BY BreakerFacts, CallFacts DEF TimeOut, Break, At, Breakers, StageOK
  <1>2. CASE End(c, "unavailable")
    BY <1>1, <1>2, EndStep DEF End, Ends
  <1>3. CASE TimeOut(c) /\ call[c].attempt < MaxRetries
    <2> DEFINE attempt == call[c].attempt + 1
               pending == call[c].pending \union {attempt}
    <2>1. call[c].attempt \in 0 .. MaxRetries /\ call[c].pending \subseteq 1 .. MaxRetries
      BY <1>1 DEF Call
    <2>2. attempt \in 0 .. MaxRetries /\ pending \in SUBSET (1 .. MaxRetries)
      BY <1>3, <2>1, GovernedToolConstants
    <2>3. call' = [call EXCEPT ![c] = Replied(@, attempt, None, pending)]
      BY <1>3 DEF TimeOut, Replied
    <2> HIDE DEF attempt, pending
    <2>4. None \notin Outcomes
      BY GovernedToolConstants
    <2>5. answers' \subseteq [call : Calls, context : SUBSET Flags, outcome : Outcomes]
          /\ accepted' \subseteq Calls /\ accepted' = accepted /\ answers' = answers
      BY <1>1 DEF Inv, TypeOK
    <2> QED
      BY <1>1, <2>2, <2>3, <2>4, <2>5, ReplyStep DEF Outcomes
  <1> QED
    BY <1>2, <1>3 DEF TimeOut, Break

\* The steps around the ticket of a call.
LEMMA TicketStep ==
  ASSUME Inv, NEW c \in Calls,
         OpenTicket(c) \/ OpenFails(c) \/ ReadResolution(c) \/ StopPolling(c)
  PROVE  Inv'
  <1>1. /\ CallOK(call[c]) /\ StageOK(call[c]) /\ call[c] \in Call
        /\ call[c].pc \in {"opening", "polling"}
        /\ call[c].stage = "initial" /\ call[c].status # "APPROVED"
        /\ call[c].input \in Input /\ call[c].result # "escalated"
        /\ breaker \in Breakers /\ ~call[c].ran
        /\ call[c].pc = "polling" => tickets[<<c, "stepUp">>] # None
        /\ (profile.broker /\ call[c].input.kind = "tool" /\ PastConfirmation(call[c])) =>
             c \in accepted
    BY CallFacts
       DEF OpenTicket, OpenFails, ReadResolution, StopPolling, At, CallOK, StageOK, Fits
  <1>2. /\ answers \subseteq [call : Calls, context : SUBSET Flags, outcome : Outcomes]
        /\ accepted \subseteq Calls
        /\ tickets \in [Calls \X Purposes -> Ticket \union {None}]
    BY DEF Inv, TypeOK
  <1>3. /\ NewTicket(c, "stepUp") \in [Calls \X Purposes -> Ticket \union {None}]
        /\ \A d \in Calls \ {c} :
             NewTicket(c, "stepUp")[<<d, "stepUp">>] = tickets[<<d, "stepUp">>]
        /\ NewTicket(c, "stepUp")[<<c, "stepUp">>] # None
    <2>1. [status |-> "PENDING", late |-> FALSE] \in Ticket
      BY DEF Ticket
    <2> QED
      BY <1>2, <2>1, GovernedToolConstants DEF NewTicket, Purposes
  <1>4. ASSUME NEW k, CallOK(k), k.pc # "free", k.input = call[c].input,
               k.status # "APPROVED",
               k.pc = "polling" => tickets'[<<c, "stepUp">>] # None,
               PastConfirmation(k) => PastConfirmation(call[c]),
               call' = [call EXCEPT ![c] = k],
               tickets' \in {tickets, NewTicket(c, "stepUp")},
               UNCHANGED <<profile, credential, answers, accepted, breaker>>
        PROVE  Inv'
    BY <1>1, <1>2, <1>3, <1>4, CallStep DEF Kept, Fits
  <1>5. CASE OpenTicket(c)
    <2> DEFINE k == [call[c] EXCEPT !.pc = "polling"]
    <2>1. /\ CallOK(k) /\ k.pc = "polling" /\ k.input = call[c].input
          /\ k.status = call[c].status
          /\ PastConfirmation(k) => PastConfirmation(call[c])
      BY <1>1, MovedOK
    <2>2. /\ call' = [call EXCEPT ![c] = k]
          /\ tickets' = NewTicket(c, "stepUp")
          /\ UNCHANGED <<profile, credential, answers, accepted, breaker>>
      BY <1>5 DEF OpenTicket
    <2> HIDE DEF k
    <2> QED
      BY <1>1, <1>3, <1>4, <2>1, <2>2
  <1>6. CASE OpenFails(c)
    <2> DEFINE k == Ended(call[c], "escalated")
    <2>1. /\ CallOK(k) /\ k.pc = "done" /\ k.input = call[c].input
          /\ k.status = call[c].status
          /\ PastConfirmation(k) => call[c].ran
      BY <1>1, EndedOK DEF Ends
    <2>2. /\ call' = [call EXCEPT ![c] = k]
          /\ tickets' \in {tickets, NewTicket(c, "stepUp")}
          /\ UNCHANGED <<profile, credential, answers, accepted, breaker>>
      BY <1>6 DEF OpenFails, End
    <2> HIDE DEF k
    <2>3. PastConfirmation(k) => PastConfirmation(call[c])
      BY <2>1 DEF PastConfirmation
    <2> QED
      BY <1>1, <1>4, <2>1, <2>2, <2>3
  <1>7. ASSUME NEW status \in {"REJECTED", "SLA_EXPIRED", None}, Unapproved(c, status),
               UNCHANGED <<profile, credential, answers, accepted, tickets>>
        PROVE  Inv'
    <2> DEFINE e == Ended(call[c], "escalated")
               k == [e EXCEPT !.status = status]
    <2>1. /\ CallOK(e) /\ e.pc = "done" /\ e.input = call[c].input
          /\ PastConfirmation(e) => call[c].ran
      BY <1>1, EndedOK DEF Ends
    <2>2. e \in Call /\ e.stage = "initial" /\ ~e.ran
      BY <1>1, <2>1 DEF CallOK, StageOK, Ended, Call
    <2>3. call' = [call EXCEPT ![c] = k] /\ breaker' = breaker
      BY <1>7 DEF Unapproved
    <2> HIDE DEF e
    <2>4. /\ k.pc = e.pc /\ k.attempt = e.attempt /\ k.pending = e.pending
          /\ k.reply = e.reply /\ k.result = e.result /\ k.input = e.input
          /\ k.stage = e.stage /\ k.status = status /\ k.ran = e.ran
      BY <2>2 DEF Call
    <2>5. k \in Call
      BY <2>2 DEF Call
    <2> HIDE DEF k
    <2>6. status # "APPROVED"
      BY GovernedToolConstants DEF Resolved
    <2>7. CallOK(k)
      <3>1. Escalates(k) => ~k.ran /\ k.reply \notin Allows
        <4>1. e.reply = None
          BY <1>1 DEF e, Ended, Call
        <4>2. e.reply \notin Allows
          BY <4>1, GovernedToolConstants DEF Outcomes
        <4> QED
          BY <2>2, <2>4, <4>2
      <3> QED
        BY <2>1, <2>2, <2>4, <2>5, <2>6, <3>1 DEF CallOK, StageOK
    <2>8. PastConfirmation(k) => PastConfirmation(call[c])
      BY <2>1, <2>2, <2>4 DEF PastConfirmation
    <2> QED
      BY <1>4, <1>7, <2>1, <2>3, <2>4, <2>6, <2>7, <2>8
  <1>8. CASE ReadResolution(c)
    <2> DEFINE status == tickets[<<c, "stepUp">>].status
    <2>1. status \in Resolved
          /\ UNCHANGED <<profile, credential, answers, accepted, tickets>>
      BY <1>8 DEF ReadResolution
    <2>2. CASE status = "APPROVED"
      <3> DEFINE as == [call[c] EXCEPT !.stage = "reevaluation", !.status = status]
      <3>1. Decide(c, as)
        BY <1>8, <2>2 DEF ReadResolution
      <3>2. /\ as \in Call /\ as.stage = "reevaluation" /\ as.status = "APPROVED"
            /\ as.result = call[c].result /\ as.ran = call[c].ran
            /\ as.input = call[c].input
        BY <1>1, <2>2 DEF Call, Stages
      <3> HIDE DEF as
      <3>3. StageOK(as)
        BY <1>1, <3>2 DEF StageOK
      <3>4. Approved(tickets[<<c, "stepUp">>])
        BY <1>1, <1>8, <2>2 DEF Approved, ReadResolution, At
      <3> QED
        BY <1>1, <2>1, <3>1, <3>2, <3>3, <3>4, DecideStep
    <2>3. CASE status # "APPROVED"
      <3>1. Unapproved(c, status)
        BY <1>8, <2>3 DEF ReadResolution
      <3> HIDE DEF status
      <3> QED
        BY <1>7, <2>1, <2>3, <3>1 DEF Resolved
    <2> QED
      BY <2>2, <2>3
  <1>9. CASE StopPolling(c)
    BY <1>7, <1>9 DEF StopPolling
  <1> QED
    BY <1>5, <1>6, <1>8, <1>9

\* The token of a call.
LEMMA TokenStep ==
  ASSUME Inv, NEW c \in Calls, IssueToken(c) \/ IssueFails(c)
  PROVE  Inv'
  <1>1. /\ CallOK(call[c]) /\ StageOK(call[c]) /\ call[c] \in Call
        /\ call[c].pc = "issuing" /\ call[c].input \in Input
        /\ call[c].result # "escalated" /\ ~call[c].ran
        /\ breaker \in Breakers
        /\ Fits(call[c], tickets[<<c, "stepUp">>])
        /\ UNCHANGED <<profile, credential, answers, accepted, tickets>>
    BY CallFacts DEF IssueToken, IssueFails, At, CallOK, StageOK
  <1>2. CASE \E result \in {"denied", "unavailable"} : End(c, result) /\ UNCHANGED breaker
    <2>1. PICK result \in {"denied", "unavailable"} : End(c, result) /\ UNCHANGED breaker
      BY <1>2
    <2> QED
      BY <1>1, <2>1, EndStep DEF End, Ends
  <1>3. CASE Decide(c, [call[c] EXCEPT !.stage = "confirmation"])
    <2> DEFINE as == [call[c] EXCEPT !.stage = "confirmation"]
    <2>1. /\ as \in Call /\ as.stage = "confirmation" /\ as.status = call[c].status
          /\ as.result = call[c].result /\ as.ran = call[c].ran
          /\ as.input = call[c].input
      BY <1>1 DEF Call, Stages
    <2> HIDE DEF as
    <2>2. Escalates(as) => as.status = "APPROVED"
      BY <1>1, <2>1 DEF CallOK, Escalates
    <2>3. StageOK(as)
      BY <2>1, <2>2 DEF StageOK
    <2>4. Decide(c, as)
      BY <1>3 DEF as
    <2> QED
      BY <1>1, <2>1, <2>3, <2>4, DecideStep DEF Fits
  <1> QED
    BY <1>2, <1>3 DEF IssueToken, IssueFails

\* HIC is told of a model that has impact.
LEMMA NotifyStep ==
  ASSUME Inv, NEW c \in Calls, Notify(c)
  PROVE  Inv'
  <1> DEFINE k == [call[c] EXCEPT !.pc = "running"]
  <1>1. /\ CallOK(call[c]) /\ call[c] \in Call /\ call[c].pc = "notifying"
        /\ Fits(call[c], tickets[<<c, "stepUp">>]) /\ breaker \in Breakers
        /\ (profile.broker /\ call[c].input.kind = "tool" /\ PastConfirmation(call[c])) =>
             c \in accepted
    BY CallFacts DEF Notify, At, CallOK, StageOK
  <1>2. /\ CallOK(k) /\ k.pc = "running" /\ k.input = call[c].input
        /\ k.status = call[c].status
    <2>1. Escalates(call[c]) => call[c].status = "APPROVED"
      BY <1>1 DEF CallOK
    <2> QED
      BY <1>1, <2>1, MovedOK
  <1>3. /\ call' = [call EXCEPT ![c] = k]
        /\ tickets' \in {tickets, NewTicket(c, "notice")}
        /\ UNCHANGED <<profile, credential, answers, accepted, breaker>>
    BY DEF Notify
  <1> HIDE DEF k
  <1>4. /\ answers \subseteq [call : Calls, context : SUBSET Flags, outcome : Outcomes]
        /\ accepted \subseteq Calls
        /\ tickets \in [Calls \X Purposes -> Ticket \union {None}]
    BY DEF Inv, TypeOK
  <1>5. /\ tickets' \in [Calls \X Purposes -> Ticket \union {None}]
        /\ \A d \in Calls : tickets'[<<d, "stepUp">>] = tickets[<<d, "stepUp">>]
    <2>1. [status |-> "PENDING", late |-> FALSE] \in Ticket
      BY DEF Ticket
    <2> QED
      BY <1>3, <1>4, <2>1 DEF NewTicket, Purposes
  <1>6. call[c].input.kind # "tool"
    BY <1>1 DEF CallOK
  <1> QED
    BY <1>1, <1>2, <1>3, <1>4, <1>5, <1>6, CallStep DEF Kept, Fits

\* A tool or a model runs.
LEMMA RunStep ==
  ASSUME Inv, NEW c \in Calls, Run(c)
  PROVE  Inv'
  <1>1. /\ CallOK(call[c]) /\ StageOK(call[c]) /\ call[c].pc = "running"
        /\ Fits(call[c], tickets[<<c, "stepUp">>]) /\ breaker \in Breakers
        /\ (profile.broker /\ call[c].input.kind = "tool") => c \in accepted
        /\ UNCHANGED <<profile, credential, answers, accepted, breaker, tickets>>
    BY CallFacts DEF Run, At, PastConfirmation
  <1>2. PICK result \in {"returned", "raised"} :
          call' = [call EXCEPT ![c] = [Ended(@, result) EXCEPT !.ran = TRUE]]
    BY DEF Run
  <1> DEFINE e == Ended(call[c], result)
             k == [e EXCEPT !.ran = TRUE]
  <1>3. /\ CallOK(e) /\ e.pc = "done" /\ e.input = call[c].input /\ e.status = call[c].status
    BY <1>1, EndedOK DEF Ends
  <1>4. e \in Call /\ e.stage = call[c].stage /\ e.result = result
    BY <1>1, <1>3 DEF CallOK, StageOK, Ended, Call
  <1>5. call' = [call EXCEPT ![c] = k]
    BY <1>2
  <1> HIDE DEF e
  <1>6. /\ k \in Call /\ k.ran = TRUE
        /\ k.pc = e.pc /\ k.attempt = e.attempt /\ k.pending = e.pending
        /\ k.reply = e.reply /\ k.result = e.result /\ k.input = e.input
        /\ k.stage = e.stage /\ k.status = e.status
    BY <1>4 DEF Call
  <1> HIDE DEF k
  <1>7. Escalates(k) => k.status = "APPROVED"
    BY <1>1, <1>3, <1>6 DEF CallOK, Escalates
  <1>8. CallOK(k)
    BY <1>3, <1>4, <1>6, <1>7 DEF CallOK, StageOK
  <1> QED
    BY <1>1, <1>3, <1>5, <1>6, <1>8, OwnStep DEF Fits

\* The gateway handles a request.
LEMMA HandleStep ==
  ASSUME Inv, NEW c \in Calls, NEW n \in call[c].pending,
         HandlePlain(c, n) \/ HandleConfirmation(c, n)
  PROVE  Inv'
  <1>1. /\ CallOK(call[c]) /\ call[c] \in Call /\ breaker \in Breakers
        /\ UNCHANGED <<profile, credential, breaker, tickets>>
    BY CallFacts DEF HandlePlain, HandleConfirmation, Answered, CallOK, StageOK
  <1>2. /\ call[c].pc \notin {"free", "done"} /\ call[c].input \in Input
    BY <1>1 DEF CallOK, NoCall
  <1>3. /\ answers \subseteq [call : Calls, context : SUBSET Flags, outcome : Outcomes]
        /\ accepted \subseteq Calls
    BY DEF Inv, TypeOK
  <1>4. /\ Sent(c) \in SUBSET Flags
        /\ call[c].stage # "reevaluation" => Sent(c) = call[c].input.flags
        /\ call[c].stage = "reevaluation" => Policy(call[c].input, Sent(c)) # "ESCALATE_TO_HUMAN"
        /\ Possible(call[c], Sent(c)) \subseteq Outcomes
    BY <1>2, ContextFacts, PolicyFacts DEF Possible, Outcomes
  <1>5. ASSUME NEW outcome \in Possible(call[c], Sent(c)), Answered(c, n, outcome),
               call[c].stage = "confirmation" /\ outcome \in Allows => c \in accepted',
               answers' \subseteq [call : Calls, context : SUBSET Flags, outcome : Outcomes],
               \A a \in answers' :
                 a \in answers \/ (a.call = c /\ a.outcome \in Possible(call[c], a.context)),
               accepted \subseteq accepted', accepted' \subseteq Calls
        PROVE  Inv'
    <2> DEFINE reply == IF n = call[c].attempt THEN outcome ELSE call[c].reply
               pending == call[c].pending \ {n}
    <2>1. outcome \in Outcomes
      BY <1>4
    <2>2. /\ outcome = "ESCALATE_TO_HUMAN" => call[c].stage # "reevaluation"
          /\ outcome \in Allows => (Escalates(call[c]) => call[c].status = "APPROVED")
      <3>1. CASE call[c].stage = "reevaluation"
        BY <1>1, <1>4, <3>1 DEF Possible, CallOK, StageOK
      <3>2. CASE call[c].stage # "reevaluation"
        BY <1>1, <1>4, <3>2 DEF Possible, CallOK, StageOK, Escalates, Allows
      <3> QED
        BY <3>1, <3>2
    <2>3. /\ reply \in Outcomes \union {None}
          /\ reply = "ESCALATE_TO_HUMAN" => call[c].stage # "reevaluation"
          /\ reply \in Allows => (Escalates(call[c]) => call[c].status = "APPROVED")
          /\ call[c].attempt \in 0 .. MaxRetries
          /\ pending \in SUBSET (1 .. MaxRetries)
      BY <1>1, <2>1, <2>2 DEF CallOK, Call
    <2> HIDE DEF reply, pending
    <2> DEFINE m == [call[c] EXCEPT !.pending = pending, !.reply = reply]
               r == Replied(call[c], call[c].attempt, reply, pending)
    <2>4. m = r
      <3>1. /\ m \in Call /\ m.pc = call[c].pc /\ m.attempt = call[c].attempt
            /\ m.pending = pending /\ m.reply = reply /\ m.result = call[c].result
            /\ m.input = call[c].input /\ m.stage = call[c].stage
            /\ m.status = call[c].status /\ m.ran = call[c].ran
        BY <1>1, <2>3 DEF Call
      <3>2. /\ r \in Call /\ r.pc = call[c].pc /\ r.attempt = call[c].attempt
            /\ r.pending = pending /\ r.reply = reply /\ r.result = call[c].result
            /\ r.input = call[c].input /\ r.stage = call[c].stage
            /\ r.status = call[c].status /\ r.ran = call[c].ran
        BY <1>1, <2>3 DEF Call, Replied
      <3> HIDE DEF m, r
      <3> QED
        BY <3>1, <3>2, SameCall
    <2>5. call' = [call EXCEPT ![c] = m]
      BY <1>5 DEF Answered, reply, pending
    <2>6. call' = [call EXCEPT ![c] = Replied(@, call[c].attempt, reply, pending)]
      BY <2>4, <2>5
    <2> HIDE DEF m, r
    <2>7. (/\ profile.broker /\ call[c].input.kind = "tool"
           /\ call[c].stage = "confirmation" /\ reply \in Allows) => c \in accepted'
      BY <1>5, CallFacts DEF reply, PastConfirmation
    <2> QED
      BY <1>1, <1>2, <1>5, <2>3, <2>6, <2>7, ReplyStep
  <1>6. CASE HandlePlain(c, n)
    <2>1. call[c].stage # "confirmation" /\ accepted' = accepted
      BY <1>6 DEF HandlePlain
    <2>2. ASSUME NEW a \in Decided(c), Answered(c, n, a.outcome), UNCHANGED answers
          PROVE  Inv'
      <3>1. a \in answers /\ a.call = c /\ a.context = Sent(c)
        BY DEF Decided
      <3>2. a.outcome \in Possible(call[c], Sent(c))
        BY <3>1 DEF Inv, AnswersMatch
      <3> QED
        BY <1>3, <1>5, <2>1, <2>2, <3>2
    <2>3. ASSUME NEW outcome \in Evaluations(c), Answered(c, n, outcome),
                 answers' = (answers \ Decided(c)) \union
                              {[call |-> c, context |-> Sent(c), outcome |-> outcome]}
          PROVE  Inv'
      <3>1. outcome \in Possible(call[c], Sent(c)) /\ outcome \in Outcomes
        BY <1>4 DEF Evaluations, Possible
      <3>2. /\ answers' \subseteq [call : Calls, context : SUBSET Flags, outcome : Outcomes]
            /\ \A a \in answers' :
                 a \in answers \/ (a.call = c /\ a.outcome \in Possible(call[c], a.context))
        BY <1>3, <1>4, <2>3, <3>1
      <3> QED
        BY <1>3, <1>5, <2>1, <2>3, <3>1, <3>2
    <2>4. CASE Answered(c, n, "DENY") /\ UNCHANGED answers
      BY <1>3, <1>5, <2>1, <2>4 DEF Possible
    <2> QED
      BY <1>6, <2>2, <2>3, <2>4 DEF HandlePlain
  <1>7. CASE HandleConfirmation(c, n)
    <2>1. answers' = answers
      BY <1>7 DEF HandleConfirmation
    <2>2. CASE Answered(c, n, "DENY") /\ UNCHANGED accepted
      BY <1>3, <1>5, <2>1, <2>2 DEF Possible, Allows
    <2>3. ASSUME accepted' = accepted \union {c}, NEW outcome \in Evaluations(c),
                 Answered(c, n, outcome)
          PROVE  Inv'
      <3>1. outcome \in Possible(call[c], Sent(c))
        BY DEF Evaluations, Possible
      <3> QED
        BY <1>3, <1>5, <2>1, <2>3, <3>1
    <2> QED
      BY <1>7, <2>2, <2>3 DEF HandleConfirmation
  <1> QED
    BY <1>6, <1>7

\* What happens around the calls: reviewers, deadlines, the breaker and the
\* credential.
LEMMA EnvironmentStep ==
  ASSUME Inv,
         \/ \E t \in DOMAIN tickets : Approve(t) \/ Reject(t) \/ DeadlinePasses(t)
         \/ CheckExpired \/ RecoveryElapses \/ LoadCredential \/ CredentialExpires
         \/ UNCHANGED vars
  PROVE  Inv'
  <1>0. TypeOK /\ DOMAIN tickets = Calls \X Purposes
        /\ tickets \in [Calls \X Purposes -> Ticket \union {None}]
        /\ \A d \in Calls : <<d, "stepUp">> \in Calls \X Purposes
    BY DEF Inv, TypeOK, Purposes
  <1>1. ASSUME NEW t \in DOMAIN tickets, NEW status \in Resolved, Resolve(t, status)
        PROVE  Inv'
    <2> DEFINE new == [tickets[t] EXCEPT !.status = status]
    <2>1. tickets[t] \in Ticket /\ tickets[t].status = "PENDING" /\ tickets' = [tickets EXCEPT ![t] = new]
      BY <1>0, <1>1 DEF Resolve
    <2>2. new \in Ticket
      BY <2>1 DEF Ticket
    <2> HIDE DEF new
    <2>3. TypeOK'
      BY <1>0, <1>1, <2>1, <2>2 DEF TypeOK, Resolve
    <2>4. new # None
      BY <2>2, GovernedToolConstants
    <2>5. \A d \in Calls : Kept(tickets[<<d, "stepUp">>], tickets'[<<d, "stepUp">>])
      BY <1>0, <2>1, <2>4 DEF Kept, Approved
    <2> QED
      BY <1>1, <2>3, <2>5, OtherStep DEF Resolve
  <1>2. ASSUME NEW t \in DOMAIN tickets, DeadlinePasses(t)
        PROVE  Inv'
    <2> DEFINE new == [tickets[t] EXCEPT !.late = TRUE]
    <2>1. tickets[t] = [status |-> "PENDING", late |-> FALSE] /\ tickets' = [tickets EXCEPT ![t] = new]
      BY <1>2 DEF DeadlinePasses
    <2>2. new \in Ticket /\ tickets[t].status # "APPROVED"
      <3>1. tickets[t] \in Ticket /\ tickets[t].status = "PENDING"
        BY <2>1 DEF Ticket
      <3> QED
        BY <3>1 DEF Ticket
    <2> HIDE DEF new
    <2>3. TypeOK'
      <3>1. tickets' \in [Calls \X Purposes -> Ticket \union {None}]
        BY <1>0, <2>1, <2>2
      <3> QED
        BY <1>0, <1>2, <3>1 DEF TypeOK, DeadlinePasses
    <2>4. new # None
      BY <2>2, GovernedToolConstants
    <2>5. \A d \in Calls : Kept(tickets[<<d, "stepUp">>], tickets'[<<d, "stepUp">>])
      BY <1>0, <2>1, <2>2, <2>4 DEF Kept, Approved
    <2> QED
      BY <1>2, <2>3, <2>5, OtherStep DEF DeadlinePasses
  <1>3. ASSUME CheckExpired
        PROVE  Inv'
    <2> DEFINE due == {t \in DOMAIN tickets :
                         tickets[t] # None /\ tickets[t].status = "PENDING" /\ tickets[t].late}
    <2>1. tickets' = [t \in DOMAIN tickets |->
            IF t \in due THEN [tickets[t] EXCEPT !.status = "SLA_EXPIRED"] ELSE tickets[t]]
      BY <1>3 DEF CheckExpired
    <2>2. ASSUME NEW t \in due
          PROVE  /\ t \in DOMAIN tickets /\ tickets[t].status = "PENDING"
                 /\ [tickets[t] EXCEPT !.status = "SLA_EXPIRED"] \in Ticket
      <3>1. tickets[t] \in Ticket
        BY <1>0
      <3> QED
        BY <3>1 DEF Ticket, Resolved
    <2> HIDE DEF due
    <2>3. tickets' \in [Calls \X Purposes -> Ticket \union {None}]
      <3>1. ASSUME NEW t \in Calls \X Purposes
            PROVE  (IF t \in due THEN [tickets[t] EXCEPT !.status = "SLA_EXPIRED"]
                                 ELSE tickets[t]) \in Ticket \union {None}
        BY <1>0, <2>2
      <3> QED
        BY <1>0, <2>1, <3>1, Zenon
    <2>4. TypeOK'
      BY <1>0, <1>3, <2>3 DEF TypeOK, CheckExpired
    <2>5. ASSUME NEW d \in Calls
          PROVE  Kept(tickets[<<d, "stepUp">>], tickets'[<<d, "stepUp">>])
      <3>1. CASE <<d, "stepUp">> \in due
        <4>1. tickets'[<<d, "stepUp">>] \in Ticket /\ tickets[<<d, "stepUp">>].status = "PENDING"
          BY <1>0, <2>1, <2>2, <3>1
        <4> QED
          BY <4>1, GovernedToolConstants DEF Kept, Approved
      <3>2. CASE <<d, "stepUp">> \notin due
        BY <1>0, <2>1, <3>2 DEF Kept
      <3> QED
        BY <3>1, <3>2
    <2> QED
      BY <1>3, <2>4, <2>5, OtherStep DEF CheckExpired
  <1>4. ASSUME RecoveryElapses \/ LoadCredential \/ CredentialExpires \/ UNCHANGED vars
        PROVE  Inv'
    <2>1. TypeOK' /\ UNCHANGED <<profile, call, answers, accepted, tickets>>
      BY <1>0, <1>4
         DEF TypeOK, RecoveryElapses, LoadCredential, CredentialExpires, vars, Credentials
    <2> QED
      BY <2>1, OtherStep DEF Kept
  <1>5. ASSUME NEW t \in DOMAIN tickets, Approve(t) \/ Reject(t)
        PROVE  Inv'
    BY <1>1, <1>5 DEF Approve, Reject, Resolved
  <1> QED
    BY <1>2, <1>3, <1>4, <1>5

-----------------------------------------------------------------------------
(***************************************************************************)
(* The theorems.                                                           *)
(***************************************************************************)

\* No call has begun.
LEMMA InitInv == Init => Inv
  <1> SUFFICES ASSUME Init PROVE Inv
    OBVIOUS
  <1>1. None # "APPROVED" /\ None # "escalated" /\ None \notin Allows
    BY GovernedToolConstants DEF Resolved, Ends, Outcomes
  <1>2. NoCall \in Call /\ NoCall.stage = "initial" /\ NoCall.pc = "free" /\ NoCall.ran = FALSE
        /\ NoCall.status = None /\ NoCall.reply = None
    BY GovernedToolConstants DEF NoCall, Call, Steps, Stages, Results
  <1>3. CallOK(NoCall)
    BY <1>1, <1>2 DEF CallOK, StageOK
  <1>4. \A c \in Calls : call[c] = NoCall
    BY DEF Init
  <1>5. TypeOK
    <2>1. call \in [Calls -> Call]
      BY <1>2 DEF Init
    <2>2. breaker \in [failures : 0..Threshold, state : {"closed", "open", "lapsed"}]
      BY GovernedToolConstants DEF Init
    <2>3. tickets \in [Calls \X Purposes -> Ticket \union {None}]
      BY DEF Init
    <2> QED
      BY <2>1, <2>2, <2>3 DEF Init, TypeOK, Credentials
  <1>6. CallsOK /\ TicketsMatch /\ TokensMatch
    BY <1>1, <1>2, <1>3, <1>4 DEF CallsOK, TicketsMatch, TokensMatch, Fits, PastConfirmation
  <1>7. AnswersMatch
    BY DEF Init, AnswersMatch
  <1> QED
    BY <1>5, <1>6, <1>7 DEF Inv

\* Every step keeps the invariant.
LEMMA NextInv == Inv /\ [Next]_vars => Inv'
  <1> SUFFICES ASSUME Inv, [Next]_vars PROVE Inv'
    OBVIOUS
  <1>1. ASSUME NEW c \in Calls, Proceed(c) PROVE Inv'
    BY <1>1, ReceiveStep, TimeOutStep, TicketStep, TokenStep, NotifyStep, RunStep DEF Proceed
  <1>2. ASSUME NEW c \in Calls, NEW input \in InputsOf[c], Begin(c, input) PROVE Inv'
    BY <1>2, BeginStep
  <1>3. ASSUME NEW c \in Calls, NEW n \in call[c].pending,
               HandlePlain(c, n) \/ HandleConfirmation(c, n)
        PROVE  Inv'
    BY <1>3, HandleStep
  <1>4. Idle => UNCHANGED vars
    BY DEF Idle
  <1> QED
    BY <1>1, <1>2, <1>3, <1>4, EnvironmentStep, Zenon DEF Next

LEMMA Invariant == Spec => []Inv
  BY InitInv, NextInv, PTL DEF Spec

\* Every variable keeps its shape.
THEOREM TypeCorrect == Spec => []TypeOK
  <1>1. Inv => TypeOK
    BY DEF Inv
  <1> QED
    BY <1>1, Invariant, PTL

\* A call that the policy escalates, and whose caller claims no approval, has
\* run only if a human approved its ticket.
THEOREM HumansApprove == Spec => []HumanApproved
  <1>1. Inv => HumanApproved
    BY DEF Inv, HumanApproved, CallsOK, CallOK, StageOK, Escalates, TicketsMatch, Fits, Approved
  <1> QED
    BY <1>1, Invariant, PTL

\* With the broker enforced a tool has run only if the gateway accepted the
\* token of this very call.
THEOREM TokensConfirm == Spec => []ConfirmedBeforeRun
  <1>1. Inv => ConfirmedBeforeRun
    BY DEF Inv, ConfirmedBeforeRun, TokensMatch, PastConfirmation
  <1> QED
    BY <1>1, Invariant, PTL

\* The reevaluation of an approved call never ends in another escalation.
THEOREM ReevaluationsDecide == Spec => []ReevaluationDecides
  <1>1. Inv => ReevaluationDecides
    <2> SUFFICES ASSUME Inv, NEW c \in Calls,
                        call[c].status = "APPROVED", call[c].stage # "confirmation"
                 PROVE  call[c].result # "escalated"
      BY DEF ReevaluationDecides
    <2>1. StageOK(call[c]) /\ call[c].stage \in Stages
      BY CallFacts DEF StageOK, Call
    <2> QED
      BY <2>1 DEF StageOK, Stages
  <1> QED
    BY <1>1, Invariant, PTL
=============================================================================
