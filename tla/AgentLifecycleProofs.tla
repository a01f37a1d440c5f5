------------------------ MODULE AgentLifecycleProofs ------------------------
(***************************************************************************)
(* What TLAPS proves about the two kinds of services that use AIM's table: *)
(* the invariants of the agents' lifecycle, for every number of agents,    *)
(* levels, concurrent requests and changes of level; and those of the      *)
(* credential broker, for every number of agents, credentials, requests    *)
(* and proofs, every skew of clocks and every size of the nonce cache.     *)
(***************************************************************************)
EXTENDS AgentLifecycle, CredentialBroker, TLAPS

\* A request that has a call under way, or was answered READY, has an agent.
Named ==
  \A j \in Jobs :
    jobs[j].call # "none" \/ jobs[j].answer = "READY" => jobs[j].agent \in Agents

TypeInv == TypeOK /\ Named

\* The jobs after a call was handled are jobs, and nobody else's changed.
LEMMA GoOnJobs ==
  ASSUME TypeInv, NEW j \in Jobs, NEW call \in Calls, NEW answer \in Answers,
         jobs[j].call # "none", GoOn(j, call, answer)
  PROVE  /\ jobs' \in [Jobs -> Job]
         /\ \A k \in Jobs : jobs'[k].agent = jobs[k].agent /\ jobs'[k].target = jobs[k].target
         /\ \A k \in Jobs \ {j} : jobs'[k] = jobs[k]
         /\ jobs'[j].call \in {call, "none"}
         /\ jobs'[j].call # "none" => jobs[j].answer = "open" /\ jobs'[j].answer = "open"
         /\ jobs'[j].answer \in {jobs[j].answer, answer}
         /\ jobs[j].answer = "open" => jobs'[j].call = call
<1> DEFINE next == [jobs[j] EXCEPT !.call = IF jobs[j].answer = "open" THEN call ELSE "none",
                                   !.answer = IF jobs[j].answer = "open" /\ call = "none"
                                                THEN answer ELSE jobs[j].answer]
<1>1. jobs \in [Jobs -> Job] /\ jobs[j] \in Job
  BY DEF TypeInv, TypeOK
<1>2. jobs' = [jobs EXCEPT ![j] = next]
  BY <1>1 DEF GoOn, Job
<1>3. next \in Job
  BY <1>1 DEF Job, Calls
<1>4. next.agent = jobs[j].agent /\ next.target = jobs[j].target
  BY <1>1 DEF Job
<1>5. /\ next.call = IF jobs[j].answer = "open" THEN call ELSE "none"
      /\ next.answer = IF jobs[j].answer = "open" /\ call = "none"
                         THEN answer ELSE jobs[j].answer
  BY <1>1 DEF Job
<1> HIDE DEF next
<1>6. QED
  BY <1>1, <1>2, <1>3, <1>4, <1>5

\* A change of level that AUT records.
LEMMA ChangeLevelTypes ==
  ASSUME TypeInv, NEW a \in Agents, NEW type \in {"PROMOTE", "DEGRADE"}, NEW l \in Levels,
         autonomy[a] \in Levels, ChangeLevel(a, type, l)
  PROVE  /\ autonomy' \in [Agents -> Levels \union {Unregistered}]
         /\ events' \in [Agents -> Seq(Event)]
         /\ [type |-> type, from |-> autonomy[a], to |-> l] \in Event
         /\ events'[a] = Append(events[a], [type |-> type, from |-> autonomy[a], to |-> l])
         /\ autonomy'[a] = l
         /\ \A b \in Agents \ {a} : events'[b] = events[b] /\ autonomy'[b] = autonomy[b]
<1> DEFINE e == [type |-> type, from |-> autonomy[a], to |-> l]
<1>1. e \in Event
  BY DEF Event
<1>2. events[a] \in Seq(Event)
  BY DEF TypeInv, TypeOK
<1>3. Append(events[a], e) \in Seq(Event)
  BY <1>1, <1>2
<1>4. events' = [events EXCEPT ![a] = Append(events[a], e)] /\ autonomy' = [autonomy EXCEPT ![a] = l]
  BY DEF ChangeLevel
<1> HIDE DEF e
<1>5. events' \in [Agents -> Seq(Event)] /\ events'[a] = Append(events[a], e)
  BY <1>3, <1>4 DEF TypeInv, TypeOK
<1>6. QED
  BY <1>1, <1>4, <1>5 DEF TypeInv, TypeOK, e

\* A promotion that AUT takes is from one level to the next.
LEMMA PromotionLevels ==
  ASSUME TypeInv, NEW a \in Agents, NEW l \in Levels, IsPromotion(a, l)
  PROVE  autonomy[a] \in Levels /\ l = autonomy[a] + 1
  BY TopLevelIsNat DEF TypeInv, TypeOK, IsPromotion

\* AIM's row after an update of the level.
LEMMA UpdateTypes ==
  ASSUME TypeInv, NEW a \in Agents, NEW l \in Levels, UpdateAutonomy(a, l)
  PROVE  /\ agents' \in [Agents -> Row]
         /\ agents'[a].level = l
         /\ agents'[a].state = agents[a].state
         /\ agents'[a].history = Append(agents[a].history, [from |-> agents[a].level, to |-> l])
         /\ \A b \in Agents \ {a} : agents'[b] = agents[b]
<1> DEFINE c == [from |-> agents[a].level, to |-> l]
<1>1. agents[a] \in Row /\ c \in Change
  BY DEF TypeInv, TypeOK, Row, Change
<1>2. Append(agents[a].history, c) \in Seq(Change)
  BY <1>1 DEF Row
<1>3. agents' = [agents EXCEPT ![a] = [agents[a] EXCEPT !.level = l,
                                        !.history = Append(agents[a].history, c)]]
  BY <1>1 DEF UpdateAutonomy, Row, TypeInv, TypeOK
<1> HIDE DEF c
<1>4. [agents[a] EXCEPT !.level = l, !.history = Append(agents[a].history, c)] \in Row
  BY <1>1, <1>2 DEF Row
<1>5. QED
  BY <1>1, <1>3, <1>4 DEF TypeInv, TypeOK, Row, c

\* The other changes of AIM's table leave levels and histories alone, and
\* give each credential the number behind that of the last one.
LEMMA RowChanges ==
  ASSUME agents \in [Agents -> Row], NEW a \in Agents,
         RegisterAgent(a) \/ RotateCredential(a) \/ RevokeCredential(a)
  PROVE  /\ agents' \in [Agents -> Row]
         /\ agents'[a].state # "ABSENT"
         /\ \A b \in Agents \ {a} : agents'[b] = agents[b]
         /\ \/ agents'[a].level = agents[a].level /\ agents'[a].history = agents[a].history
            \/ ~ IsRegistered(a) /\ agents'[a].level = 0 /\ agents'[a].history = <<>>
         /\ \/ ~ IsRegistered(a) /\ agents'[a].issued = 1
            \/ agents'[a].issued = agents[a].issued + 1
            \/ agents'[a].issued = agents[a].issued /\ agents'[a].state = "SUSPENDED"
<1>1. agents[a] \in Row /\ NoRow \in Row
  BY TopLevelIsNat DEF Row, NoRow, Levels
<1>2. CASE RegisterAgent(a)
  BY <1>1, <1>2 DEF RegisterAgent, IsRegistered, Row, NoRow
<1>3. CASE RotateCredential(a)
  <2> DEFINE r == [agents[a] EXCEPT !.issued = agents[a].issued + 1, !.state = "ACTIVE"]
  <2>1. /\ r \in Row /\ r.state = "ACTIVE" /\ r.level = agents[a].level
        /\ r.history = agents[a].history /\ r.issued = agents[a].issued + 1
    <3>1. agents[a].issued \in Nat
      BY <1>1 DEF Row
    <3>2. agents[a].issued + 1 \in Nat
      BY <3>1
    <3>3. QED
      BY <1>1, <3>2, Zenon DEF Row
  <2>2. agents' = [agents EXCEPT ![a] = r]
    <3> DEFINE s == [agents[a] EXCEPT !.issued = agents[a].issued + 1]
    <3>1. agents' = [[agents EXCEPT ![a] = s] EXCEPT ![a].state = "ACTIVE"]
      BY <1>3 DEF RotateCredential
    <3>2. [agents EXCEPT ![a] = s][a] = s
      OBVIOUS
    <3>3. r = [s EXCEPT !.state = "ACTIVE"]
      BY <1>1 DEF Row
    <3> HIDE DEF s, r
    <3>4. QED
      BY <3>1, <3>2, <3>3
  <2> HIDE DEF r
  <2>3. QED
    BY <2>1, <2>2
<1>4. CASE RevokeCredential(a)
  BY <1>1, <1>4 DEF RevokeCredential, IsRegistered, Row
<1>5. QED
  BY <1>2, <1>3, <1>4

LEMMA RowTypes ==
  ASSUME TypeInv, NEW a \in Agents,
         RegisterAgent(a) \/ RotateCredential(a) \/ RevokeCredential(a)
  PROVE  /\ agents' \in [Agents -> Row]
         /\ agents'[a].state # "ABSENT"
         /\ \A b \in Agents \ {a} : agents'[b] = agents[b]
         /\ \/ agents'[a].level = agents[a].level /\ agents'[a].history = agents[a].history
            \/ ~ IsRegistered(a) /\ agents'[a].level = 0 /\ agents'[a].history = <<>>
  BY RowChanges DEF TypeInv, TypeOK

-----------------------------------------------------------------------------
\* The steps that touch nothing but the request of one job, or AUT.

LEMMA InitTypes == Init => TypeInv
  BY TopLevelIsNat DEF Init, InitIdentity, TypeInv, TypeOK, Named, Row, NoRow, Levels,
     Job, Free, Calls, Answers, Unregistered

\* A job's record is replaced by another, which names an agent if it has to.
LEMMA JobReplaced ==
  ASSUME TypeInv, NEW j \in Jobs, NEW r \in Job, jobs' = [jobs EXCEPT ![j] = r],
         r.call # "none" \/ r.answer = "READY" => r.agent \in Agents
  PROVE  jobs' \in [Jobs -> Job] /\ Named'
  BY DEF TypeInv, TypeOK, Named

LEMMA GoOnNamed ==
  ASSUME TypeInv, NEW j \in Jobs, NEW call \in Calls, NEW answer \in Answers,
         jobs[j].call # "none", GoOn(j, call, answer)
  PROVE  Named'
  BY GoOnJobs DEF TypeInv, Named

LEMMA TypeStep == TypeInv /\ [Next]_vars => TypeInv'
<1> SUFFICES ASSUME TypeInv, [Next]_vars
             PROVE  TypeInv'
  OBVIOUS
<1> USE DEF TypeInv
<1>j. ASSUME NEW j \in Jobs
      PROVE  /\ jobs[j] \in Job
             /\ jobs[j].call # "none" => jobs[j].agent \in Agents
  BY DEF TypeOK, Named
<1>1. ASSUME NEW j \in Jobs, NEW call \in Calls, NEW a \in Agents, NEW l \in Levels,
             NEW gates \in BOOLEAN, StartJob(j, call, a, l, gates)
      PROVE  TypeInv'
  <2>1. [call |-> call, answer |-> "open", agent |-> a, target |-> l, gates |-> gates] \in Job
    BY DEF Job, Answers
  <2>2. QED
    BY <1>1, <2>1, JobReplaced DEF StartJob, TypeOK
<1>2. ASSUME NEW j \in Jobs, StartCreate(j) \/ StartPromote(j) \/ StartDecommission(j)
      PROVE  TypeInv'
  <2>1. {"register identity", "promote", "revoke"} \subseteq Calls /\ Known \subseteq Agents
        /\ 0 \in Levels /\ FALSE \in BOOLEAN
    BY TopLevelIsNat DEF Calls, Known, Levels
  <2>2. QED
    BY <1>1, <1>2, <2>1 DEF StartCreate, StartPromote, StartDecommission
<1>3. ASSUME NEW j \in Jobs, GiveUp(j) \/ Lose(j)
      PROVE  TypeInv'
  <2>1. jobs[j].call # "none" /\ jobs[j].agent \in Agents
    BY <1>3, <1>j DEF GiveUp, Lose
  <2>2. PICK r \in Job : jobs' = [jobs EXCEPT ![j] = r] /\ r.agent = jobs[j].agent
    <3>1. CASE GiveUp(j)
      <4>1. [jobs[j] EXCEPT !.answer = "error"] \in Job
        BY <1>j DEF Job, Answers
      <4>2. [jobs[j] EXCEPT !.answer = "error"].agent = jobs[j].agent
        BY <1>j DEF Job
      <4>3. jobs' = [jobs EXCEPT ![j] = [jobs[j] EXCEPT !.answer = "error"]]
        BY <3>1 DEF GiveUp
      <4>4. QED
        BY <4>1, <4>2, <4>3
    <3>2. CASE Lose(j)
      <4>1. [jobs[j] EXCEPT !.call = "none", !.answer = "error"] \in Job
        BY <1>j DEF Job, Answers, Calls
      <4>2. [jobs[j] EXCEPT !.call = "none", !.answer = "error"].agent = jobs[j].agent
        BY <1>j DEF Job
      <4>3. jobs' = [jobs EXCEPT ![j] = [jobs[j] EXCEPT !.call = "none", !.answer = "error"]]
        BY <1>j, <3>2 DEF Lose, Job, TypeOK
      <4>4. QED
        BY <4>1, <4>2, <4>3
    <3>3. QED
      BY <1>3, <3>1, <3>2
  <2>3. disturbed' \subseteq Agents
    BY <1>3, <2>1 DEF GiveUp, Lose, TypeOK
  <2>4. QED
    BY <1>3, <2>1, <2>2, <2>3, JobReplaced DEF GiveUp, Lose, TypeOK
<1>4. ASSUME NEW j \in Jobs, Forget(j)
      PROVE  TypeInv'
  <2>1. Free \in Job /\ Free.call = "none" /\ Free.answer = "free"
    BY TopLevelIsNat DEF Free, Job, Calls, Answers, Levels
  <2>2. QED
    BY <1>4, <2>1, JobReplaced DEF Forget, TypeOK
<1>5. ASSUME NEW j \in Jobs, RegisterIdentity(j) \/ Revoke(j)
      PROVE  TypeInv'
  <2>1. jobs[j].call # "none" /\ jobs[j].agent \in Agents
    BY <1>5, <1>j DEF RegisterIdentity, Revoke
  <2>2. agents' \in [Agents -> Row]
    BY <1>5, <2>1, RowTypes DEF RegisterIdentity, Revoke
  <2>3. {"register autonomy", "none"} \subseteq Calls /\ {"open", "DECOMMISSIONED"} \subseteq Answers
    BY DEF Calls, Answers
  <2>4. jobs' \in [Jobs -> Job]
    BY <1>5, <2>1, <2>3, GoOnJobs DEF RegisterIdentity, Revoke
  <2>5. Named'
    BY <1>5, <2>1, <2>3, GoOnNamed DEF RegisterIdentity, Revoke
  <2>6. QED
    BY <1>5, <2>2, <2>4, <2>5 DEF RegisterIdentity, Revoke, TypeOK
<1>6. ASSUME NEW j \in Jobs, RegisterAutonomy(j)
      PROVE  TypeInv'
  <2>1. jobs[j].call # "none" /\ jobs[j].agent \in Agents
    BY <1>6, <1>j DEF RegisterAutonomy
  <2>2. "none" \in Calls /\ "READY" \in Answers
    BY DEF Calls, Answers
  <2>3. autonomy' \in [Agents -> Levels \union {Unregistered}]
    <3>1. 0 \in Levels
      BY TopLevelIsNat DEF Levels
    <3>2. QED
      BY <1>6, <2>1, <3>1 DEF RegisterAutonomy, InitAutonomy, TypeOK
  <2>4. jobs' \in [Jobs -> Job]
    BY <1>6, <2>1, <2>2, GoOnJobs DEF RegisterAutonomy
  <2>5. Named'
    BY <1>6, <2>1, <2>2, GoOnNamed DEF RegisterAutonomy
  <2>6. QED
    BY <1>6, <2>3, <2>4, <2>5 DEF RegisterAutonomy, TypeOK
<1>7. ASSUME NEW j \in Jobs, Promote(j)
      PROVE  TypeInv'
  <2>1. jobs[j].call # "none" /\ jobs[j].agent \in Agents /\ jobs[j].target \in Levels
    BY <1>7, <1>j DEF Promote, Job
  <2>2. "update autonomy" \in Calls /\ "open" \in Answers
    BY DEF Calls, Answers
  <2>3. /\ autonomy' \in [Agents -> Levels \union {Unregistered}]
        /\ events' \in [Agents -> Seq(Event)]
    BY <1>7, <2>1, PromotionLevels, ChangeLevelTypes DEF Promote
  <2>4. jobs' \in [Jobs -> Job]
    BY <1>7, <2>1, <2>2, GoOnJobs DEF Promote
  <2>5. Named'
    BY <1>7, <2>1, <2>2, GoOnNamed DEF Promote
  <2>6. disturbed' \subseteq Agents
    BY <1>7, <2>1 DEF Promote, TypeOK
  <2>7. QED
    BY <1>7, <2>3, <2>4, <2>5, <2>6 DEF Promote, TypeOK
<1>8. ASSUME NEW j \in Jobs, RefusePromotion(j) \/ RejectPromotion(j)
      PROVE  TypeInv'
  <2>1. jobs[j].call # "none"
    BY <1>8 DEF RefusePromotion, RejectPromotion
  <2>2. "none" \in Calls /\ {"refused", "error"} \subseteq Answers
    BY DEF Calls, Answers
  <2>3. jobs' \in [Jobs -> Job]
    BY <1>8, <2>1, <2>2, GoOnJobs DEF RefusePromotion, RejectPromotion
  <2>4. Named'
    BY <1>8, <2>1, <2>2, GoOnNamed DEF RefusePromotion, RejectPromotion
  <2>5. QED
    BY <1>8, <2>3, <2>4 DEF RefusePromotion, RejectPromotion, TypeOK
<1>9. ASSUME NEW j \in Jobs, StoreLevel(j)
      PROVE  TypeInv'
  <2>1. jobs[j].call # "none" /\ jobs[j].agent \in Agents /\ jobs[j].target \in Levels
    BY <1>9, <1>j DEF StoreLevel, Job
  <2>2. "none" \in Calls /\ "promoted" \in Answers
    BY DEF Calls, Answers
  <2>3. agents' \in [Agents -> Row]
    BY <1>9, <2>1, UpdateTypes DEF StoreLevel
  <2>4. jobs' \in [Jobs -> Job]
    BY <1>9, <2>1, <2>2, GoOnJobs DEF StoreLevel
  <2>5. Named'
    BY <1>9, <2>1, <2>2, GoOnNamed DEF StoreLevel
  <2>6. QED
    BY <1>9, <2>3, <2>4, <2>5 DEF StoreLevel, TypeOK
<1>10. ASSUME NEW a \in Agents, Degrade(a)
       PROVE  TypeInv'
  <2>1. autonomy[a] \in Levels /\ autonomy[a] - 1 \in Levels
    BY <1>10, TopLevelIsNat DEF Degrade, Levels
  <2>2. /\ autonomy' \in [Agents -> Levels \union {Unregistered}]
        /\ events' \in [Agents -> Seq(Event)]
    BY <1>10, <2>1, ChangeLevelTypes DEF Degrade
  <2>3. QED
    BY <1>10, <2>2 DEF Degrade, TypeOK, Named
<1>11. ASSUME NEW a \in Agents, RegisterDirectly(a)
       PROVE  TypeInv'
  BY <1>11, TopLevelIsNat DEF RegisterDirectly, InitAutonomy, TypeOK, Named, Levels
<1>12. ASSUME NEW a \in Agents, Rotate(a)
       PROVE  TypeInv'
  BY <1>12, RowTypes DEF Rotate, TypeOK, Named
<1>13. CASE UNCHANGED vars
  BY <1>13 DEF vars, TypeOK, Named
<1>14. QED
  BY <1>2, <1>3, <1>4, <1>5, <1>6, <1>7, <1>8, <1>9, <1>10, <1>11, <1>12, <1>13 DEF Next

\* The tables of AIM and AUT and the creator's requests keep their types.
THEOREM TypeCorrect == Spec => []TypeOK
<1>1. Init => TypeInv
  BY InitTypes
<1>2. TypeInv /\ [Next]_vars => TypeInv'
  BY TypeStep
<1>3. TypeInv => TypeOK
  BY DEF TypeInv
<1>4. QED
  BY <1>1, <1>2, <1>3, PTL DEF Spec
-----------------------------------------------------------------------------
\* What a step can do to one agent in AUT, to one in AIM and to one job.

\* A level changes with the event that says so, or is the first one, A0.
AutonomyStep(a) ==
  \/ events'[a] = events[a] /\ autonomy'[a] = autonomy[a]
  \/ /\ events'[a] = events[a] /\ autonomy[a] = Unregistered /\ autonomy'[a] = 0
     /\ IsRegistered(a) \/ \E j \in Jobs : jobs[j].call = "register autonomy" /\ jobs[j].agent = a
  \/ \E e \in Event :
       /\ autonomy[a] \in Levels /\ e.from = autonomy[a] /\ OneStep(e)
       /\ events'[a] = Append(events[a], e) /\ autonomy'[a] = e.to

\* AIM's level changes when an update of the creator arrives.
RowStep(a) ==
  \/ agents'[a].level = agents[a].level /\ agents'[a].history = agents[a].history
  \/ ~ IsRegistered(a) /\ agents'[a].level = 0 /\ agents'[a].history = <<>>
  \/ \E j \in Granted(a) :
       /\ agents'[a].level = jobs[j].target
       /\ agents'[a].history =
            Append(agents[a].history, [from |-> agents[a].level, to |-> jobs[j].target])

Promoted(a, l) ==
  \E i \in 1 .. Len(events[a]) : events[a][i].type = "PROMOTE" /\ events[a][i].to = l

SameRequest(j) == jobs'[j].agent = jobs[j].agent /\ jobs'[j].target = jobs[j].target

\* A call has gone on, is new, or follows the one that made it possible.
JobStep(j) ==
  \/ SameRequest(j) /\ jobs'[j].call \in {jobs[j].call, "none"}
       /\ (jobs'[j].answer = "READY" => jobs[j].answer = "READY")
  \/ jobs'[j].call \in {"none", "register identity"} /\ jobs'[j].answer # "READY"
  \/ jobs'[j].call \in {"promote", "revoke"} /\ jobs'[j].answer # "READY"
       /\ IsRegistered(jobs'[j].agent)
  \/ SameRequest(j) /\ jobs'[j].call = "register autonomy"
       /\ jobs'[j].answer # "READY" /\ agents'[jobs[j].agent].state # "ABSENT"
  \/ SameRequest(j) /\ jobs'[j].call = "none" /\ jobs[j].call = "register autonomy"
       /\ autonomy'[jobs[j].agent] # Unregistered
  \/ SameRequest(j) /\ jobs'[j].call = "update autonomy" /\ jobs'[j].answer # "READY"
       /\ jobs[j].call = "promote" /\ Promoted(jobs[j].agent, jobs[j].target)'

LEMMA AutonomySteps ==
  ASSUME TypeInv, [Next]_vars, NEW a \in Agents
  PROVE  AutonomyStep(a)
<1>1. ASSUME NEW b \in Agents, NEW type \in {"PROMOTE", "DEGRADE"}, NEW l \in Levels,
             autonomy[b] \in Levels, ChangeLevel(b, type, l),
             OneStep([type |-> type, from |-> autonomy[b], to |-> l])
      PROVE  AutonomyStep(a)
  <2>1. CASE a = b
    <3> DEFINE e == [type |-> type, from |-> autonomy[b], to |-> l]
    <3>1. /\ e \in Event /\ e.from = autonomy[a] /\ e.to = l /\ OneStep(e)
          /\ events'[a] = Append(events[a], e) /\ autonomy'[a] = l /\ autonomy[a] \in Levels
      BY <1>1, <2>1, ChangeLevelTypes
    <3>2. QED
      BY <3>1 DEF AutonomyStep
  <2>2. CASE a # b
    BY <1>1, <2>2, ChangeLevelTypes DEF AutonomyStep
  <2>3. QED
    BY <2>1, <2>2
<1>2. ASSUME NEW b \in Agents, InitAutonomy(b), UNCHANGED events,
             \/ IsRegistered(b)
             \/ \E j \in Jobs : jobs[j].call = "register autonomy" /\ jobs[j].agent = b
      PROVE  AutonomyStep(a)
  BY <1>2 DEF AutonomyStep, InitAutonomy, TypeInv, TypeOK
<1>3. ASSUME NEW j \in Jobs, RegisterAutonomy(j)
      PROVE  AutonomyStep(a)
  <2>1. jobs[j].agent \in Agents
    BY <1>3 DEF RegisterAutonomy, TypeInv, Named
  <2>2. QED
    BY <1>2, <1>3, <2>1 DEF RegisterAutonomy
<1>4. ASSUME NEW j \in Jobs, Promote(j)
      PROVE  AutonomyStep(a)
  <2>1. jobs[j].agent \in Agents /\ jobs[j].target \in Levels
    BY <1>4 DEF Promote, TypeInv, TypeOK, Named, Job
  <2>2. /\ autonomy[jobs[j].agent] \in Levels /\ jobs[j].target = autonomy[jobs[j].agent] + 1
    BY <1>4, <2>1, PromotionLevels DEF Promote
  <2>3. OneStep([type |-> "PROMOTE", from |-> autonomy[jobs[j].agent], to |-> jobs[j].target])
    BY <2>2 DEF OneStep
  <2>4. QED
    BY <1>1, <1>4, <2>1, <2>2, <2>3 DEF Promote
<1>5. ASSUME NEW b \in Agents, Degrade(b)
      PROVE  AutonomyStep(a)
  <2>1. autonomy[b] \in Levels /\ autonomy[b] - 1 \in Levels /\ autonomy[b] = (autonomy[b] - 1) + 1
    BY <1>5, TopLevelIsNat DEF Degrade, Levels
  <2>2. OneStep([type |-> "DEGRADE", from |-> autonomy[b], to |-> autonomy[b] - 1])
    BY <2>1 DEF OneStep
  <2>3. QED
    BY <1>1, <1>5, <2>1, <2>2 DEF Degrade
<1>6. ASSUME NEW b \in Agents, RegisterDirectly(b)
      PROVE  AutonomyStep(a)
  BY <1>2, <1>6 DEF RegisterDirectly
<1>7. ASSUME UNCHANGED <<autonomy, events>>
      PROVE  AutonomyStep(a)
  BY <1>7 DEF AutonomyStep
<1>8. QED
  BY <1>3, <1>4, <1>5, <1>6, <1>7 DEF Next, vars, StartCreate, StartPromote,
     StartDecommission, StartJob, GiveUp, Lose, Forget, RegisterIdentity, RefusePromotion,
     RejectPromotion, StoreLevel, Revoke, Rotate

\* A row of AIM stays, once it is there.
LEMMA RowSteps ==
  ASSUME TypeInv, [Next]_vars, NEW a \in Agents
  PROVE  RowStep(a) /\ (IsRegistered(a) => IsRegistered(a)')
<1>1. ASSUME NEW b \in Agents, RegisterAgent(b) \/ RotateCredential(b) \/ RevokeCredential(b)
      PROVE  RowStep(a) /\ (IsRegistered(a) => IsRegistered(a)')
  BY <1>1, RowTypes DEF RowStep, IsRegistered
<1>2. ASSUME NEW j \in Jobs, StoreLevel(j)
      PROVE  RowStep(a) /\ (IsRegistered(a) => IsRegistered(a)')
  <2>1. jobs[j].agent \in Agents /\ jobs[j].target \in Levels
    BY <1>2 DEF StoreLevel, TypeInv, TypeOK, Named, Job
  <2>2. jobs[j].agent = a => j \in Granted(a)
    BY <1>2 DEF Granted, StoreLevel
  <2>3. QED
    BY <1>2, <2>1, <2>2, UpdateTypes DEF StoreLevel, RowStep, IsRegistered
<1>3. ASSUME NEW j \in Jobs, RegisterIdentity(j) \/ Revoke(j)
      PROVE  RowStep(a) /\ (IsRegistered(a) => IsRegistered(a)')
  <2>1. jobs[j].agent \in Agents
    BY <1>3 DEF RegisterIdentity, Revoke, TypeInv, Named
  <2>2. QED
    BY <1>1, <1>3, <2>1 DEF RegisterIdentity, Revoke
<1>4. ASSUME NEW b \in Agents, Rotate(b)
      PROVE  RowStep(a) /\ (IsRegistered(a) => IsRegistered(a)')
  BY <1>1, <1>4 DEF Rotate
<1>5. ASSUME UNCHANGED agents
      PROVE  RowStep(a) /\ (IsRegistered(a) => IsRegistered(a)')
  BY <1>5 DEF RowStep, IsRegistered
<1>6. QED
  BY <1>2, <1>3, <1>4, <1>5 DEF Next, vars, StartCreate, StartPromote,
     StartDecommission, StartJob, GiveUp, Lose, Forget, RegisterAutonomy, Promote,
     RefusePromotion, RejectPromotion, Degrade, RegisterDirectly

\* What is handled at one job leaves the others alone.
LEMMA JobSteps ==
  ASSUME TypeInv, [Next]_vars, NEW k \in Jobs
  PROVE  JobStep(k)
<1> DEFINE Stays(j) == SameRequest(j) /\ jobs'[j].call = jobs[j].call
                         /\ jobs'[j].answer = jobs[j].answer
<1>a. ASSUME NEW j \in Jobs, Stays(j)
      PROVE  JobStep(j)
  BY <1>a DEF JobStep
<1> HIDE DEF Stays
<1>1. ASSUME NEW j \in Jobs, NEW call \in Calls, NEW a, NEW l, NEW gates,
             StartJob(j, call, a, l, gates),
             \/ call = "register identity"
             \/ call \in {"promote", "revoke"} /\ IsRegistered(a)
      PROVE  JobStep(k)
  <2>1. CASE k = j
    BY <1>1, <2>1 DEF StartJob, JobStep, TypeInv, TypeOK
  <2>2. CASE k # j
    BY <1>1, <1>a, <2>2 DEF StartJob, Stays, SameRequest, TypeInv, TypeOK
  <2>3. QED
    BY <2>1, <2>2
<1>2. ASSUME NEW j \in Jobs, StartCreate(j) \/ StartPromote(j) \/ StartDecommission(j)
      PROVE  JobStep(k)
  <2>1. {"register identity", "promote", "revoke"} \subseteq Calls
    BY DEF Calls
  <2>2. QED
    BY <1>1, <1>2, <2>1 DEF StartCreate, StartPromote, StartDecommission, Known
<1>3. ASSUME NEW j \in Jobs, GiveUp(j) \/ Lose(j) \/ Forget(j)
      PROVE  JobStep(k)
  <2>1. CASE k = j
    <3>1. CASE GiveUp(j)
      BY <2>1, <3>1 DEF GiveUp, JobStep, SameRequest, TypeInv, TypeOK, Job
    <3>2. CASE Lose(j)
      BY <2>1, <3>2 DEF Lose, JobStep, TypeInv, TypeOK, Job
    <3>3. CASE Forget(j)
      BY <2>1, <3>3 DEF Forget, Free, JobStep, TypeInv, TypeOK
    <3>4. QED
      BY <1>3, <3>1, <3>2, <3>3
  <2>2. CASE k # j
    BY <1>3, <1>a, <2>2 DEF GiveUp, Lose, Forget, Stays, SameRequest, TypeInv, TypeOK
  <2>3. QED
    BY <2>1, <2>2
\* A call that is handled: next and answer are what the creator goes on with.
<1>4. ASSUME NEW j \in Jobs, NEW call \in Calls, NEW answer \in Answers,
             jobs[j].call # "none", GoOn(j, call, answer), answer # "READY",
             \/ call = "none"
             \/ call = "register autonomy" /\ agents'[jobs[j].agent].state # "ABSENT"
             \/ call = "update autonomy" /\ jobs[j].call = "promote"
                  /\ Promoted(jobs[j].agent, jobs[j].target)'
      PROVE  JobStep(k)
  <2>1. CASE k = j
    BY <1>4, <2>1, GoOnJobs DEF JobStep, SameRequest
  <2>2. CASE k # j
    BY <1>4, <1>a, <2>2, GoOnJobs DEF Stays, SameRequest
  <2>3. QED
    BY <2>1, <2>2
<1>5. ASSUME NEW j \in Jobs, RegisterAutonomy(j)
      PROVE  JobStep(k)
  <2>1. "none" \in Calls /\ "READY" \in Answers /\ jobs[j].call # "none"
        /\ jobs[j].agent \in Agents
    BY <1>5 DEF Calls, Answers, RegisterAutonomy, TypeInv, Named
  <2>2. autonomy'[jobs[j].agent] # Unregistered
    <3>1. 0 # Unregistered
      BY TopLevelIsNat DEF Unregistered
    <3>2. autonomy \in [Agents -> Levels \union {Unregistered}]
      BY DEF TypeInv, TypeOK
    <3>3. QED
      BY <1>5, <2>1, <3>1, <3>2 DEF RegisterAutonomy, InitAutonomy
  <2>3. CASE k = j
    <3>1. GoOn(j, "none", "READY") /\ jobs[j].call = "register autonomy"
      BY <1>5 DEF RegisterAutonomy
    <3>2. SameRequest(j) /\ jobs'[j].call = "none"
      BY <2>1, <3>1, GoOnJobs DEF SameRequest
    <3>3. QED
      BY <2>2, <2>3, <3>1, <3>2 DEF JobStep
  <2>4. CASE k # j
    BY <1>5, <1>a, <2>1, <2>4, GoOnJobs DEF RegisterAutonomy, Stays, SameRequest
  <2>5. QED
    BY <2>3, <2>4
<1>6. ASSUME NEW j \in Jobs, RegisterIdentity(j)
      PROVE  JobStep(k)
  <2>1. "register autonomy" \in Calls /\ "open" \in Answers /\ jobs[j].call # "none"
        /\ jobs[j].agent \in Agents
    BY <1>6 DEF Calls, Answers, RegisterIdentity, TypeInv, Named
  <2>2. agents'[jobs[j].agent].state # "ABSENT"
    BY <1>6, <2>1, RowTypes DEF RegisterIdentity
  <2>3. QED
    BY <1>4, <1>6, <2>1, <2>2 DEF RegisterIdentity
<1>7. ASSUME NEW j \in Jobs, Promote(j)
      PROVE  JobStep(k)
  <2>1. "update autonomy" \in Calls /\ "open" \in Answers /\ jobs[j].call = "promote"
        /\ jobs[j].agent \in Agents /\ jobs[j].target \in Levels
    BY <1>7 DEF Calls, Answers, Promote, TypeInv, TypeOK, Named, Job
  <2> DEFINE a == jobs[j].agent
             e == [type |-> "PROMOTE", from |-> autonomy[a], to |-> jobs[j].target]
  <2>2. autonomy[a] \in Levels
    BY <1>7, <2>1, PromotionLevels DEF Promote
  <2>3. events'[a] = Append(events[a], e) /\ events[a] \in Seq(Event)
    BY <1>7, <2>1, <2>2, ChangeLevelTypes DEF Promote, TypeInv, TypeOK
  <2>4. /\ Len(events'[a]) = Len(events[a]) + 1 /\ Len(events[a]) \in Nat
        /\ events'[a][Len(events[a]) + 1] = e
    BY <2>3
  <2>5. (\E i \in 1 .. Len(events'[a]) :
            events'[a][i].type = "PROMOTE" /\ events'[a][i].to = jobs[j].target)
    BY <2>4
  <2>6. GoOn(j, "update autonomy", "open")
    BY <1>7 DEF Promote
  <2>7. jobs'[j].agent = jobs[j].agent /\ jobs'[j].target = jobs[j].target
    BY <2>1, <2>6, GoOnJobs
  <2>8. Promoted(jobs[j].agent, jobs[j].target)'
    BY <2>5, <2>7 DEF Promoted
  <2>9. QED
    BY <1>4, <2>1, <2>6, <2>8
<1>8. ASSUME NEW j \in Jobs,
             RefusePromotion(j) \/ RejectPromotion(j) \/ StoreLevel(j) \/ Revoke(j)
      PROVE  JobStep(k)
  <2>1. "none" \in Calls /\ {"refused", "error", "promoted", "DECOMMISSIONED"} \subseteq Answers
    BY DEF Calls, Answers
  <2>2. QED
    BY <1>4, <1>8, <2>1 DEF RefusePromotion, RejectPromotion, StoreLevel, Revoke
<1>9. ASSUME UNCHANGED jobs
      PROVE  JobStep(k)
  BY <1>9 DEF JobStep, SameRequest
<1>10. QED
  BY <1>2, <1>3, <1>5, <1>6, <1>7, <1>8, <1>9
  DEF Next, vars, Degrade, RegisterDirectly, Rotate

-----------------------------------------------------------------------------
\* A row of AUT, and a call that works on a row of AIM, come after that row.
RowsComeFirst ==
  /\ \A a \in Agents : autonomy[a] # Unregistered => IsRegistered(a)
  /\ \A j \in Jobs :
       jobs[j].call \notin {"none", "register identity"} => IsRegistered(jobs[j].agent)

LEMMA RowsComeFirstInit == Init => RowsComeFirst /\ ReadyIsComplete
<1>1. Free.call = "none" /\ Free.answer = "free"
  BY DEF Free
<1>2. QED
  BY <1>1 DEF Init, RowsComeFirst, ReadyIsComplete

LEMMA UnregisteredIsNoLevel == Unregistered \notin Levels
  BY TopLevelIsNat DEF Unregistered, Levels

LEMMA RowsComeFirstStep ==
  TypeInv /\ RowsComeFirst /\ ReadyIsComplete /\ [Next]_vars => (RowsComeFirst /\ ReadyIsComplete)'
<1> SUFFICES ASSUME TypeInv, RowsComeFirst, ReadyIsComplete, [Next]_vars
             PROVE  (RowsComeFirst /\ ReadyIsComplete)'
  OBVIOUS
<1>1. ASSUME NEW a \in Agents, IsRegistered(a)
      PROVE  IsRegistered(a)'
  BY <1>1, RowSteps
<1>2. ASSUME NEW a \in Agents, autonomy'[a] # Unregistered
      PROVE  IsRegistered(a)'
  <2>1. IsRegistered(a)
    <3>1. CASE autonomy[a] # Unregistered
      BY <3>1 DEF RowsComeFirst
    <3>2. CASE autonomy[a] = Unregistered
      <4>1. \/ IsRegistered(a)
            \/ \E j \in Jobs : jobs[j].call = "register autonomy" /\ jobs[j].agent = a
        BY <1>2, <3>2, AutonomySteps, UnregisteredIsNoLevel DEF AutonomyStep
      <4>2. QED
        BY <4>1 DEF RowsComeFirst
    <3>3. QED
      BY <3>1, <3>2
  <2>2. QED
    BY <1>1, <2>1
<1>3. ASSUME NEW a \in Agents, autonomy[a] # Unregistered
      PROVE  autonomy'[a] # Unregistered
  <2>1. \A e \in Event : e.to # Unregistered
    BY UnregisteredIsNoLevel DEF Event
  <2>2. QED
    BY <1>3, <2>1, AutonomySteps DEF AutonomyStep
<1>4. ASSUME NEW j \in Jobs, jobs'[j].call \notin {"none", "register identity"}
      PROVE  IsRegistered(jobs[j].agent)'
  <2>1. TypeInv'
    BY TypeStep
  <2>2. jobs'[j].agent \in Agents
    BY <1>4, <2>1 DEF TypeInv, Named
  <2>3. IsRegistered(jobs'[j].agent) \/ agents'[jobs'[j].agent].state # "ABSENT"
    BY <1>4, JobSteps DEF JobStep, SameRequest, RowsComeFirst
  <2>4. agents'[jobs'[j].agent].state # "ABSENT"
    BY <1>1, <2>2, <2>3 DEF IsRegistered
  <2>5. QED
    BY <2>4 DEF IsRegistered
<1>5. ASSUME NEW j \in Jobs, jobs'[j].answer = "READY"
      PROVE  /\ IsRegistered(jobs[j].agent)'
             /\ autonomy'[jobs'[j].agent] # Unregistered
  <2>1. jobs'[j].agent = jobs[j].agent
    BY <1>5, JobSteps DEF JobStep, SameRequest
  <2>2. jobs[j].agent \in Agents
    BY <1>5, <2>1, TypeStep DEF TypeInv, Named
  <2>3. autonomy'[jobs[j].agent] # Unregistered
    BY <1>3, <1>5, <2>2, JobSteps DEF JobStep, ReadyIsComplete
  <2>4. QED
    BY <1>2, <2>1, <2>2, <2>3 DEF IsRegistered
<1>6. QED
  BY <1>2, <1>4, <1>5 DEF RowsComeFirst, ReadyIsComplete

\* An agent whose creation was answered READY has its row in AIM and in AUT.
THEOREM ReadyAgentsAreComplete == Spec => []ReadyIsComplete
<1>1. Init => TypeInv /\ RowsComeFirst /\ ReadyIsComplete
  BY InitTypes, RowsComeFirstInit
<1>2. TypeInv /\ RowsComeFirst /\ ReadyIsComplete /\ [Next]_vars
        => (TypeInv /\ RowsComeFirst /\ ReadyIsComplete)'
  BY TypeStep, RowsComeFirstStep
<1>3. QED
  BY <1>1, <1>2, PTL DEF Spec

-----------------------------------------------------------------------------
\* What Append does to a history: it still leads on, from where it ended.
LEMMA LeadsOn ==
  ASSUME NEW S, NEW s \in Seq(S), NEW e \in S, NEW l, LeadsTo(s, l), e.from = l
  PROVE  LeadsTo(Append(s, e), e.to)
<1> DEFINE t == Append(s, e)
<1>1. /\ t \in Seq(S) /\ Len(s) \in Nat /\ Len(t) = Len(s) + 1 /\ t # <<>>
      /\ \A i \in 1 .. Len(s) : t[i] = s[i]
      /\ t[Len(s) + 1] = e
  OBVIOUS
<1>2. s = <<>> <=> Len(s) = 0
  OBVIOUS
<1> HIDE DEF t
<1>3. ASSUME NEW i \in 1 .. Len(t)
      PROVE  t[i].from = IF i = 1 THEN 0 ELSE t[i - 1].to
  <2>1. CASE i \in 1 .. Len(s)
    <3>1. i # 1 => i - 1 \in 1 .. Len(s)
      BY <1>1, <2>1
    <3>2. QED
      BY <1>1, <2>1, <3>1 DEF LeadsTo
  <2>2. CASE i = Len(s) + 1
    <3>1. CASE Len(s) = 0
      BY <1>1, <1>2, <2>2, <3>1 DEF LeadsTo
    <3>2. CASE Len(s) # 0
      <4>1. i # 1 /\ i - 1 = Len(s) /\ i - 1 \in 1 .. Len(s)
        BY <1>1, <2>2, <3>2
      <4>2. t[i - 1].to = l
        BY <1>1, <1>2, <3>2, <4>1 DEF LeadsTo
      <4>3. QED
        BY <1>1, <2>2, <4>1, <4>2
    <3>3. QED
      BY <3>1, <3>2
  <2>3. QED
    BY <1>1, <2>1, <2>2
<1>4. e.to = t[Len(t)].to
  BY <1>1
<1>5. QED
  BY <1>1, <1>3, <1>4 DEF LeadsTo, t

\* Every element of a sequence that has grown was there or is the new one.
LEMMA Grown ==
  ASSUME NEW S, NEW s \in Seq(S), NEW e \in S, NEW i \in 1 .. Len(Append(s, e))
  PROVE  (i \in 1 .. Len(s) /\ Append(s, e)[i] = s[i]) \/ Append(s, e)[i] = e
  OBVIOUS

LEMMA NothingLeadsTo == LeadsTo(<<>>, 0)
  BY DEF LeadsTo

LEMMA HistoryInit == Init => HistoryAccountsForLevel
<1>1. NoRow.history = <<>> /\ NoRow.level = 0
  BY DEF NoRow
<1>2. ASSUME Init, NEW a \in Agents
      PROVE  /\ autonomy[a] = Unregistered /\ events[a] = <<>>
             /\ agents[a].history = <<>> /\ agents[a].level = 0
  BY <1>1, <1>2 DEF Init, InitIdentity
<1>3. \A i \in 1 .. Len(<<>>) : FALSE
  OBVIOUS
<1>4. QED
  BY <1>2, <1>3, NothingLeadsTo DEF HistoryAccountsForLevel

LEMMA HistoryStep ==
  TypeInv /\ HistoryAccountsForLevel /\ [Next]_vars => HistoryAccountsForLevel'
<1> SUFFICES ASSUME TypeInv, HistoryAccountsForLevel, [Next]_vars, NEW a \in Agents
             PROVE  /\ autonomy'[a] = Unregistered => events'[a] = <<>>
                    /\ autonomy'[a] # Unregistered => LeadsTo(events'[a], autonomy'[a])
                    /\ \A i \in 1 .. Len(events'[a]) : OneStep(events'[a][i])
                    /\ LeadsTo(agents'[a].history, agents'[a].level)
  BY DEF HistoryAccountsForLevel, LeadsTo, OneStep
<1>1. /\ autonomy[a] = Unregistered => events[a] = <<>>
      /\ autonomy[a] # Unregistered => LeadsTo(events[a], autonomy[a])
      /\ \A i \in 1 .. Len(events[a]) : OneStep(events[a][i])
      /\ LeadsTo(agents[a].history, agents[a].level)
      /\ events[a] \in Seq(Event) /\ agents[a] \in Row
  BY DEF HistoryAccountsForLevel, TypeInv, TypeOK
<1>2. /\ autonomy'[a] = Unregistered => events'[a] = <<>>
      /\ autonomy'[a] # Unregistered => LeadsTo(events'[a], autonomy'[a])
      /\ \A i \in 1 .. Len(events'[a]) : OneStep(events'[a][i])
  <2>1. CASE events'[a] = events[a] /\ autonomy'[a] = autonomy[a]
    BY <1>1, <2>1
  <2>2. CASE events'[a] = events[a] /\ autonomy[a] = Unregistered /\ autonomy'[a] = 0
    <3>1. autonomy'[a] # Unregistered
      BY <2>2, TopLevelIsNat DEF Unregistered
    <3>2. QED
      BY <1>1, <2>2, <3>1, NothingLeadsTo
  <2>3. ASSUME NEW e \in Event, autonomy[a] \in Levels, e.from = autonomy[a], OneStep(e),
               events'[a] = Append(events[a], e), autonomy'[a] = e.to
        PROVE  /\ autonomy'[a] # Unregistered
               /\ LeadsTo(events'[a], autonomy'[a])
               /\ \A i \in 1 .. Len(events'[a]) : OneStep(events'[a][i])
    <3>1. e.to \in Levels /\ autonomy[a] # Unregistered
      BY <2>3, UnregisteredIsNoLevel DEF Event
    <3>2. LeadsTo(events'[a], autonomy'[a])
      BY <1>1, <2>3, <3>1, LeadsOn
    <3>3. \A i \in 1 .. Len(events'[a]) : OneStep(events'[a][i])
      BY <1>1, <2>3, Grown
    <3>4. QED
      BY <2>3, <3>1, <3>2, <3>3, UnregisteredIsNoLevel
  <2>4. QED
    BY <2>1, <2>2, <2>3, AutonomySteps DEF AutonomyStep
<1>3. LeadsTo(agents'[a].history, agents'[a].level)
  <2>1. ASSUME NEW j \in Granted(a), agents'[a].level = jobs[j].target,
               agents'[a].history =
                 Append(agents[a].history, [from |-> agents[a].level, to |-> jobs[j].target])
        PROVE  LeadsTo(agents'[a].history, agents'[a].level)
    <3> DEFINE c == [from |-> agents[a].level, to |-> jobs[j].target]
    <3>1. jobs[j].target \in Levels
      BY DEF Granted, TypeInv, TypeOK, Job
    <3>2. c \in Change /\ c.from = agents[a].level /\ c.to = jobs[j].target
          /\ agents[a].history \in Seq(Change)
      BY <1>1, <3>1 DEF Change, Row
    <3>3. agents'[a].history = Append(agents[a].history, c) /\ agents'[a].level = c.to
      BY <2>1, <3>2
    <3> HIDE DEF c
    <3>4. QED
      BY <1>1, <3>2, <3>3, LeadsOn
  <2>2. QED
    BY <1>1, <2>1, RowSteps, NothingLeadsTo DEF RowStep
<1>4. QED
  BY <1>2, <1>3

\* The events of AUT and the history of AIM account for the levels they have.
THEOREM HistoriesAccountForLevels == Spec => []HistoryAccountsForLevel
<1>1. Init => TypeInv /\ HistoryAccountsForLevel
  BY InitTypes, HistoryInit
<1>2. TypeInv /\ HistoryAccountsForLevel /\ [Next]_vars => (TypeInv /\ HistoryAccountsForLevel)'
  BY TypeStep, HistoryStep
<1>3. QED
  BY <1>1, <1>2, PTL DEF Spec

-----------------------------------------------------------------------------
\* A call that updates AIM follows a promotion of AUT, and so does what AIM
\* has stored.
StoredIsPromoted(a) ==
  \A i \in 1 .. Len(agents[a].history) : Promoted(a, agents[a].history[i].to)

PromotionsComeFirst ==
  /\ \A j \in Jobs :
       jobs[j].call = "update autonomy" => Promoted(jobs[j].agent, jobs[j].target)
  /\ \A a \in Agents : StoredIsPromoted(a)

\* An event of AUT is never taken back.
LEMMA PromotedStays ==
  ASSUME TypeInv, [Next]_vars, NEW a \in Agents, NEW l, Promoted(a, l)
  PROVE  \E i \in 1 .. Len(events'[a]) : events'[a][i].type = "PROMOTE" /\ events'[a][i].to = l
<1>1. PICK i \in 1 .. Len(events[a]) : events[a][i].type = "PROMOTE" /\ events[a][i].to = l
  BY DEF Promoted
<1>2. events[a] \in Seq(Event)
  BY DEF TypeInv, TypeOK
<1>3. ASSUME NEW e \in Event, events'[a] = Append(events[a], e)
      PROVE  i \in 1 .. Len(events'[a]) /\ events'[a][i] = events[a][i]
  BY <1>2, <1>3
<1>4. QED
  BY <1>1, <1>3, AutonomySteps DEF AutonomyStep

LEMMA PromotionsComeFirstStep ==
  TypeInv /\ PromotionsComeFirst /\ [Next]_vars => PromotionsComeFirst'
<1> SUFFICES ASSUME TypeInv, PromotionsComeFirst, [Next]_vars
             PROVE  PromotionsComeFirst'
  OBVIOUS
<1>1. ASSUME NEW j \in Jobs, jobs'[j].call = "update autonomy"
      PROVE  Promoted(jobs[j].agent, jobs[j].target)'
  <2>1. SameRequest(j)
    BY <1>1, JobSteps DEF JobStep
  <2>2. CASE jobs[j].call = "update autonomy"
    <3>1. Promoted(jobs[j].agent, jobs[j].target) /\ jobs[j].agent \in Agents
      BY <2>2 DEF PromotionsComeFirst, TypeInv, Named
    <3>2. QED
      BY <2>1, <3>1, PromotedStays DEF Promoted, SameRequest
  <2>3. CASE jobs[j].call # "update autonomy"
    BY <1>1, <2>3, JobSteps DEF JobStep
  <2>4. QED
    BY <2>2, <2>3
<1>2. ASSUME NEW a \in Agents
      PROVE  StoredIsPromoted(a)'
  <2> SUFFICES ASSUME NEW i \in 1 .. Len(agents'[a].history)
               PROVE  \E n \in 1 .. Len(events'[a]) :
                        /\ events'[a][n].type = "PROMOTE"
                        /\ events'[a][n].to = agents'[a].history[i].to
    BY DEF StoredIsPromoted, Promoted
  <2>1. \A n \in 1 .. Len(agents[a].history) : Promoted(a, agents[a].history[n].to)
    BY DEF PromotionsComeFirst, StoredIsPromoted
  <2>2. CASE agents'[a].history = agents[a].history
    BY <2>1, <2>2, PromotedStays
  <2>3. CASE agents'[a].history = <<>>
    BY <2>3
  <2>4. ASSUME NEW j \in Granted(a),
               agents'[a].history =
                 Append(agents[a].history, [from |-> agents[a].level, to |-> jobs[j].target])
        PROVE  Promoted(a, agents'[a].history[i].to)
    <3> DEFINE c == [from |-> agents[a].level, to |-> jobs[j].target]
    <3>1. jobs[j].target \in Levels /\ agents[a] \in Row
      BY DEF Granted, TypeInv, TypeOK, Job
    <3>2. c \in Change /\ c.to = jobs[j].target /\ agents[a].history \in Seq(Change)
      BY <3>1 DEF Change, Row
    <3>3. Promoted(a, jobs[j].target)
      BY DEF Granted, PromotionsComeFirst
    <3>4. agents'[a].history = Append(agents[a].history, c)
      BY <2>4
    <3> HIDE DEF c
    <3>5. \/ i \in 1 .. Len(agents[a].history) /\ agents'[a].history[i] = agents[a].history[i]
          \/ agents'[a].history[i] = c
      BY <3>2, <3>4, Grown
    <3>6. QED
      BY <2>1, <3>2, <3>3, <3>5
  <2>5. QED
    BY <2>2, <2>3, <2>4, PromotedStays, RowSteps DEF RowStep
<1>3. QED
  BY <1>1, <1>2 DEF PromotionsComeFirst

\* Every level AIM has stored for an agent is one that AUT promoted it to.
THEOREM LevelsAreGranted == Spec => []OnlyGrantedLevels
<1>1. Init => TypeInv /\ PromotionsComeFirst
  <2>1. Free.call = "none" /\ NoRow.history = <<>>
    BY DEF Free, NoRow
  <2>2. ASSUME Init
        PROVE  PromotionsComeFirst
    <3>1. \A j \in Jobs : jobs[j].call = "none"
      BY <2>1, <2>2 DEF Init
    <3>2. \A a \in Agents : agents[a].history = <<>>
      BY <2>1, <2>2 DEF Init, InitIdentity
    <3>3. \A i \in 1 .. Len(<<>>) : FALSE
      OBVIOUS
    <3>4. QED
      BY <3>1, <3>2, <3>3 DEF PromotionsComeFirst, StoredIsPromoted
  <2>3. QED
    BY <2>2, InitTypes
<1>2. TypeInv /\ PromotionsComeFirst /\ [Next]_vars => (TypeInv /\ PromotionsComeFirst)'
  BY TypeStep, PromotionsComeFirstStep
<1>3. PromotionsComeFirst => OnlyGrantedLevels
  BY DEF PromotionsComeFirst, StoredIsPromoted, Promoted, OnlyGrantedLevels
<1>4. QED
  BY <1>1, <1>2, <1>3, PTL DEF Spec

-----------------------------------------------------------------------------
\* An undisturbed agent has the same level in both services, or one update
\* is under way that will make it so.
Agree(a) ==
  /\ autonomy[a] = Unregistered => Granted(a) = {} /\ agents[a].level = 0
  /\ a \notin disturbed /\ autonomy[a] # Unregistered =>
       \/ Granted(a) = {} /\ agents[a].level = autonomy[a]
       \/ \E j \in Jobs : Granted(a) = {j} /\ jobs[j].target = autonomy[a]

AllAgree == \A a \in Agents : Agree(a)

\* The step leaves the updates of a that are under way alone.
Quiet(a) ==
  /\ Granted(a)' = Granted(a)
  /\ \A j \in Granted(a) : jobs'[j].target = jobs[j].target

LEMMA AgreeStays ==
  ASSUME TypeInv, RowsComeFirst, [Next]_vars, NEW a \in Agents, Agree(a), Quiet(a),
         a \in disturbed => a \in disturbed',
         agents'[a].level = agents[a].level \/ (~ IsRegistered(a) /\ agents'[a].level = 0),
         autonomy'[a] = autonomy[a] \/ (autonomy[a] = Unregistered /\ autonomy'[a] = 0)
  PROVE  Agree(a)'
<1>1. agents'[a].level = agents[a].level
  BY DEF RowsComeFirst, Agree
<1>2. CASE autonomy[a] = Unregistered
  <2>1. Granted(a)' = {} /\ agents'[a].level = 0 /\ autonomy'[a] \in {Unregistered, 0}
    BY <1>1, <1>2 DEF Agree, Quiet
  <2>2. QED
    BY <2>1 DEF Agree
<1>3. CASE autonomy[a] # Unregistered
  <2>1. autonomy'[a] = autonomy[a]
    BY <1>3
  <2>2. ASSUME a \notin disturbed'
        PROVE  \/ Granted(a)' = {} /\ agents'[a].level = autonomy'[a]
               \/ \E j \in Jobs : Granted(a)' = {j} /\ jobs'[j].target = autonomy'[a]
    BY <1>1, <1>3, <2>1, <2>2 DEF Agree, Quiet
  <2>3. QED
    BY <1>3, <2>1, <2>2 DEF Agree
<1>4. QED
  BY <1>2, <1>3

LEMMA QuietJobs ==
  ASSUME NEW j \in Jobs, \A k \in Jobs \ {j} : jobs'[k] = jobs[k],
         \/ jobs[j].call # "update autonomy" /\ jobs'[j].call # "update autonomy"
         \/ SameRequest(j) /\ jobs'[j].call = jobs[j].call
  PROVE  \A a \in Agents : Quiet(a)
<1>1. ASSUME NEW a \in Agents, NEW k \in Jobs
      PROVE  /\ k \in Granted(a)' <=> k \in Granted(a)
             /\ k \in Granted(a) => jobs'[k].target = jobs[k].target
  BY DEF Granted, SameRequest
<1>2. QED
  BY <1>1 DEF Granted, Quiet

\* The steps of a job with no update under way, before or after.
LEMMA QuietSteps ==
  ASSUME TypeInv, NEW j \in Jobs,
         \/ StartCreate(j) \/ StartPromote(j) \/ StartDecommission(j) \/ GiveUp(j) \/ Forget(j)
         \/ Lose(j) /\ jobs[j].call # "update autonomy"
         \/ RegisterIdentity(j) \/ RegisterAutonomy(j) \/ RefusePromotion(j)
         \/ RejectPromotion(j) \/ Revoke(j)
  PROVE  \A a \in Agents : Quiet(a)
<1>1. jobs \in [Jobs -> Job]
  BY DEF TypeInv, TypeOK
<1>2. ASSUME NEW call, NEW a, NEW l, NEW gates, StartJob(j, call, a, l, gates),
             call # "update autonomy"
      PROVE  \A b \in Agents : Quiet(b)
  <2>1. Free.call = "none"
    BY DEF Free
  <2>2. /\ jobs[j].call = "none" /\ jobs'[j].call = call
        /\ \A k \in Jobs \ {j} : jobs'[k] = jobs[k]
    BY <1>1, <1>2, <2>1 DEF StartJob
  <2>3. QED
    BY <1>2, <2>2, QuietJobs
<1>3. CASE StartCreate(j) \/ StartPromote(j) \/ StartDecommission(j)
  BY <1>2, <1>3 DEF StartCreate, StartPromote, StartDecommission
<1>4. CASE GiveUp(j)
  BY <1>1, <1>4, QuietJobs DEF GiveUp, SameRequest, Job
<1>5. CASE Forget(j)
  BY <1>1, <1>5, QuietJobs DEF Forget, Free
<1>6. CASE Lose(j) /\ jobs[j].call # "update autonomy"
  BY <1>1, <1>6, QuietJobs DEF Lose, Job
<1>7. ASSUME NEW call \in Calls, NEW answer \in Answers, jobs[j].call # "none",
             GoOn(j, call, answer), "update autonomy" \notin {jobs[j].call, call}
      PROVE  \A a \in Agents : Quiet(a)
  <2>1. jobs'[j].call # "update autonomy" /\ \A k \in Jobs \ {j} : jobs'[k] = jobs[k]
    BY <1>7, GoOnJobs
  <2>2. QED
    BY <1>7, <2>1, QuietJobs
<1>8. CASE RegisterIdentity(j) \/ RegisterAutonomy(j) \/ RefusePromotion(j)
           \/ RejectPromotion(j) \/ Revoke(j)
  <2>1. /\ {"register autonomy", "none"} \subseteq Calls
        /\ {"open", "READY", "refused", "error", "DECOMMISSIONED"} \subseteq Answers
    BY DEF Calls, Answers
  <2>2. QED
    BY <1>7, <1>8, <2>1
    DEF RegisterIdentity, RegisterAutonomy, RefusePromotion, RejectPromotion, Revoke
<1>9. QED
  BY <1>3, <1>4, <1>5, <1>6, <1>8

\* A promotion is alone and waited for, or disturbed from the start.
LEMMA PromoteAgrees ==
  ASSUME TypeInv, RowsComeFirst, [Next]_vars, NEW j \in Jobs, Promote(j),
         NEW b \in Agents, Agree(b)
  PROVE  Agree(b)'
<1> DEFINE a == jobs[j].agent
<1>1. a \in Agents /\ jobs[j].target \in Levels /\ jobs[j].call = "promote"
  BY DEF Promote, TypeInv, TypeOK, Named, Job
<1>2. GoOn(j, "update autonomy", "open")
  BY DEF Promote
<1>3. /\ \A k \in Jobs \ {j} : jobs'[k] = jobs[k]
      /\ jobs'[j].agent = a /\ jobs'[j].target = jobs[j].target
      /\ jobs[j].answer = "open" => jobs'[j].call = "update autonomy"
  BY <1>1, <1>2, GoOnJobs DEF Calls, Answers
<1>4. UNCHANGED agents
  BY DEF Promote
<1>5. autonomy[a] \in Levels
  BY <1>1, PromotionLevels DEF Promote
<1>6. autonomy'[a] = jobs[j].target /\ \A c \in Agents \ {a} : autonomy'[c] = autonomy[c]
  BY <1>1, <1>5, ChangeLevelTypes DEF Promote
<1>7. CASE b = a
  <2>1. autonomy'[a] # Unregistered
    BY <1>1, <1>6, UnregisteredIsNoLevel
  <2>2. CASE Granted(a) # {} \/ jobs[j].answer # "open"
    <3>1. a \in disturbed'
      BY <2>2 DEF Promote
    <3>2. QED
      BY <1>7, <2>1, <3>1 DEF Agree
  <2>3. CASE Granted(a) = {} /\ jobs[j].answer = "open"
    <3>1. ASSUME NEW k \in Jobs
          PROVE  jobs'[k].call = "update autonomy" /\ jobs'[k].agent = a <=> k = j
      BY <1>3, <2>3 DEF Granted
    <3>2. Granted(b)' = {j} /\ jobs'[j].target = autonomy'[a]
      BY <1>3, <1>6, <1>7, <3>1 DEF Granted
    <3>3. QED
      BY <1>7, <2>1, <3>2 DEF Agree
  <2>4. QED
    BY <2>2, <2>3
<1>8. CASE b # a
  <2>1. ASSUME NEW k \in Jobs
        PROVE  /\ k \in Granted(b)' <=> k \in Granted(b)
               /\ k \in Granted(b) => jobs'[k].target = jobs[k].target
    BY <1>1, <1>3, <1>8 DEF Granted
  <2>2. Quiet(b)
    BY <2>1 DEF Quiet, Granted
  <2>3. b \in disturbed => b \in disturbed'
    BY <1>8 DEF Promote
  <2>4. autonomy'[b] = autonomy[b]
    BY <1>6, <1>8
  <2>5. QED
    BY <1>4, <2>2, <2>3, <2>4, AgreeStays
<1>9. QED
  BY <1>7, <1>8

\* AIM stores the one update that is under way.
LEMMA StoreAgrees ==
  ASSUME TypeInv, RowsComeFirst, [Next]_vars, NEW j \in Jobs, StoreLevel(j),
         NEW b \in Agents, Agree(b)
  PROVE  Agree(b)'
<1> DEFINE a == jobs[j].agent
<1>1. a \in Agents /\ jobs[j].target \in Levels /\ jobs[j].call = "update autonomy"
  BY DEF StoreLevel, TypeInv, TypeOK, Named, Job
<1>2. GoOn(j, "none", "promoted")
  BY DEF StoreLevel
<1>3. /\ \A k \in Jobs \ {j} : jobs'[k] = jobs[k]
      /\ jobs'[j].call = "none" /\ jobs'[j].agent = a
  BY <1>1, <1>2, GoOnJobs DEF Calls, Answers
<1>4. /\ agents'[a].level = jobs[j].target
      /\ \A c \in Agents \ {a} : agents'[c] = agents[c]
  BY <1>1, UpdateTypes DEF StoreLevel
<1>5. UNCHANGED <<autonomy, disturbed>>
  BY DEF StoreLevel
<1>6. ASSUME NEW k \in Jobs
      PROVE  k \in Granted(b)' <=> k \in Granted(b) /\ k # j
  BY <1>3 DEF Granted
<1>7. CASE b = a
  <2>1. j \in Granted(b) /\ autonomy[b] # Unregistered
    BY <1>1, <1>7 DEF Granted, Agree
  <2>2. CASE b \in disturbed
    BY <1>5, <2>1, <2>2 DEF Agree
  <2>3. CASE b \notin disturbed
    <3>1. Granted(b) = {j} /\ jobs[j].target = autonomy[b]
      BY <2>1, <2>3 DEF Agree
    <3>2. Granted(b)' = {}
      BY <1>6, <3>1 DEF Granted
    <3>3. agents'[b].level = autonomy'[b]
      BY <1>4, <1>5, <1>7, <3>1
    <3>4. QED
      BY <1>5, <2>1, <3>2, <3>3 DEF Agree
  <2>4. QED
    BY <2>2, <2>3
<1>8. CASE b # a
  <2>1. j \notin Granted(b)
    BY <1>8 DEF Granted
  <2>2. Granted(b)' = Granted(b)
    BY <1>6, <2>1 DEF Granted
  <2>3. \A k \in Granted(b) : jobs'[k].target = jobs[k].target
    BY <1>3, <2>1 DEF Granted
  <2>4. QED
    BY <1>4, <1>5, <1>8, <2>2, <2>3, AgreeStays DEF Quiet
<1>9. QED
  BY <1>7, <1>8

LEMMA AgreeStep ==
  TypeInv /\ RowsComeFirst /\ AllAgree /\ [Next]_vars => AllAgree'
<1> SUFFICES ASSUME TypeInv, RowsComeFirst, AllAgree, [Next]_vars, NEW b \in Agents
             PROVE  Agree(b)'
  BY DEF AllAgree
<1>a. Agree(b)
  BY DEF AllAgree
<1>b. ASSUME b \in disturbed', UNCHANGED autonomy, Granted(b) # {}
      PROVE  Agree(b)'
  BY <1>a, <1>b DEF Agree
<1>1. ASSUME NEW j \in Jobs,
             \/ StartCreate(j) \/ StartPromote(j) \/ StartDecommission(j) \/ GiveUp(j)
             \/ Forget(j) \/ RefusePromotion(j) \/ RejectPromotion(j)
             \/ Lose(j) /\ jobs[j].call # "update autonomy"
      PROVE  Agree(b)'
  <2>1. UNCHANGED <<agents, autonomy>> /\ disturbed \subseteq disturbed'
    BY <1>1 DEF StartCreate, StartPromote, StartDecommission, StartJob, GiveUp, Forget,
       RefusePromotion, RejectPromotion, Lose
  <2>2. Quiet(b)
    BY <1>1, QuietSteps
  <2>3. QED
    BY <1>a, <2>1, <2>2, AgreeStays
<1>2. ASSUME NEW j \in Jobs, Lose(j), jobs[j].call = "update autonomy"
      PROVE  Agree(b)'
  <2>1. /\ UNCHANGED <<agents, autonomy>> /\ disturbed' = disturbed \union {jobs[j].agent}
        /\ jobs'[j].call = "none" /\ \A k \in Jobs \ {j} : jobs'[k] = jobs[k]
    BY <1>2 DEF Lose, TypeInv, TypeOK, Job
  <2>2. CASE jobs[j].agent = b
    BY <1>2, <1>b, <2>1, <2>2 DEF Granted
  <2>3. CASE jobs[j].agent # b
    <3>1. ASSUME NEW k \in Jobs
          PROVE  /\ k \in Granted(b)' <=> k \in Granted(b)
                 /\ k \in Granted(b) => jobs'[k].target = jobs[k].target
      BY <2>1, <2>3 DEF Granted
    <3>2. Quiet(b)
      BY <3>1 DEF Quiet, Granted
    <3>3. QED
      BY <1>a, <2>1, <3>2, AgreeStays
  <2>4. QED
    BY <2>2, <2>3
<1>3. ASSUME NEW j \in Jobs, RegisterIdentity(j) \/ Revoke(j)
      PROVE  Agree(b)'
  <2>1. UNCHANGED <<autonomy, disturbed>> /\ Quiet(b) /\ jobs[j].agent \in Agents
    BY <1>3, QuietSteps DEF RegisterIdentity, Revoke, TypeInv, Named
  <2>2. agents'[b].level = agents[b].level \/ (~ IsRegistered(b) /\ agents'[b].level = 0)
    BY <1>3, <2>1, RowTypes DEF RegisterIdentity, Revoke
  <2>3. QED
    BY <1>a, <2>1, <2>2, AgreeStays
<1>4. ASSUME NEW c \in Agents, InitAutonomy(c), UNCHANGED <<agents, disturbed>>, Quiet(b)
      PROVE  Agree(b)'
  <2>1. autonomy'[b] = autonomy[b] \/ (autonomy[b] = Unregistered /\ autonomy'[b] = 0)
    BY <1>4 DEF InitAutonomy, TypeInv, TypeOK
  <2>2. QED
    BY <1>4, <1>a, <2>1, AgreeStays
<1>5. ASSUME NEW j \in Jobs, RegisterAutonomy(j)
      PROVE  Agree(b)'
  <2>1. jobs[j].agent \in Agents
    BY <1>5 DEF RegisterAutonomy, TypeInv, Named
  <2>2. QED
    BY <1>4, <1>5, <2>1, QuietSteps DEF RegisterAutonomy
<1>6. ASSUME NEW j \in Jobs, Promote(j) \/ StoreLevel(j)
      PROVE  Agree(b)'
  BY <1>6, <1>a, PromoteAgrees, StoreAgrees
<1>7. ASSUME UNCHANGED jobs
      PROVE  Quiet(b)
  BY <1>7 DEF Quiet, Granted
<1>8. ASSUME NEW c \in Agents, Degrade(c)
      PROVE  Agree(b)'
  <2>1. autonomy[c] \in Levels /\ autonomy[c] - 1 \in Levels
    BY <1>8, TopLevelIsNat DEF Degrade, Levels
  <2>2. /\ autonomy'[c] # Unregistered /\ c \in disturbed'
        /\ \A d \in Agents \ {c} : autonomy'[d] = autonomy[d]
    BY <1>8, <2>1, ChangeLevelTypes, UnregisteredIsNoLevel DEF Degrade
  <2>3. CASE b = c
    BY <2>2, <2>3 DEF Agree
  <2>4. CASE b # c
    <3>1. UNCHANGED <<agents, jobs>> /\ disturbed \subseteq disturbed'
      BY <1>8 DEF Degrade
    <3>2. QED
      BY <1>7, <1>a, <2>2, <2>4, <3>1, AgreeStays
  <2>5. QED
    BY <2>3, <2>4
<1>9. ASSUME NEW c \in Agents, RegisterDirectly(c)
      PROVE  Agree(b)'
  BY <1>4, <1>7, <1>9 DEF RegisterDirectly
<1>10. ASSUME NEW c \in Agents, Rotate(c)
       PROVE  Agree(b)'
  <2>1. UNCHANGED <<autonomy, disturbed, jobs>>
    BY <1>10 DEF Rotate
  <2>2. agents'[b].level = agents[b].level \/ (~ IsRegistered(b) /\ agents'[b].level = 0)
    BY <1>10, RowTypes DEF Rotate
  <2>3. QED
    BY <1>7, <1>a, <2>1, <2>2, AgreeStays
<1>11. CASE UNCHANGED vars
  BY <1>11, <1>7, <1>a, AgreeStays DEF vars
<1>12. QED
  BY <1>1, <1>2, <1>3, <1>5, <1>6, <1>8, <1>9, <1>10, <1>11 DEF Next

\* AIM and AUT agree on the level of an agent whose last promotion went
\* through alone, with no call lost, given up or crossed by a degradation.
THEOREM UndisturbedLevelsAgree == Spec => []AgreeUndisturbed
<1>1. Init => TypeInv /\ RowsComeFirst /\ ReadyIsComplete /\ AllAgree
  <2>1. Free.call = "none" /\ NoRow.level = 0
    BY DEF Free, NoRow
  <2>2. ASSUME Init, NEW a \in Agents
        PROVE  Agree(a)
    <3>1. autonomy[a] = Unregistered /\ agents[a].level = 0 /\ Granted(a) = {}
      BY <2>1, <2>2 DEF Init, InitIdentity, Granted
    <3>2. QED
      BY <3>1 DEF Agree
  <2>3. QED
    BY <2>2, InitTypes, RowsComeFirstInit DEF AllAgree
<1>2. /\ TypeInv /\ RowsComeFirst /\ ReadyIsComplete /\ AllAgree
      /\ [Next]_vars
      => (TypeInv /\ RowsComeFirst /\ ReadyIsComplete /\ AllAgree)'
  BY TypeStep, RowsComeFirstStep, AgreeStep
<1>3. AllAgree => AgreeUndisturbed
  BY DEF AllAgree, Agree, AgreeUndisturbed, Known
<1>4. QED
  BY <1>1, <1>2, <1>3, PTL DEF Spec

-----------------------------------------------------------------------------
(***************************************************************************)
(* The credential broker, which reads AIM's rows and uses them later.      *)
(***************************************************************************)

\* The credential a request was judged by is not older than the one its
\* agent had when it was sent, and if the agent was suspended then and is
\* active now, it was rotated in between.
Since(old, new) ==
  /\ new.issued >= old.issued
  /\ old.state = "SUSPENDED" /\ new.state = "ACTIVE" => new.issued > old.issued

RowsBegin == \A a \in Agents : agents[a].state = "ABSENT" => agents[a].issued = 0

SignedByAgents == \A p \in Proofs : proofs[p] # Unsigned => proofs[p].agent \in Agents

RequestSince(r) ==
  /\ requests[r].pc \in {"load", "authorize"} => requests[r].agent \in Agents
  /\ requests[r].pc = "load" => Since(requests[r].sent, agents[requests[r].agent])
  /\ requests[r].pc \in {"authorize", "minted"} => Since(requests[r].sent, requests[r].credential)
  /\ requests[r].pc = "minted" => requests[r].credential.state = "ACTIVE"

BrokerTypeInv == BrokerTypeOK /\ RowsBegin /\ SignedByAgents

\* The record of a request after each of the answers, and of a new one.
LEMMA RequestRecords ==
  /\ NoRow \in Row
  /\ New \in Request /\ New.pc = "new"
  /\ [New EXCEPT !.pc = "refused"] \in Request
  /\ [New EXCEPT !.pc = "refused"].pc = "refused"
  <1>1. NoRow \in Row
    BY TopLevelIsNat DEF Row, NoRow, Levels
  <1> QED
    BY <1>1 DEF New, Request

\* What AIM's clients do to a row.
LEMMA IdentityChanges ==
  ASSUME BrokerTypeInv, NEW a \in Agents, Register(a) \/ RotateAgent(a) \/ RevokeAgent(a)
  PROVE  /\ agents' \in [Agents -> Row]
         /\ RowsBegin'
         /\ \A b \in Agents, old \in Row : Since(old, agents[b]) => Since(old, agents'[b])
         /\ UNCHANGED <<now, proofs, nonces, requests, forgotten>>
  <1>0. agents \in [Agents -> Row]
    BY DEF BrokerTypeInv, BrokerTypeOK
  <1>1. RegisterAgent(a) \/ RotateCredential(a) \/ RevokeCredential(a)
    BY DEF Register, RotateAgent, RevokeAgent
  <1>2. agents' \in [Agents -> Row]
    BY <1>0, <1>1, RowChanges
  <1>3. \A row \in Row : row.issued \in Nat
    BY DEF Row
  <1>4. \A b \in Agents, old \in Row : Since(old, agents[b]) => Since(old, agents'[b])
    <2> SUFFICES ASSUME NEW b \in Agents, NEW old \in Row, Since(old, agents[b])
                 PROVE  Since(old, agents'[b])
      OBVIOUS
    <2>1. CASE b # a
      BY <1>0, <1>1, <2>1, RowChanges
    <2>2. CASE b = a
      <3>1. \/ agents[a].state = "ABSENT" /\ agents'[a].issued = 1
            \/ agents'[a].issued = agents[a].issued + 1
            \/ agents'[a].issued = agents[a].issued /\ agents'[a].state = "SUSPENDED"
        BY <1>0, <1>1, RowChanges DEF IsRegistered
      <3>2. agents[a].issued \in Nat /\ old.issued \in Nat /\ agents'[a].issued \in Nat
        BY <1>0, <1>2, <1>3
      <3>3. agents[a].state = "ABSENT" => agents[a].issued = 0
        BY DEF BrokerTypeInv, RowsBegin
      <3> QED
        BY <2>2, <3>1, <3>2, <3>3 DEF Since
    <2> QED
      BY <2>1, <2>2
  <1>5. RowsBegin'
    <2>1. \A b \in Agents \ {a} : agents'[b] = agents[b]
      BY <1>0, <1>1, RowChanges
    <2>2. agents'[a].state # "ABSENT"
      BY <1>0, <1>1, RowChanges
    <2> QED
      BY <2>1, <2>2 DEF BrokerTypeInv, RowsBegin
  <1> QED
    BY <1>2, <1>4, <1>5 DEF Register, RotateAgent, RevokeAgent

\* A request as it is sent.
LEMMA SentRequest ==
  ASSUME BrokerTypeInv, NEW r \in Requests, NEW a \in Agents,
         NEW p \in Proofs \union {None}, NEW h \in Nat, Send(r, a, p, h)
  PROVE  /\ requests' \in [Requests -> Request]
         /\ \A q \in Requests \ {r} : requests'[q] = requests[q]
         /\ requests'[r].pc = "load"
         /\ requests'[r].agent = a
         /\ requests'[r].sent = agents[a]
  <1> DEFINE new == [New EXCEPT !.pc = "load", !.agent = a, !.proof = p, !.hmac = h,
                                !.sent = agents[a]]
  <1>1. agents[a] \in Row /\ requests \in [Requests -> Request]
    BY DEF BrokerTypeInv, BrokerTypeOK
  <1>2. /\ new \in Request
        /\ new.pc = "load" /\ new.agent = a /\ new.sent = agents[a]
    BY <1>1, RequestRecords DEF New, Request
  <1>3. requests' = [requests EXCEPT ![r] = new]
    BY DEF Send
  <1> HIDE DEF new
  <1> QED
    BY <1>1, <1>2, <1>3

\* A request that is sent, in whichever of the three ways.
LEMMA SendSteps ==
  ASSUME BrokerTypeInv, NEW r \in Requests,
         \/ \E a \in Agents : SendSigned(r, a) \/ SendUnsigned(r, a)
         \/ SendAgain(r)
  PROVE  /\ requests' \in [Requests -> Request]
         /\ \A q \in Requests \ {r} : requests'[q] = requests[q]
         /\ requests'[r].pc = "load"
         /\ requests'[r].agent \in Agents
         /\ requests'[r].sent = agents[requests'[r].agent]
         /\ proofs' \in [Proofs -> Proof]
         /\ SignedByAgents'
         /\ UNCHANGED <<agents, now, nonces, forgotten>>
  <1>0. /\ agents \in [Agents -> Row] /\ proofs \in [Proofs -> Proof]
        /\ now \in Nat /\ ClockErrors \subseteq Nat
        /\ \A row \in Row : row.issued \in Nat
    BY BrokerConstants DEF BrokerTypeInv, BrokerTypeOK, Row
  <1>1. ASSUME NEW a \in Agents, SendSigned(r, a)
        PROVE  /\ \E p \in Proofs : Send(r, a, p, 0)
               /\ proofs' \in [Proofs -> Proof]
               /\ SignedByAgents'
    <2>1. PICK p \in Proofs, k \in 1 .. agents[a].issued, e \in ClockErrors :
            /\ proofs' = [proofs EXCEPT ![p] = [agent |-> a, key |-> k, at |-> now + e]]
            /\ Send(r, a, p, 0)
      BY <1>1 DEF SendSigned
    <2> DEFINE new == [agent |-> a, key |-> k, at |-> now + e]
    <2>2. new \in Proof /\ new.agent = a
      BY <1>0 DEF Proof
    <2> HIDE DEF new
    <2>3. proofs' \in [Proofs -> Proof]
      BY <1>0, <2>1, <2>2 DEF new
    <2>4. SignedByAgents'
      BY <1>0, <2>1, <2>2 DEF new, SignedByAgents, BrokerTypeInv
    <2> QED
      BY <2>1, <2>3, <2>4
  <1>2. ASSUME NEW a \in Agents, SendUnsigned(r, a)
        PROVE  /\ \E h \in Nat : Send(r, a, None, h)
               /\ UNCHANGED proofs
    <2>1. agents[a].issued \in Nat
      BY <1>0
    <2> QED
      BY <1>2, <2>1 DEF SendUnsigned
  <1>3. ASSUME SendAgain(r)
        PROVE  /\ \E a \in Agents, p \in Proofs : Send(r, a, p, 0)
               /\ UNCHANGED proofs
    BY <1>3 DEF SendAgain, BrokerTypeInv, SignedByAgents
  <1>4. PICK a \in Agents, p \in Proofs \union {None}, h \in Nat : Send(r, a, p, h)
    BY <1>1, <1>2, <1>3
  <1>5. proofs' \in [Proofs -> Proof] /\ SignedByAgents'
    BY <1>0, <1>1, <1>2, <1>3 DEF BrokerTypeInv, SignedByAgents
  <1> QED
    BY <1>4, <1>5, SentRequest DEF Send

\* The nonces that are kept have not expired.
LEMMA KeptIsUnexpired == \A kept \in Kept : kept \subseteq Unexpired
  BY DEF Kept

\* The nonces after the clean-up.
LEMMA CleanedUp ==
  ASSUME BrokerTypeOK, NEW kept \in Kept
  PROVE  /\ CleanUp(kept) \in [Proofs -> 0 .. MaxTime + NonceTtl]
         /\ \A p \in Proofs : CleanUp(kept)[p] = IF p \in kept THEN nonces[p] ELSE 0
  <1>1. MaxTime \in Nat /\ NonceTtl \in Nat
    BY BrokerConstants
  <1> QED
    BY <1>1 DEF BrokerTypeOK, CleanUp

\* The answer of a request: it is refused, or a token is minted for a
\* credential that is active, now.
Refused(r) == requests'[r].pc = "refused"
Minted(r, p) ==
  /\ requests'[r].pc = "minted"
  /\ requests'[r].proof = p
  /\ requests'[r].minted = now
  /\ requests'[r].sent = requests[r].sent
  /\ requests'[r].credential = requests[r].credential

LEMMA RefusedRequest ==
  ASSUME BrokerTypeOK, NEW r \in Requests, Refuse(r)
  PROVE  /\ requests' \in [Requests -> Request]
         /\ \A q \in Requests \ {r} : requests'[q] = requests[q]
         /\ Refused(r)
  <1> DEFINE new == [New EXCEPT !.pc = "refused"]
  <1>1. new \in Request /\ new.pc = "refused"
    BY RequestRecords
  <1>2. requests' = [requests EXCEPT ![r] = new]
    BY DEF Refuse
  <1> HIDE DEF new
  <1> QED
    BY <1>1, <1>2 DEF BrokerTypeOK, Refused

LEMMA MintedRequest ==
  ASSUME BrokerTypeOK, NEW r \in Requests, NEW p \in Proofs \union {None}, Mint(r, p)
  PROVE  /\ requests' \in [Requests -> Request]
         /\ \A q \in Requests \ {r} : requests'[q] = requests[q]
         /\ Minted(r, p)
  <1> DEFINE new == [requests[r] EXCEPT !.pc = "minted", !.proof = p, !.hmac = 0,
                                        !.minted = now]
  <1>1. requests[r] \in Request /\ now \in Nat
    BY BrokerConstants DEF BrokerTypeOK
  <1>2. /\ new \in Request
        /\ new.pc = "minted" /\ new.proof = p /\ new.minted = now
        /\ new.sent = requests[r].sent /\ new.credential = requests[r].credential
    BY <1>1 DEF Request
  <1>3. requests' = [requests EXCEPT ![r] = new]
    BY DEF Mint
  <1> HIDE DEF new
  <1> QED
    BY <1>1, <1>2, <1>3 DEF BrokerTypeOK, Minted

\* A request whose credential is loaded.
LEMMA LoadedRequest ==
  ASSUME BrokerTypeOK, NEW r \in Requests, requests[r].agent \in Agents, LoadCredential(r)
  PROVE  /\ requests' \in [Requests -> Request]
         /\ \A q \in Requests \ {r} : requests'[q] = requests[q]
         /\ requests'[r].pc = "authorize"
         /\ requests'[r].agent = requests[r].agent
         /\ requests'[r].sent = requests[r].sent
         /\ requests'[r].credential = agents[requests[r].agent]
  <1> DEFINE c == agents[requests[r].agent]
             new == [requests[r] EXCEPT !.pc = "authorize", !.credential = c]
  <1>1. requests[r] \in Request /\ c \in Row
    BY DEF BrokerTypeOK
  <1>2. requests' = [requests EXCEPT ![r] = new]
    BY <1>1 DEF LoadCredential, BrokerTypeOK, Request
  <1> HIDE DEF c
  <1>3. /\ new \in Request
        /\ new.pc = "authorize" /\ new.agent = requests[r].agent
        /\ new.sent = requests[r].sent /\ new.credential = c
    BY <1>1 DEF Request
  <1> HIDE DEF new
  <1> QED
    BY <1>1, <1>2, <1>3 DEF BrokerTypeOK, c

\* What becomes of the nonces when a request is answered: one that was not
\* forgotten is kept, or had expired, or is kept anew.
NoncesSettle ==
  /\ nonces' \in [Proofs -> 0 .. MaxTime + NonceTtl]
  /\ forgotten \subseteq forgotten' /\ forgotten' \subseteq Proofs
  /\ \A p \in Proofs \ forgotten' :
       \/ nonces'[p] = nonces[p]
       \/ nonces[p] <= now /\ nonces'[p] = 0
       \/ nonces'[p] = now + NonceTtl

\* The nonces after a clean-up.
LEMMA CleaningSettles ==
  ASSUME BrokerTypeInv, NEW r \in Requests, NEW kept \in Kept, Cleaning(r, kept)
  PROVE  /\ CleanUp(kept) \in [Proofs -> 0 .. MaxTime + NonceTtl]
         /\ forgotten \subseteq forgotten' /\ forgotten' \subseteq Proofs
         /\ \A p \in Proofs \ forgotten' :
              \/ CleanUp(kept)[p] = nonces[p]
              \/ nonces[p] <= now /\ CleanUp(kept)[p] = 0
         /\ \A p \in Proofs \ (forgotten' \union kept) : nonces[p] <= now
  <1>0. /\ nonces \in [Proofs -> 0 .. MaxTime + NonceTtl] /\ now \in Nat
        /\ MaxTime \in Nat /\ NonceTtl \in Nat
        /\ forgotten \subseteq Proofs
    BY BrokerConstants DEF BrokerTypeInv, BrokerTypeOK
  <1>1. /\ CleanUp(kept) \in [Proofs -> 0 .. MaxTime + NonceTtl]
        /\ \A p \in Proofs : CleanUp(kept)[p] = IF p \in kept THEN nonces[p] ELSE 0
    BY CleanedUp DEF BrokerTypeInv
  <1>2. forgotten' = forgotten \union (Unexpired \ kept) /\ Unexpired \subseteq Proofs
    BY DEF Cleaning, Unexpired
  <1>3. \A p \in Proofs \ Unexpired : nonces[p] <= now
    BY <1>0 DEF Unexpired
  <1> HIDE DEF CleanUp
  <1> QED
    BY <1>0, <1>1, <1>2, <1>3

\* An answer without a token.
LEMMA RefusalSteps ==
  ASSUME BrokerTypeInv, NEW r \in Requests,
         LoadFails(r) \/ RefuseInactive(r) \/ RefuseReused(r)
  PROVE  /\ Refuse(r)
         /\ NoncesSettle
         /\ UNCHANGED <<agents, now, proofs>>
  <1>1. CASE LoadFails(r) \/ RefuseInactive(r)
    BY <1>1 DEF LoadFails, RefuseInactive, NoncesSettle, BrokerTypeInv, BrokerTypeOK
  <1>2. CASE RefuseReused(r)
    <2>1. PICK kept \in Kept : Cleaning(r, kept) /\ nonces' = CleanUp(kept) /\ Refuse(r)
      BY <1>2 DEF RefuseReused
    <2>2. NoncesSettle
      BY <2>1, CleaningSettles DEF NoncesSettle
    <2> QED
      BY <2>1, <2>2 DEF Cleaning
  <1> QED
    BY <1>1, <1>2

\* An answer for an hmac: a token or none.
LEMMA HmacSteps ==
  ASSUME BrokerTypeInv, NEW r \in Requests, AcceptHmac(r) \/ AcceptHmacForWrongProof(r)
  PROVE  /\ Refuse(r) \/ Mint(r, None)
         /\ requests[r].pc = "authorize" /\ requests[r].credential.state = "ACTIVE"
         /\ NoncesSettle
         /\ UNCHANGED <<agents, now, proofs>>
  <1>1. CheckHmac(r) => Refuse(r) \/ Mint(r, None)
    BY DEF CheckHmac
  <1>2. CASE AcceptHmac(r)
    BY <1>1, <1>2 DEF AcceptHmac, NoncesSettle, BrokerTypeInv, BrokerTypeOK
  <1>3. CASE AcceptHmacForWrongProof(r)
    <2>1. PICK kept \in Kept : Cleaning(r, kept) /\ nonces' = CleanUp(kept) /\ CheckHmac(r)
      BY <1>3 DEF AcceptHmacForWrongProof
    <2>2. NoncesSettle
      BY <2>1, CleaningSettles DEF NoncesSettle
    <2> QED
      BY <1>1, <2>1, <2>2 DEF Cleaning
  <1> QED
    BY <1>2, <1>3

\* An answer for a proof: a token or none, and its nonce, which was not
\* kept, is kept from now on.
LEMMA ProofSteps ==
  ASSUME BrokerTypeInv, NEW r \in Requests, AcceptProof(r)
  PROVE  /\ requests[r].proof \in Proofs
         /\ Refuse(r) \/ Mint(r, requests[r].proof)
         /\ requests[r].pc = "authorize" /\ requests[r].credential.state = "ACTIVE"
         /\ NoncesSettle
         /\ nonces'[requests[r].proof] = now + NonceTtl
         /\ requests[r].proof \notin forgotten' => nonces[requests[r].proof] <= now
         /\ UNCHANGED <<agents, now, proofs>>
  <1> DEFINE p == requests[r].proof
  <1>1. PICK kept \in Kept :
          /\ Cleaning(r, kept)
          /\ p \notin kept
          /\ nonces' = [CleanUp(kept) EXCEPT ![p] = ExpiryOf(p)]
          /\ Mint(r, p) \/ Refuse(r)
    BY DEF AcceptProof
  <1>2. p \in Proofs
    <2>1. p # None
      BY <1>1 DEF Cleaning, HasProofInTime
    <2>2. p \in Proofs \union {None}
      BY DEF BrokerTypeInv, BrokerTypeOK, Request
    <2> QED
      BY <2>1, <2>2
  <1>3. ExpiryOf(p) = now + NonceTtl /\ ExpiryOf(p) \in 0 .. MaxTime + NonceTtl
    BY BrokerConstants DEF ExpiryOf, BrokerTypeInv, BrokerTypeOK
  <1> HIDE DEF p
  <1>4. /\ CleanUp(kept) \in [Proofs -> 0 .. MaxTime + NonceTtl]
        /\ forgotten \subseteq forgotten' /\ forgotten' \subseteq Proofs
        /\ \A q \in Proofs \ forgotten' :
              \/ CleanUp(kept)[q] = nonces[q]
              \/ nonces[q] <= now /\ CleanUp(kept)[q] = 0
        /\ \A q \in Proofs \ (forgotten' \union kept) : nonces[q] <= now
    BY <1>1, CleaningSettles
  <1> DEFINE cleaned == CleanUp(kept)
  <1>5. /\ nonces' = [cleaned EXCEPT ![p] = now + NonceTtl]
        /\ cleaned \in [Proofs -> 0 .. MaxTime + NonceTtl]
    BY <1>1, <1>3, <1>4
  <1>6. \A q \in Proofs \ forgotten' :
              \/ cleaned[q] = nonces[q]
              \/ nonces[q] <= now /\ cleaned[q] = 0
    BY <1>4
  <1> HIDE DEF cleaned
  <1>7. NoncesSettle /\ nonces'[p] = now + NonceTtl
    BY <1>2, <1>3, <1>4, <1>5, <1>6 DEF NoncesSettle
  <1> QED
    BY <1>1, <1>2, <1>4, <1>7 DEF Cleaning, p

\* Every answer, in one form.
LEMMA AnswerSteps ==
  ASSUME BrokerTypeInv, NEW r \in Requests,
         \/ LoadFails(r) \/ RefuseInactive(r) \/ RefuseReused(r)
         \/ AcceptProof(r) \/ AcceptHmac(r) \/ AcceptHmacForWrongProof(r)
  PROVE  /\ requests' \in [Requests -> Request]
         /\ \A q \in Requests \ {r} : requests'[q] = requests[q]
         /\ \/ Refused(r)
            \/ /\ requests[r].pc = "authorize" /\ requests[r].credential.state = "ACTIVE"
               /\ \/ Minted(r, None)
                  \/ \E p \in Proofs :
                       /\ Minted(r, p)
                       /\ nonces'[p] = now + NonceTtl
                       /\ p \notin forgotten' => nonces[p] <= now
         /\ NoncesSettle
         /\ UNCHANGED <<agents, now, proofs>>
  <1>0. BrokerTypeOK
    BY DEF BrokerTypeInv
  <1>1. CASE LoadFails(r) \/ RefuseInactive(r) \/ RefuseReused(r)
    BY <1>0, <1>1, RefusalSteps, RefusedRequest
  <1>2. CASE AcceptHmac(r) \/ AcceptHmacForWrongProof(r)
    <2>1. CASE Refuse(r)
      BY <1>0, <1>2, <2>1, HmacSteps, RefusedRequest
    <2>2. CASE Mint(r, None)
      BY <1>0, <1>2, <2>2, HmacSteps, MintedRequest
    <2> QED
      BY <1>2, <2>1, <2>2, HmacSteps
  <1>3. CASE AcceptProof(r)
    <2>1. CASE Refuse(r)
      BY <1>0, <1>3, <2>1, ProofSteps, RefusedRequest
    <2>2. CASE Mint(r, requests[r].proof)
      BY <1>0, <1>3, <2>2, ProofSteps, MintedRequest
    <2> QED
      BY <1>3, <2>1, <2>2, ProofSteps
  <1> QED
    BY <1>1, <1>2, <1>3

\* A restart answers what was under way with an error, and no more.
LEMMA RestartSteps ==
  ASSUME BrokerTypeInv, Restart
  PROVE  /\ requests' \in [Requests -> Request]
         /\ \A r \in Requests :
              \/ Refused(r)
              \/ requests'[r] = requests[r] /\ requests[r].pc \notin {"load", "authorize"}
         /\ NoncesSettle
         /\ \A p \in Proofs \ forgotten' : nonces'[p] = nonces[p]
         /\ UNCHANGED <<agents, now, proofs>>
  <1> DEFINE new == [New EXCEPT !.pc = "refused"]
  <1>1. new \in Request /\ new.pc = "refused"
    BY RequestRecords
  <1>2. requests' = [r \in Requests |->
          IF requests[r].pc \in {"load", "authorize"} THEN new ELSE requests[r]]
    BY DEF Restart
  <1> HIDE DEF new
  <1>3. requests \in [Requests -> Request]
    BY DEF BrokerTypeInv, BrokerTypeOK
  <1>4. NoncesSettle /\ \A p \in Proofs \ forgotten' : nonces'[p] = nonces[p]
    <2>1. MaxTime \in Nat /\ NonceTtl \in Nat
      BY BrokerConstants
    <2> QED
      BY <2>1 DEF Restart, NoncesSettle, BrokerTypeInv, BrokerTypeOK
  <1>5. /\ requests' \in [Requests -> Request]
        /\ \A r \in Requests :
             IF requests[r].pc \in {"load", "authorize"}
               THEN requests'[r] = new ELSE requests'[r] = requests[r]
    BY <1>1, <1>2, <1>3
  <1> QED
    BY <1>1, <1>4, <1>5 DEF Restart, Refused

\* The types, for every step of the broker and of what is around it.
LEMMA BrokerTypeStep == BrokerTypeInv /\ [BrokerNext]_brokerVars
                          /\ (\A r \in Requests : RequestSince(r)) => BrokerTypeInv'
  <1> SUFFICES ASSUME BrokerTypeInv, [BrokerNext]_brokerVars,
                      \A r \in Requests : RequestSince(r)
               PROVE  BrokerTypeInv'
    OBVIOUS
  <1>0. BrokerTypeOK /\ MaxTime \in Nat /\ NonceTtl \in Nat
    BY BrokerConstants DEF BrokerTypeInv
  <1>1. ASSUME NEW a \in Agents, Register(a) \/ RotateAgent(a) \/ RevokeAgent(a)
        PROVE  BrokerTypeInv'
    BY <1>0, <1>1, IdentityChanges DEF BrokerTypeInv, BrokerTypeOK, SignedByAgents
  <1>2. ASSUME NEW r \in Requests,
               \/ \E a \in Agents : SendSigned(r, a) \/ SendUnsigned(r, a)
               \/ SendAgain(r)
        PROVE  BrokerTypeInv'
    BY <1>0, <1>2, SendSteps DEF BrokerTypeInv, BrokerTypeOK, RowsBegin
  <1>3. ASSUME NEW r \in Requests, LoadCredential(r)
        PROVE  BrokerTypeInv'
    <2>1. requests[r].agent \in Agents
      BY <1>3 DEF RequestSince, LoadCredential
    <2> QED
      BY <1>0, <1>3, <2>1, LoadedRequest DEF LoadCredential, BrokerTypeInv, BrokerTypeOK,
         RowsBegin, SignedByAgents
  <1>4. ASSUME NEW r \in Requests,
               \/ LoadFails(r) \/ RefuseInactive(r) \/ RefuseReused(r)
               \/ AcceptProof(r) \/ AcceptHmac(r) \/ AcceptHmacForWrongProof(r)
        PROVE  BrokerTypeInv'
    BY <1>0, <1>4, AnswerSteps DEF NoncesSettle, BrokerTypeInv, BrokerTypeOK, RowsBegin,
       SignedByAgents
  <1>5. CASE Restart
    BY <1>0, <1>5, RestartSteps DEF NoncesSettle, BrokerTypeInv, BrokerTypeOK, RowsBegin,
       SignedByAgents
  <1>6. CASE Tick
    BY <1>0, <1>6 DEF Tick, BrokerTypeInv, BrokerTypeOK, RowsBegin, SignedByAgents
  <1>7. CASE UNCHANGED brokerVars
    BY <1>0, <1>7 DEF brokerVars, BrokerTypeInv, BrokerTypeOK, RowsBegin, SignedByAgents
  <1> QED
    BY <1>1, <1>2, <1>3, <1>4, <1>5, <1>6, <1>7 DEF BrokerNext

\* The credentials that requests are judged by, for every step.
LEMMA SinceStep == BrokerTypeInv /\ [BrokerNext]_brokerVars
                     /\ (\A r \in Requests : RequestSince(r)) => \A r \in Requests : RequestSince(r)'
  <1> SUFFICES ASSUME BrokerTypeInv, [BrokerNext]_brokerVars,
                      \A r \in Requests : RequestSince(r), NEW r \in Requests
               PROVE  RequestSince(r)'
    OBVIOUS
  <1>0. /\ requests \in [Requests -> Request] /\ agents \in [Agents -> Row]
        /\ requests[r].sent \in Row
        /\ RequestSince(r)
    BY DEF BrokerTypeInv, BrokerTypeOK, Request
  <1>1. ASSUME NEW a \in Agents, Register(a) \/ RotateAgent(a) \/ RevokeAgent(a)
        PROVE  RequestSince(r)'
    BY <1>0, <1>1, IdentityChanges DEF RequestSince
  <1>2. ASSUME NEW q \in Requests,
               \/ \E a \in Agents : SendSigned(q, a) \/ SendUnsigned(q, a)
               \/ SendAgain(q)
        PROVE  RequestSince(r)'
    <2>1. CASE q = r
      <3>1. /\ requests'[r].pc = "load" /\ requests'[r].agent \in Agents
            /\ requests'[r].sent = agents[requests'[r].agent] /\ agents' = agents
        BY <1>2, <2>1, SendSteps
      <3>2. requests'[r].sent.issued \in Nat
        BY <1>0, <3>1 DEF Row
      <3> QED
        BY <3>1, <3>2 DEF RequestSince, Since
    <2>2. CASE q # r
      <3>1. requests'[r] = requests[r] /\ agents' = agents
        BY <1>2, <2>2, SendSteps
      <3> QED
        BY <1>0, <3>1 DEF RequestSince
    <2> QED
      BY <2>1, <2>2
  <1>3. ASSUME NEW q \in Requests, LoadCredential(q)
        PROVE  RequestSince(r)'
    <2>1. requests[q].agent \in Agents /\ RequestSince(q) /\ requests[q].pc = "load"
          /\ agents' = agents
      BY <1>3 DEF RequestSince, LoadCredential
    <2> QED
      BY <1>0, <1>3, <2>1, LoadedRequest DEF RequestSince, BrokerTypeInv
  <1>4. ASSUME NEW q \in Requests,
               \/ LoadFails(q) \/ RefuseInactive(q) \/ RefuseReused(q)
               \/ AcceptProof(q) \/ AcceptHmac(q) \/ AcceptHmacForWrongProof(q)
        PROVE  RequestSince(r)'
    <2>1. CASE q = r
      BY <1>0, <1>4, <2>1, AnswerSteps DEF RequestSince, Refused, Minted
    <2>2. CASE q # r
      <3>1. requests'[r] = requests[r] /\ agents' = agents
        BY <1>4, <2>2, AnswerSteps
      <3> QED
        BY <1>0, <3>1 DEF RequestSince
    <2> QED
      BY <2>1, <2>2
  <1>5. CASE Restart
    BY <1>0, <1>5, RestartSteps DEF RequestSince, Refused
  <1>6. CASE Tick \/ UNCHANGED brokerVars
    BY <1>0, <1>6 DEF RequestSince, Tick, brokerVars
  <1> QED
    BY <1>1, <1>2, <1>3, <1>4, <1>5, <1>6 DEF BrokerNext

\* The inductive invariant of the credentials.
CredentialsInv == BrokerTypeInv /\ \A r \in Requests : RequestSince(r)

LEMMA InitCredentials == BrokerInit => CredentialsInv
  <1> SUFFICES ASSUME BrokerInit
               PROVE  CredentialsInv
    OBVIOUS
  <1>1. NoRow \in Row /\ New \in Request /\ New.pc = "new"
    BY RequestRecords
  <1>2. Unsigned \in Proof /\ NoRow.issued = 0
    BY DEF Unsigned, Proof, NoRow
  <1>3. MaxTime \in Nat /\ NonceTtl \in Nat
    BY BrokerConstants
  <1>4. /\ agents = [a \in Agents |-> NoRow]
        /\ requests = [r \in Requests |-> New]
        /\ proofs = [p \in Proofs |-> Unsigned]
        /\ nonces = [p \in Proofs |-> 0]
        /\ now = 0 /\ forgotten = {}
    BY DEF BrokerInit, InitIdentity
  <1>5. BrokerTypeOK
    BY <1>1, <1>2, <1>3, <1>4 DEF BrokerTypeOK
  <1>6. RowsBegin /\ SignedByAgents
    BY <1>2, <1>4 DEF RowsBegin, SignedByAgents
  <1>7. \A r \in Requests : RequestSince(r)
    BY <1>1, <1>4 DEF RequestSince
  <1> QED
    BY <1>5, <1>6, <1>7 DEF CredentialsInv, BrokerTypeInv

LEMMA CredentialsHold == BrokerSpec => []CredentialsInv
  <1>1. CredentialsInv /\ [BrokerNext]_brokerVars => CredentialsInv'
    BY BrokerTypeStep, SinceStep DEF CredentialsInv
  <1> QED
    BY InitCredentials, <1>1, PTL DEF BrokerSpec

\* The rows, nonces and requests of the broker are always well typed.
THEOREM BrokerTypeCorrect == BrokerSpec => []BrokerTypeOK
  <1>1. CredentialsInv => BrokerTypeOK
    BY DEF CredentialsInv, BrokerTypeInv
  <1> QED
    BY CredentialsHold, <1>1, PTL

\* A token is minted for a credential that was not replaced, and for an
\* agent that was not suspended, when the request was sent, although the
\* broker reads the credential before it uses it (_authorize_tool_token).
THEOREM MintsAreForLiveCredentials == BrokerSpec => []MintedForLiveCredential
  <1>1. CredentialsInv => MintedForLiveCredential
    BY DEF CredentialsInv, RequestSince, Since, MintedForLiveCredential
  <1> QED
    BY CredentialsHold, <1>1, PTL
-----------------------------------------------------------------------------
(***************************************************************************)
(* One token for each proof.  The nonce of a proof that yielded a token is *)
(* kept for as long as nonces are kept, or was evicted or lost; so when    *)
(* the proof is accepted again that time has passed.                       *)
(***************************************************************************)

NoncesHeld ==
  \A p \in Proofs \ forgotten : \A r \in MintedWith(p) :
    /\ requests[r].minted <= now
    /\ \/ nonces[p] >= requests[r].minted + NonceTtl
       \/ now >= requests[r].minted + NonceTtl

TokensInv == CredentialsInv /\ NoncesHeld /\ OneTokenPerProof

\* A step that mints no token for a proof keeps the nonces of those it has.
LEMMA NoncesStayHeld ==
  ASSUME TokensInv, BrokerTypeInv', NoncesSettle, now' >= now,
         \A p \in Proofs : MintedWith(p)' \subseteq MintedWith(p),
         \A p \in Proofs : \A r \in MintedWith(p)' : requests'[r].minted = requests[r].minted
  PROVE  NoncesHeld' /\ OneTokenPerProof'
  <1>0. /\ \A r \in Requests : requests[r].minted \in Nat
        /\ now \in Nat /\ now' \in Nat /\ NonceTtl \in Nat /\ MaxTime \in Nat
        /\ \A p \in Proofs : nonces[p] \in Nat /\ nonces'[p] \in Nat
    BY BrokerConstants DEF TokensInv, CredentialsInv, BrokerTypeInv, BrokerTypeOK, Request
  <1>1. NoncesHeld'
    <2> SUFFICES ASSUME NEW p \in Proofs \ forgotten', NEW r \in MintedWith(p)'
                 PROVE  /\ requests'[r].minted <= now'
                        /\ \/ nonces'[p] >= requests'[r].minted + NonceTtl
                           \/ now' >= requests'[r].minted + NonceTtl
      BY DEF NoncesHeld
    <2>1. p \in Proofs \ forgotten /\ r \in MintedWith(p) /\ r \in Requests
      BY DEF NoncesSettle, MintedWith
    <2>2. requests'[r].minted = requests[r].minted
      OBVIOUS
    <2>3. /\ requests[r].minted <= now
          /\ \/ nonces[p] >= requests[r].minted + NonceTtl
             \/ now >= requests[r].minted + NonceTtl
      BY <2>1 DEF TokensInv, NoncesHeld
    <2>4. \/ nonces'[p] = nonces[p]
          \/ nonces[p] <= now
          \/ nonces'[p] = now + NonceTtl
      BY DEF NoncesSettle
    <2> QED
      BY <1>0, <2>1, <2>2, <2>3, <2>4
  <1>2. OneTokenPerProof'
    <2> SUFFICES ASSUME NEW p \in Proofs \ forgotten', NEW q \in MintedWith(p)',
                        NEW r \in MintedWith(p)', q # r
                 PROVE  requests'[q].minted - requests'[r].minted
                          \notin 1 - NonceTtl .. NonceTtl - 1
      BY DEF OneTokenPerProof
    <2>1. p \in Proofs \ forgotten /\ q \in MintedWith(p) /\ r \in MintedWith(p)
      BY DEF NoncesSettle
    <2> QED
      BY <2>1 DEF TokensInv, OneTokenPerProof
  <1> QED
    BY <1>1, <1>2

\* Minting a token for a proof whose nonce was not kept.
LEMMA MintingHolds ==
  ASSUME TokensInv, BrokerTypeInv', NoncesSettle, now' = now,
         NEW r \in Requests, requests[r].pc = "authorize",
         \A q \in Requests \ {r} : requests'[q] = requests[q],
         NEW p \in Proofs, Minted(r, p),
         nonces'[p] = now + NonceTtl,
         p \notin forgotten' => nonces[p] <= now
  PROVE  NoncesHeld' /\ OneTokenPerProof'
  <1>0. /\ \A q \in Requests : requests[q].minted \in Nat
        /\ now \in Nat /\ NonceTtl \in Nat /\ MaxTime \in Nat
        /\ \A q \in Proofs : nonces[q] \in Nat /\ nonces'[q] \in Nat
    BY BrokerConstants DEF TokensInv, CredentialsInv, BrokerTypeInv, BrokerTypeOK, Request
  <1>1. /\ r \notin MintedWith(p)
        /\ MintedWith(p)' = MintedWith(p) \union {r}
        /\ \A q \in Proofs \ {p} : MintedWith(q)' = MintedWith(q)
    BY DEF MintedWith, Minted
  <1>2. requests'[r].minted = now /\ \A q \in Requests \ {r} : requests'[q].minted = requests[q].minted
    BY DEF Minted
  <1>3. ASSUME NEW q \in Proofs \ forgotten', NEW x \in MintedWith(q)
        PROVE  /\ requests[x].minted <= now
               /\ \/ nonces[q] >= requests[x].minted + NonceTtl
                  \/ now >= requests[x].minted + NonceTtl
               /\ x \in Requests /\ requests'[x].minted = requests[x].minted
    <2>1. q \in Proofs \ forgotten
      BY DEF NoncesSettle
    <2>2. x \in Requests \ {r}
      BY DEF MintedWith
    <2> QED
      BY <1>2, <2>1, <2>2 DEF TokensInv, NoncesHeld
  <1>4. NoncesHeld'
    <2> SUFFICES ASSUME NEW q \in Proofs \ forgotten', NEW x \in MintedWith(q)'
                 PROVE  /\ requests'[x].minted <= now'
                        /\ \/ nonces'[q] >= requests'[x].minted + NonceTtl
                           \/ now' >= requests'[x].minted + NonceTtl
      BY DEF NoncesHeld
    <2>1. CASE x \in MintedWith(q)
      <3>1. \/ nonces'[q] = nonces[q]
            \/ nonces[q] <= now
            \/ nonces'[q] = now + NonceTtl
        BY DEF NoncesSettle
      <3> QED
        BY <1>0, <1>3, <2>1, <3>1
    <2>2. CASE x \notin MintedWith(q)
      <3>1. x = r /\ q = p
        BY <1>1, <2>2
      <3> QED
        BY <1>0, <1>2, <3>1
    <2> QED
      BY <2>1, <2>2
  <1>5. OneTokenPerProof'
    <2> SUFFICES ASSUME NEW q \in Proofs \ forgotten', NEW x \in MintedWith(q)',
                        NEW y \in MintedWith(q)', x # y
                 PROVE  requests'[x].minted - requests'[y].minted
                          \notin 1 - NonceTtl .. NonceTtl - 1
      BY DEF OneTokenPerProof
    <2>1. CASE x \in MintedWith(q) /\ y \in MintedWith(q)
      <3>1. q \in Proofs \ forgotten
        BY DEF NoncesSettle
      <3>2. requests'[x].minted = requests[x].minted /\ requests'[y].minted = requests[y].minted
        BY <1>3, <2>1
      <3> QED
        BY <2>1, <3>1, <3>2 DEF TokensInv, OneTokenPerProof
    <2>2. CASE ~(x \in MintedWith(q) /\ y \in MintedWith(q))
      <3>0. q = p
        <4>1. q # p => MintedWith(q)' = MintedWith(q)
          BY <1>1
        <4> QED
          BY <2>2, <4>1
      <3>1. \/ x = r /\ y \in MintedWith(p)
            \/ y = r /\ x \in MintedWith(p)
        <4>1. x \in MintedWith(p) \union {r} /\ y \in MintedWith(p) \union {r}
          BY <1>1, <3>0
        <4> QED
          BY <2>2, <3>0, <4>1
      <3>2. ASSUME NEW z \in MintedWith(p)
            PROVE  now >= requests'[z].minted + NonceTtl /\ requests'[z].minted \in Nat
        BY <1>0, <1>3, <3>0, <3>2
      <3> QED
        BY <1>0, <1>2, <3>1, <3>2
    <2> QED
      BY <2>1, <2>2
  <1> QED
    BY <1>4, <1>5

\* No step gives a second token for a proof whose nonce is kept.
LEMMA TokensStep == TokensInv /\ [BrokerNext]_brokerVars => TokensInv'
  <1> SUFFICES ASSUME TokensInv, [BrokerNext]_brokerVars
               PROVE  NoncesHeld' /\ OneTokenPerProof'
    BY BrokerTypeStep, SinceStep DEF TokensInv, CredentialsInv
  <1>0. /\ BrokerTypeInv /\ BrokerTypeInv' /\ BrokerTypeOK
        /\ requests \in [Requests -> Request] /\ now \in Nat
        /\ \A r \in Requests : RequestSince(r)
    BY BrokerTypeStep, BrokerConstants DEF TokensInv, CredentialsInv, BrokerTypeInv, BrokerTypeOK
  <1>1. ASSUME UNCHANGED <<nonces, forgotten>>
        PROVE  NoncesSettle
    BY <1>0, <1>1 DEF NoncesSettle, BrokerTypeInv, BrokerTypeOK
  <1>2. ASSUME NEW r \in Requests, requests'[r].pc # "minted", now' = now,
               \A q \in Requests \ {r} : requests'[q] = requests[q], NoncesSettle
        PROVE  NoncesHeld' /\ OneTokenPerProof'
    <2>1. /\ \A p \in Proofs : MintedWith(p)' \subseteq MintedWith(p)
          /\ \A p \in Proofs : \A q \in MintedWith(p)' : requests'[q].minted = requests[q].minted
      BY <1>2 DEF MintedWith
    <2> QED
      BY <1>0, <1>2, <2>1, NoncesStayHeld
  <1>3. ASSUME UNCHANGED requests, NoncesSettle, now' >= now
        PROVE  NoncesHeld' /\ OneTokenPerProof'
    <2>1. /\ \A p \in Proofs : MintedWith(p)' \subseteq MintedWith(p)
          /\ \A p \in Proofs : \A q \in MintedWith(p)' : requests'[q].minted = requests[q].minted
      BY <1>3 DEF MintedWith
    <2> QED
      BY <1>0, <1>3, <2>1, NoncesStayHeld
  <1>4. ASSUME NEW a \in Agents, Register(a) \/ RotateAgent(a) \/ RevokeAgent(a)
        PROVE  NoncesHeld' /\ OneTokenPerProof'
    <2>1. UNCHANGED <<now, proofs, nonces, requests, forgotten>>
      BY <1>0, <1>4, IdentityChanges
    <2> QED
      BY <1>0, <1>1, <1>3, <2>1
  <1>5. ASSUME NEW r \in Requests,
               \/ \E a \in Agents : SendSigned(r, a) \/ SendUnsigned(r, a)
               \/ SendAgain(r)
        PROVE  NoncesHeld' /\ OneTokenPerProof'
    BY <1>0, <1>1, <1>2, <1>5, SendSteps
  <1>6. ASSUME NEW r \in Requests, LoadCredential(r)
        PROVE  NoncesHeld' /\ OneTokenPerProof'
    <2>1. requests[r].agent \in Agents /\ UNCHANGED <<now, nonces, forgotten>>
      BY <1>0, <1>6 DEF RequestSince, LoadCredential
    <2> QED
      BY <1>0, <1>1, <1>2, <1>6, <2>1, LoadedRequest
  <1>7. ASSUME NEW r \in Requests,
               \/ LoadFails(r) \/ RefuseInactive(r) \/ RefuseReused(r)
               \/ AcceptProof(r) \/ AcceptHmac(r) \/ AcceptHmacForWrongProof(r)
        PROVE  NoncesHeld' /\ OneTokenPerProof'
    <2>1. /\ \A q \in Requests \ {r} : requests'[q] = requests[q]
          /\ NoncesSettle
          /\ now' = now
      BY <1>0, <1>7, AnswerSteps
    <2>2. CASE Refused(r)
      BY <1>2, <2>1, <2>2 DEF Refused
    <2>3. CASE requests[r].pc = "authorize" /\ Minted(r, None)
      <3>1. None \notin Proofs
        BY BrokerConstants DEF None
      <3>2. /\ \A p \in Proofs : MintedWith(p)' \subseteq MintedWith(p)
            /\ \A p \in Proofs : \A q \in MintedWith(p)' : requests'[q].minted = requests[q].minted
        BY <2>1, <2>3, <3>1 DEF MintedWith, Minted
      <3> QED
        BY <1>0, <2>1, <3>2, NoncesStayHeld
    <2>4. ASSUME requests[r].pc = "authorize", NEW p \in Proofs, Minted(r, p),
                 nonces'[p] = now + NonceTtl, p \notin forgotten' => nonces[p] <= now
          PROVE  NoncesHeld' /\ OneTokenPerProof'
      BY <1>0, <2>1, <2>4, MintingHolds
    <2> QED
      BY <1>0, <1>7, <2>2, <2>3, <2>4, AnswerSteps
  <1>8. CASE Restart
    <2>1. /\ \A p \in Proofs : MintedWith(p)' \subseteq MintedWith(p)
          /\ \A p \in Proofs : \A q \in MintedWith(p)' : requests'[q].minted = requests[q].minted
      BY <1>0, <1>8, RestartSteps DEF MintedWith, Refused
    <2>2. NoncesSettle /\ now' >= now
      BY <1>0, <1>8, RestartSteps
    <2> QED
      BY <1>0, <2>1, <2>2, NoncesStayHeld
  <1>9. CASE Tick \/ UNCHANGED brokerVars
    <2>1. UNCHANGED <<nonces, requests, forgotten>> /\ now' >= now
      BY <1>0, <1>9 DEF Tick, brokerVars
    <2> QED
      BY <1>1, <1>3, <2>1
  <1> QED
    BY <1>4, <1>5, <1>6, <1>7, <1>8, <1>9 DEF BrokerNext

\* A proof yields a second token only when its nonce was evicted or lost in
\* a restart, or after the time that nonces are kept, for any number of
\* requests, duplicates and clocks (_validate_signed_agent_proof).
THEOREM OneTokenForEachProof == BrokerSpec => []OneTokenPerProof
  <1>1. BrokerInit => TokensInv
    <2>1. BrokerInit => \A p \in Proofs : MintedWith(p) = {}
      BY RequestRecords DEF BrokerInit, MintedWith
    <2> QED
      BY <2>1, InitCredentials DEF TokensInv, NoncesHeld, OneTokenPerProof
  <1>2. TokensInv /\ [BrokerNext]_brokerVars => TokensInv'
    BY TokensStep
  <1>3. TokensInv => OneTokenPerProof
    BY DEF TokensInv
  <1> QED
    BY <1>1, <1>2, <1>3, PTL DEF BrokerSpec

=============================================================================
