--------------------------- MODULE AgentLifecycle ---------------------------
(***************************************************************************)
(* The creator API (services/creator-api/main.py) over the two services it *)
(* calls: AIM, which holds the credential and a copy of the autonomy       *)
(* level, and AUT (services/aut-service/main.py), which grants levels.     *)
(* Creating an agent and promoting one take a call to each, without a      *)
(* transaction around them: either call may be refused, be lost, or arrive *)
(* after the creator has given it up.                                      *)
(***************************************************************************)
EXTENDS AgentIdentity, Integers

CONSTANTS
  Jobs,       \* requests the creator handles at a time
  MaxEvents   \* bound of the model: changes of level of one agent

ASSUME LifecycleConstants == MaxEvents \in Nat /\ "nobody" \notin Agents

VARIABLES
  autonomy,   \* AUT: the level of each agent, Unregistered if it has no row
  events,     \* AUT: the changes of level of each agent, oldest first
  jobs,       \* the creator: the request each job serves, the call it has
              \* under way and the answer its client has
  disturbed   \* history: agents whose last promotion did not go alone and
              \* undisturbed from AUT to AIM

vars == <<agents, autonomy, events, jobs, disturbed>>

Unregistered == TopLevel + 1
Nobody == "nobody"

Event == [type : {"PROMOTE", "DEGRADE"}, from : Levels, to : Levels]

Calls ==
  {"none", "register identity", "register autonomy", "promote", "update autonomy", "revoke"}
Answers == {"free", "open", "READY", "promoted", "refused", "DECOMMISSIONED", "error"}
Job ==
  [call : Calls, answer : Answers, agent : Agents \union {Nobody},
   target : Levels, gates : BOOLEAN]

Free == [call |-> "none", answer |-> "free", agent |-> Nobody, target |-> 0, gates |-> FALSE]

Known == {a \in Agents : IsRegistered(a)}

\* Promotions of an agent that AUT has granted and AIM has not stored yet.
Granted(a) == {j \in Jobs : jobs[j].call = "update autonomy" /\ jobs[j].agent = a}

Init ==
  /\ InitIdentity
  /\ autonomy = [a \in Agents |-> Unregistered]
  /\ events = [a \in Agents |-> <<>>]
  /\ jobs = [j \in Jobs |-> Free]
  /\ disturbed = {}
-----------------------------------------------------------------------------
\* The requests of clients and the answers they get.

StartJob(j, call, a, l, gates) ==
  /\ jobs[j] = Free
  /\ jobs' = [jobs EXCEPT ![j] = [call |-> call, answer |-> "open", agent |-> a,
                                   target |-> l, gates |-> gates]]
  /\ UNCHANGED <<agents, autonomy, events, disturbed>>

\* create_governed_agent: the identifier is the one AIM will choose.
StartCreate(j) ==
  \E a \in Agents \ Known :
    /\ \A k \in Jobs \ {j} : jobs[k].call = "register identity" => jobs[k].agent # a
    /\ StartJob(j, "register identity", a, 0, FALSE)

\* promote_agent
StartPromote(j) ==
  \E a \in Known, l \in Levels, gates \in BOOLEAN : StartJob(j, "promote", a, l, gates)

\* decommission_agent
StartDecommission(j) ==
  \E a \in Known : StartJob(j, "revoke", a, 0, FALSE)

\* The call of job j is done.  The creator goes on with the next call, or
\* answers its client if there is none; if it has given up, nobody goes on.
GoOn(j, call, answer) ==
  jobs' = [jobs EXCEPT ![j].call = IF jobs[j].answer = "open" THEN call ELSE "none",
                       ![j].answer = IF @ = "open" /\ call = "none" THEN answer ELSE @]

\* The creator stops waiting, after ten seconds or because it crashes; its
\* call is still under way.
GiveUp(j) ==
  /\ jobs[j].call # "none" /\ jobs[j].answer = "open"
  /\ jobs' = [jobs EXCEPT ![j].answer = "error"]
  /\ disturbed' = IF jobs[j].call = "update autonomy"
                    THEN disturbed \union {jobs[j].agent} ELSE disturbed
  /\ UNCHANGED <<agents, autonomy, events>>

\* Mutant: a creation whose call to AUT fails is answered READY.
Lose_Swallowed(j) ==
  /\ jobs[j].call # "none"
  /\ jobs' = [jobs EXCEPT ![j].call = "none",
       ![j].answer = IF jobs[j].call = "register autonomy" /\ @ = "open" THEN "READY" ELSE "error"]
  /\ disturbed' = IF jobs[j].call = "update autonomy"
                    THEN disturbed \union {jobs[j].agent} ELSE disturbed
  /\ UNCHANGED <<agents, autonomy, events>>

\* The call never arrives.
Lose(j) ==
  /\ jobs[j].call # "none"
  /\ jobs' = [jobs EXCEPT ![j].call = "none", ![j].answer = "error"]
  /\ disturbed' = IF jobs[j].call = "update autonomy"
                    THEN disturbed \union {jobs[j].agent} ELSE disturbed
  /\ UNCHANGED <<agents, autonomy, events>>

\* The client has its answer and nothing of the request is under way.
Forget(j) ==
  /\ jobs[j].call = "none" /\ jobs[j].answer \notin {"free", "open"}
  /\ jobs' = [jobs EXCEPT ![j] = Free]
  /\ UNCHANGED <<agents, autonomy, events, disturbed>>
-----------------------------------------------------------------------------
\* The calls AIM and AUT handle.

\* create_governed_agent: the call to register_agent of AIM.
RegisterIdentity(j) ==
  /\ jobs[j].call = "register identity"
  /\ RegisterAgent(jobs[j].agent)
  /\ GoOn(j, "register autonomy", "open")
  /\ UNCHANGED <<autonomy, events, disturbed>>

\* Mutant: a row that is there already is written again.
InitAutonomy_Overwrites(a) ==
  autonomy' = [autonomy EXCEPT ![a] = 0]

\* _get_or_init: an agent that is registered already keeps its level.
InitAutonomy(a) ==
  autonomy' = [autonomy EXCEPT ![a] = IF @ = Unregistered THEN 0 ELSE @]

\* create_governed_agent: the call to register_autonomy of AUT.
RegisterAutonomy(j) ==
  /\ jobs[j].call = "register autonomy"
  /\ InitAutonomy(jobs[j].agent)
  /\ GoOn(j, "none", "READY")
  /\ UNCHANGED <<agents, events, disturbed>>

\* One level up and no further.
IsPromotion(a, l) == autonomy[a] # Unregistered /\ l = autonomy[a] + 1

\* AUT changes the level of an agent and records the event.
ChangeLevel(a, type, l) ==
  /\ Len(events[a]) < MaxEvents
  /\ autonomy' = [autonomy EXCEPT ![a] = l]
  /\ events' = [events EXCEPT ![a] = Append(@, [type |-> type, from |-> autonomy[a], to |-> l])]

\* promote of AUT, all gates passed: the creator goes on to AIM.  The
\* promotion is disturbed from the start if another one is on its way to
\* AIM, or if the creator does not wait for it any more.
Promote(j) ==
  LET a == jobs[j].agent IN
  /\ jobs[j].call = "promote"
  /\ IsPromotion(a, jobs[j].target) /\ jobs[j].gates
  /\ ChangeLevel(a, "PROMOTE", jobs[j].target)
  /\ GoOn(j, "update autonomy", "open")
  /\ disturbed' = IF Granted(a) # {} \/ jobs[j].answer # "open"
                    THEN disturbed \union {a} ELSE disturbed \ {a}
  /\ UNCHANGED agents

\* Mutant: the creator does not look whether AUT promoted the agent.
RefusePromotion_Stored(j) ==
  /\ jobs[j].call = "promote"
  /\ IsPromotion(jobs[j].agent, jobs[j].target) /\ ~ jobs[j].gates
  /\ GoOn(j, "update autonomy", "open")
  /\ UNCHANGED <<agents, autonomy, events, disturbed>>

\* A gate has failed: nothing is written, the answer says which gates.
RefusePromotion(j) ==
  /\ jobs[j].call = "promote"
  /\ IsPromotion(jobs[j].agent, jobs[j].target) /\ ~ jobs[j].gates
  /\ GoOn(j, "none", "refused")
  /\ UNCHANGED <<agents, autonomy, events, disturbed>>

\* An agent without a row, or a target that is not the next level: AUT
\* answers 404 or 400, and the creator 502.
RejectPromotion(j) ==
  /\ jobs[j].call = "promote"
  /\ ~ IsPromotion(jobs[j].agent, jobs[j].target)
  /\ GoOn(j, "none", "error")
  /\ UNCHANGED <<agents, autonomy, events, disturbed>>

\* Mutant: the promotion is answered when AIM did not store the level.
StoreLevel_Swallowed(j) ==
  /\ jobs[j].call = "update autonomy"
  /\ UpdateAutonomy(jobs[j].agent, jobs[j].target) \/ UNCHANGED agents
  /\ GoOn(j, "none", "promoted")
  /\ UNCHANGED <<autonomy, events, disturbed>>

\* promote_agent: the call to update_autonomy of AIM.
StoreLevel(j) ==
  /\ jobs[j].call = "update autonomy"
  /\ UpdateAutonomy(jobs[j].agent, jobs[j].target)
  /\ GoOn(j, "none", "promoted")
  /\ UNCHANGED <<autonomy, events, disturbed>>

\* decommission_agent: the call to revoke_credential of AIM.
Revoke(j) ==
  /\ jobs[j].call = "revoke"
  /\ RevokeCredential(jobs[j].agent)
  /\ GoOn(j, "none", "DECOMMISSIONED")
  /\ UNCHANGED <<autonomy, events, disturbed>>
-----------------------------------------------------------------------------
\* Requests that go to AUT and AIM directly.

\* Mutant: nothing stops the degradation of an agent at A0.
Degrade_WithoutFloor(a) ==
  /\ autonomy[a] \in Levels
  /\ ChangeLevel(a, "DEGRADE", autonomy[a] - 1)
  /\ disturbed' = disturbed \union {a}
  /\ UNCHANGED <<agents, jobs>>

\* degrade of AUT: one level down, never below A0.  AIM is not told.
Degrade(a) ==
  /\ autonomy[a] \in Levels \ {0}
  /\ ChangeLevel(a, "DEGRADE", autonomy[a] - 1)
  /\ disturbed' = disturbed \union {a}
  /\ UNCHANGED <<agents, jobs>>

\* register_autonomy of AUT, for an agent it may know already.
RegisterDirectly(a) ==
  /\ IsRegistered(a)
  /\ InitAutonomy(a)
  /\ UNCHANGED <<agents, events, jobs, disturbed>>

\* rotate_credential of AIM; bounded to one rotation of an agent.
Rotate(a) ==
  /\ agents[a].issued < 2
  /\ RotateCredential(a)
  /\ UNCHANGED <<autonomy, events, jobs, disturbed>>

Next ==
  \/ \E j \in Jobs :
       \/ StartCreate(j) \/ StartPromote(j) \/ StartDecommission(j)
       \/ GiveUp(j) \/ Lose(j) \/ Forget(j)
       \/ RegisterIdentity(j) \/ RegisterAutonomy(j)
       \/ Promote(j) \/ RefusePromotion(j) \/ RejectPromotion(j)
       \/ StoreLevel(j) \/ Revoke(j)
  \/ \E a \in Agents : Degrade(a) \/ RegisterDirectly(a) \/ Rotate(a)

Spec == Init /\ [][Next]_vars
-----------------------------------------------------------------------------
\* The types of the tables of AIM and AUT and of the creator's requests.
TypeOK ==
  /\ agents \in [Agents -> Row]
  /\ autonomy \in [Agents -> Levels \union {Unregistered}]
  /\ events \in [Agents -> Seq(Event)]
  /\ jobs \in [Jobs -> Job]
  /\ disturbed \subseteq Agents

\* s leads from A0 to level l: every change starts where the one before it
\* ended.
LeadsTo(s, l) ==
  /\ \A i \in 1 .. Len(s) : s[i].from = IF i = 1 THEN 0 ELSE s[i - 1].to
  /\ l = IF s = <<>> THEN 0 ELSE s[Len(s)].to

OneStep(e) == IF e.type = "PROMOTE" THEN e.to = e.from + 1 ELSE e.from = e.to + 1

\* The events AUT keeps of an agent account for its level, one step at a
\* time from A0, whatever promotions, degradations and registrations cross
\* (promote, degrade and _get_or_init of AUT); so does AIM's history for
\* AIM's level (update_autonomy).
HistoryAccountsForLevel ==
  \A a \in Agents :
    /\ autonomy[a] = Unregistered => events[a] = <<>>
    /\ autonomy[a] # Unregistered => LeadsTo(events[a], autonomy[a])
    /\ \A i \in 1 .. Len(events[a]) : OneStep(events[a][i])
    /\ LeadsTo(agents[a].history, agents[a].level)

\* An agent's credential never carries a level that AUT did not grant, at
\* whatever time an update of AIM arrives (promote_agent of the creator).
OnlyGrantedLevels ==
  \A a \in Agents :
    \A c \in {agents[a].history[i] : i \in 1 .. Len(agents[a].history)} :
      \E i \in 1 .. Len(events[a]) : events[a][i].type = "PROMOTE" /\ events[a][i].to = c.to

\* When the last promotion of an agent went through alone, and nothing
\* degraded the agent since, AIM and AUT have the same level.  A lost call,
\* a timeout, a crash of the creator or a second promotion at the same time
\* is what it takes for the two to differ (promote_agent of the creator).
AgreeUndisturbed ==
  \A a \in Known \ disturbed :
    autonomy[a] # Unregistered /\ Granted(a) = {} => agents[a].level = autonomy[a]

\* An agent whose creation was answered READY has its row in both services
\* (create_governed_agent of the creator).
ReadyIsComplete ==
  \A j \in Jobs :
    jobs[j].answer = "READY" =>
      /\ IsRegistered(jobs[j].agent)
      /\ autonomy[jobs[j].agent] # Unregistered
=============================================================================
