---------------------------- MODULE AgentIdentity ----------------------------
(***************************************************************************)
(* The identity service AIM (services/aim-service/main.py): the table of   *)
(* agents with their credential, their autonomy level and its history.     *)
(* Every handler reads and writes its row in one transaction, with no      *)
(* await between the two, so that one step of a service that uses AIM      *)
(* takes one of these operators; the row is committed before the reply and *)
(* survives a crash.  A refused or failed request leaves the table alone.  *)
(***************************************************************************)
EXTENDS Naturals, Sequences

CONSTANTS
  Agents,    \* identifiers of agents
  TopLevel   \* the highest autonomy level: 4, for A4

ASSUME TopLevelIsNat == TopLevel \in Nat

VARIABLE
  agents     \* the rows of the table; issued numbers the credentials of an
             \* agent, whose hmac depends on the time of issue

Levels == 0 .. TopLevel
Change == [from : Levels, to : Levels]

Row ==
  [state : {"ABSENT", "ACTIVE", "SUSPENDED"}, level : Levels, issued : Nat,
   history : Seq(Change)]

NoRow == [state |-> "ABSENT", level |-> 0, issued |-> 0, history |-> <<>>]

IsRegistered(a) == agents[a].state # "ABSENT"

InitIdentity == agents = [a \in Agents |-> NoRow]

\* A new agent is active at A0, whatever level the request asks for.
RegisterAgent(a) ==
  /\ ~ IsRegistered(a)
  /\ agents' = [agents EXCEPT ![a] = [NoRow EXCEPT !.state = "ACTIVE", !.issued = 1]]

\* A rotated credential is active, whatever state the agent was in.
RotateCredential(a) ==
  /\ IsRegistered(a)
  /\ agents' = [agents EXCEPT ![a].issued = @ + 1, ![a].state = "ACTIVE"]

RevokeCredential(a) ==
  /\ IsRegistered(a)
  /\ agents' = [agents EXCEPT ![a].state = "SUSPENDED"]

\* Any valid level is taken: AIM does not compare it with the one it has.
UpdateAutonomy(a, l) ==
  /\ IsRegistered(a)
  /\ agents' = [agents EXCEPT ![a].level = l,
                              ![a].history = Append(@, [from |-> agents[a].level, to |-> l])]
=============================================================================
