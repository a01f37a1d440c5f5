-------------------------- MODULE MCAgentLifecycle --------------------------
(***************************************************************************)
(* One agent and three requests at a time, whose calls may be late or lost;*)
(* levels A0 to A2 and three changes of level: enough for two promotions   *)
(* to cross on their way to AIM, for a third request that crosses both, or *)
(* for a degradation between them.                                         *)
(***************************************************************************)
EXTENDS AgentLifecycle, TLC

Symmetry == Permutations(Agents) \union Permutations(Jobs)
=============================================================================
