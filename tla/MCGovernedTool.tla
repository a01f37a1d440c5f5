--------------------------- MODULE MCGovernedTool ---------------------------
(***************************************************************************)
(* An instance of GovernedTool: one call that may ask for anything the     *)
(* policy tells apart, beside a plain one that shares its breaker.         *)
(***************************************************************************)
EXTENDS GovernedTool

CONSTANTS first, second

Ask(kind, severity, level) == [kind |-> kind, severity |-> severity, level |-> level, flags |-> {}]
\* The caller claims in its arguments that a human was asked.
Claim(kind, severity, level) ==
  [Ask(kind, severity, level) EXCEPT !.flags = {"step_up_satisfied"}]

MCInputsOf == [c \in Calls |->
  IF c = second THEN {Ask("data", "MEDIUM", "A0")}
  ELSE {Ask("tool", "HIGH", "A1"), Ask("agent", "CRITICAL", "A2"),
        Claim("tool", "HIGH", "A1"), Claim("model", "HIGH", "A2")}]
=============================================================================
