--------------------------- MODULE MCTrustKernel ---------------------------
(***************************************************************************)
(* A small instance of TrustKernel: the default bundles, and a deployment  *)
(* that asks only some of them and needs the baseline; a credential that   *)
(* is lowered, narrowed, suspended or gone; one envelope per kind of call  *)
(* and warning; two envelopes and one change, so that what was read for    *)
(* the first is out of date for the second.                                *)
(***************************************************************************)
EXTENDS TrustKernel

Default == [runtime |-> {"B05", "B14", "B16"}, prompt |-> {"B05"}, soft |-> TRUE]
MCConfigs == {Default,
              [Default EXCEPT !.runtime = {"B14", "B16"}],
              [Default EXCEPT !.runtime = {"B16"}, !.soft = FALSE]}

Own == Operations \X {"own"}
Active == [lifecycle |-> "ACTIVE", level |-> 2, complete |-> TRUE, allowed |-> Own]
MCCredentials == {Active,
                  [Active EXCEPT !.level = 1],
                  [Active EXCEPT !.complete = FALSE],
                  [Active EXCEPT !.allowed = {<<"toolCall", "own">>}],
                  [Active EXCEPT !.lifecycle = "SUSPENDED"],
                  [Active EXCEPT !.lifecycle = "absent"]}

Plain == [operation |-> "dataAccess", target |-> "own", level |-> 1,
          injected |-> FALSE, deep |-> FALSE, impact |-> FALSE, deviation |-> 0]
MCEnvelopes == {Plain,
                [Plain EXCEPT !.operation = "modelInvoke"],
                [Plain EXCEPT !.operation = "modelInvoke", !.injected = TRUE],
                [Plain EXCEPT !.operation = "toolCall", !.level = 2, !.impact = TRUE],
                [Plain EXCEPT !.operation = "toolCall", !.impact = TRUE, !.deviation = 5],
                [Plain EXCEPT !.operation = "interAgentCall", !.target = "other"],
                [Plain EXCEPT !.deviation = 5],
                [Plain EXCEPT !.deep = TRUE]}
=============================================================================
