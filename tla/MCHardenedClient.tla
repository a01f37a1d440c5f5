-------------------------- MODULE MCHardenedClient --------------------------
(***************************************************************************)
(* A small instance of HardenedClient: three calls, so that two can open   *)
(* the breaker while a third is still under way; two attempts; a reset     *)
(* time of two ticks, so that a failure can come in the middle of it.      *)
(***************************************************************************)
EXTENDS HardenedClient

CONSTANTS c1, c2, c3
=============================================================================
