---------------------------- MODULE MCJsonlStore -----------------------------
(***************************************************************************)
(* Two payloads, four appends and three starts: a failed append, what its  *)
(* remains do to the next append, and the replay of both, twice.           *)
(***************************************************************************)
EXTENDS JsonlStore
=============================================================================
