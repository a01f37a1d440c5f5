------------------------- MODULE MCCredentialBroker -------------------------
(***************************************************************************)
(* One agent with up to two credentials, requests two at a time, a nonce   *)
(* cache with room for one nonce and the proofs to fill it; a skew of one  *)
(* second and nonces kept for two, the ratio of the broker's defaults.     *)
(***************************************************************************)
EXTENDS CredentialBroker, TLC

Symmetry == Permutations(Proofs) \union Permutations(Requests)
=============================================================================
