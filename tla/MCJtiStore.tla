----------------------------- MODULE MCJtiStore -----------------------------
(***************************************************************************)
(* Two identifiers and ttls up to three seconds over five: time for an      *)
(* entry with a short ttl to expire behind one with a long ttl, and for    *)
(* both to be purged and registered again.                                 *)
(***************************************************************************)
EXTENDS JtiStore, TLC

Symmetry == Permutations(Jtis)
=============================================================================
