------------------------- MODULE MCProducerRegistry -------------------------
(***************************************************************************)
(* A small instance of ProducerRegistry: two producers, so that the        *)
(* entries of one stand between those of the other; four changes, so that  *)
(* a line can be torn, joined by the next and replayed; two crashes, so    *)
(* that what a replay shares with the log is replayed again.               *)
(***************************************************************************)
EXTENDS ProducerRegistry, TLC

CONSTANTS p1, p2
Symmetric == Permutations({p1, p2})
=============================================================================
