-------------------------- MODULE MCEvidenceLedger --------------------------
(***************************************************************************)
(* A small instance of EvidenceLedger: an index of two entries, so that    *)
(* the third append evicts; five appends, so that some run behind a replay *)
(* and behind a line that was joined; two crashes, so that what one replay *)
(* leaves is cut off and replayed again.                                   *)
(***************************************************************************)
EXTENDS EvidenceLedger
=============================================================================
