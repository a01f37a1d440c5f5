---------------------------- MODULE AppendOnlyLog ----------------------------
(***************************************************************************)
(* What an evidence store promises to its clients ("Ledger append-only"):  *)
(* entries are added one at a time at the end, with growing sequence       *)
(* numbers; none is ever changed or removed; an entry is acknowledged only *)
(* once it is in the log.  The promise ends when the medium damages the    *)
(* file: after that the log may hold anything.                             *)
(***************************************************************************)
EXTENDS Integers, Sequences

VARIABLES
  log,      \* the entries, oldest first
  acked,    \* the entries a client knows to be recorded
  damaged   \* the medium lost or tore data that was being written

logVars == <<log, acked, damaged>>

Logged == {log[i] : i \in DOMAIN log}

Init ==
  /\ log = <<>>
  /\ acked = {}
  /\ damaged = FALSE

\* One entry is added behind all the others.
Extend ==
  /\ ~damaged
  /\ Len(log') = Len(log) + 1
  /\ \A i \in DOMAIN log :
       /\ log'[i] = log[i]
       /\ log[i].seq < log'[Len(log')].seq
  /\ UNCHANGED <<acked, damaged>>

\* A client is told that an entry of the log is recorded.
Acknowledge ==
  /\ ~damaged
  /\ acked \subseteq acked'
  /\ acked' \subseteq Logged
  /\ UNCHANGED <<log, damaged>>

Damaged == damaged'

Next == Extend \/ Acknowledge \/ Damaged

Spec == Init /\ [][Next]_logVars

=============================================================================
