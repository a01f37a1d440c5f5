-------------------------- MODULE ProducerRegistry --------------------------
(***************************************************************************)
(* The registry of interpretability producers of C09 (PersistentCIR in     *)
(* runtime/c09/arhia_c09/cir_persistent.py) and the divergence gate that   *)
(* asks it whose signals count (gate.py, atk_bridge.py).                   *)
(*                                                                         *)
(* Every change is a line of a hash-chained log; a start replays the log   *)
(* and refuses one it cannot parse or whose chain is broken.  A hash is a  *)
(* number drawn afresh for every entry.  The registry is a synchronous     *)
(* library: only a failing write or a crash separates the steps of a       *)
(* change.  An entry keeps the data its hash covers; "edited" tells which  *)
(* entries in memory were given other data since, through the list of the  *)
(* producer's revocations that a replayed entry shares with the producer.  *)
(***************************************************************************)
EXTENDS Integers, Sequences, FiniteSets, SequencesExt

CONSTANTS
  Producers,    \* identifiers of producers
  FailClosed,   \* GateConfig.fail_closed_on_missing_signal
  MaxChanges,   \* bound of the model: changes begun
  MaxRestarts   \* bound of the model: crashes

ASSUME RegistryConstants ==
  /\ FailClosed \in BOOLEAN
  /\ MaxChanges \in Nat
  /\ MaxRestarts \in Nat

VARIABLES
  file,        \* the log file, one record per line
  terminated,  \* the last line ends with a newline
  up,          \* the process has replayed the log and serves
  producers,   \* _producers
  log,         \* _log
  edited,      \* the entries of log whose data is no longer what was hashed
  shared,      \* per producer, the entry of log that shares its history, or 0
  acked,       \* history: the entries whose change returned to the caller
  hashes,      \* how many hashes were computed so far
  restarts,    \* how many crashes happened so far
  tailLost     \* history: a host crash took text that was never synced

vars == <<file, terminated, up, producers, log, edited, shared, acked,
          hashes, restarts, tailLost>>

Genesis == 0
\* The text of a line: the whole of an entry, a part of one (whatever is
\* behind it), or an entry joined by the text of a later one.
Texts == {"whole", "part", "joined"}
Stops == {"suspend", "revoke"}

Status(action) == IF action = "suspend" THEN "suspended" ELSE "revoked"

\* A ProducerEntry: its status and its revocation_history.
Absent == [status |-> "absent", history |-> <<>>]
Fresh == [status |-> "active", history |-> <<>>]
Stopped(d, action) ==
  [status |-> Status(action), history |-> Append(d.history, action)]

LastHash == IF log = <<>> THEN Genesis ELSE log[Len(log)].hash
Entry(action, p, d) ==
  [seq |-> Len(log), action |-> action, producer |-> p, data |-> d,
   prev |-> LastHash, hash |-> hashes + 1]

Init ==
  /\ file = <<>>
  /\ terminated = TRUE
  /\ up = TRUE
  /\ producers = [p \in Producers |-> Absent]
  /\ log = <<>>
  /\ edited = {}
  /\ shared = [p \in Producers |-> 0]
  /\ acked = {}
  /\ hashes = 0
  /\ restarts = 0
  /\ tailLost = FALSE

(***************************************************************************)
(* register, suspend and revoke.                                           *)
(***************************************************************************)

\* Text appended to the file: a line of its own or, behind a line without a
\* newline, more text on that line, which parses no more.
FileWith(e, text) ==
  IF terminated
    THEN Append(file, [entry |-> e, text |-> text])
    ELSE [file EXCEPT ![Len(file)].text = IF @ = "part" THEN "part" ELSE "joined"]

BeginChange ==
  /\ up
  /\ hashes < MaxChanges
  /\ hashes' = hashes + 1

\* _append_log up to the return: the line, the list and the last hash.
AppendLog(e) ==
  /\ file' = FileWith(e, "whole")
  /\ terminated' = TRUE
  /\ log' = Append(log, e)
  /\ UNCHANGED <<restarts, tailLost>>

\* open() or write() raises: nothing, part of the line, or all of it but the
\* newline is in the file, and the list is as before.
AppendFails(e) ==
  /\ \/ UNCHANGED <<file, terminated>>
     \/ /\ \E text \in {"whole", "part"} : file' = FileWith(e, text)
        /\ terminated' = FALSE
  /\ UNCHANGED <<log, acked, restarts, tailLost>>

Register(p) ==
  LET e == Entry("register", p, Fresh) IN
  /\ BeginChange
  /\ producers[p] = Absent
  /\ AppendLog(e)
  /\ producers' = [producers EXCEPT ![p] = Fresh]
  /\ acked' = acked \union {e}
  /\ UNCHANGED <<up, edited, shared>>

\* Mutant: the producer is in the dictionary before the log has it.
RegisterFails_MemoryFirst(p) ==
  /\ BeginChange
  /\ producers[p] = Absent
  /\ AppendFails(Entry("register", p, Fresh))
  /\ producers' = [producers EXCEPT ![p] = Fresh]
  /\ UNCHANGED <<up, edited, shared>>

RegisterFails(p) ==
  /\ BeginChange
  /\ producers[p] = Absent
  /\ AppendFails(Entry("register", p, Fresh))
  /\ UNCHANGED <<up, producers, edited, shared>>

\* suspend and revoke change the entry in memory first, whatever its status
\* was; the history is appended to in place, in the replayed entry of the
\* log too if it shares the list.
ChangeStatus(p, action) ==
  /\ BeginChange
  /\ producers[p] # Absent
  /\ producers' = [producers EXCEPT ![p] = Stopped(@, action)]
  /\ edited' = edited \union ({shared[p]} \ {0})
  /\ UNCHANGED <<up, shared>>

Stop(p, action) ==
  LET e == Entry(action, p, Stopped(producers[p], action)) IN
  /\ ChangeStatus(p, action)
  /\ AppendLog(e)
  /\ acked' = acked \union {e}

StopFails(p, action) ==
  /\ ChangeStatus(p, action)
  /\ AppendFails(Entry(action, p, Stopped(producers[p], action)))

(***************************************************************************)
(* Crashes and the replay at the next start.                               *)
(***************************************************************************)

LoseMemory ==
  /\ up
  /\ restarts < MaxRestarts
  /\ restarts' = restarts + 1
  /\ up' = FALSE
  /\ producers' = [p \in Producers |-> Absent]
  /\ log' = <<>>
  /\ edited' = {}
  /\ shared' = [p \in Producers |-> 0]
  /\ UNCHANGED acked

Crash ==
  /\ LoseMemory
  /\ UNCHANGED <<file, terminated, hashes, tailLost>>

\* The process is killed behind the write, before the caller has an answer.
CrashAfterWrite(p) ==
  /\ LoseMemory
  /\ hashes < MaxChanges
  /\ hashes' = hashes + 1
  /\ \/ producers[p] = Absent /\ file' = FileWith(Entry("register", p, Fresh), "whole")
     \/ /\ producers[p] # Absent
        /\ \E action \in Stops :
             file' = FileWith(Entry(action, p, Stopped(producers[p], action)), "whole")
  /\ terminated' = TRUE
  /\ UNCHANGED tailLost

\* What the text of a line is when its end is cut off: an entry may lose its
\* newline only, and the entry in front of what joined it may come back.
Cut(text) == {"part", text} \union IF text = "joined" THEN {"whole"} ELSE {}

\* Nothing is ever synced: a host crash can take any end of the file, from
\* the beginning of a line or from the middle of it.
HostCrash ==
  /\ LoseMemory
  /\ \E kept \in 0 .. Len(file) - 1 :
       \/ file' = SubSeq(file, 1, kept) /\ terminated' = TRUE
       \/ /\ \E text \in Cut(file[kept + 1].text) :
               file' = [SubSeq(file, 1, kept + 1) EXCEPT ![kept + 1].text = text]
          /\ terminated' = FALSE
  /\ tailLost' = TRUE
  /\ UNCHANGED hashes

\* Mutant: of a line that does not parse the replay takes the first entry.
Replayable_FirstOfLine ==
  \A i \in DOMAIN file :
    file[i].entry.prev = IF i = 1 THEN Genesis ELSE file[i - 1].entry.hash

\* Every line parses and names the hash of the line before it.
Replayable ==
  \A i \in DOMAIN file :
    /\ file[i].text = "whole"
    /\ file[i].entry.prev = IF i = 1 THEN Genesis ELSE file[i - 1].entry.hash

\* The entries of p in a log, the last of them, and what it says of p.
EntriesOf(p, entries) == {i \in DOMAIN entries : entries[i].producer = p}
LastOf(p, entries) == CHOOSE i \in EntriesOf(p, entries) :
                        \A j \in EntriesOf(p, entries) : j <= i

\* Mutant: the replay knows "register" and "suspend" only.
Replayed_NoRevoke(p, entries) ==
  LET known == {i \in EntriesOf(p, entries) : entries[i].action # "revoke"} IN
  IF known = {} THEN Absent
  ELSE entries[CHOOSE i \in known : \A j \in known : j <= i].data

Replayed(p, entries) ==
  IF EntriesOf(p, entries) = {} THEN Absent ELSE entries[LastOf(p, entries)].data

\* __init__ and _replay.
Restart ==
  LET entries == [i \in DOMAIN file |-> file[i].entry] IN
  /\ ~up
  /\ Replayable
  /\ up' = TRUE
  /\ log' = entries
  /\ producers' = [p \in Producers |-> Replayed(p, entries)]
  /\ shared' = [p \in Producers |->
                  IF EntriesOf(p, entries) = {} THEN 0 ELSE LastOf(p, entries)]
  /\ edited' = {}
  /\ UNCHANGED <<file, terminated, acked, hashes, restarts, tailLost>>

\* The replay raises ValueError: the registry does not start.
RefuseStart ==
  /\ ~up
  /\ ~Replayable
  /\ UNCHANGED vars

(***************************************************************************)
(* The gate: evaluate and translate_decision, which keep nothing.          *)
(* Against the two thresholds a lower bound is low (under both), middle    *)
(* (over the regulated one) or high (over both).                           *)
(***************************************************************************)

Bounds == {"none", "low", "middle", "high"}
Order == [none |-> 0, low |-> 1, middle |-> 2, high |-> 3]

\* An envelope, and what the caller says of the action: authentic is a fresh
\* signal with a good signature, valid a producer whose entry and
\* calibration have not expired.
Step == [producer : Producers, klass : {"A", "B", "C"}, authentic : BOOLEAN,
         valid : BOOLEAN, bound : Bounds, impact : 1 .. 5, regulated : BOOLEAN]

Admissible(s) ==
  /\ producers[s.producer].status = "active"
  /\ s.valid
  /\ s.authentic

\* Only Class C carries the divergence.
LowerBound(s) == IF s.klass = "C" THEN s.bound ELSE "none"

\* The lower bound is over the threshold of the sector.
OverThreshold(s) ==
  LowerBound(s) \in IF s.regulated THEN {"middle", "high"} ELSE {"high"}

Outcome(s) ==
  IF ~Admissible(s) THEN "log_only"
  ELSE IF OverThreshold(s) /\ s.impact >= 3 THEN "force_hil"
  ELSE "weighted"

OutcomeWithoutEnvelope(impact, regulated) ==
  IF FailClosed /\ impact >= 4 /\ regulated THEN "force_hil" ELSE "no_signal"

\* The ATKSignal of an outcome: the least level of supervision it asks for
\* and what it adds to the risk, from 0 to 4 (the whole of it).
Signal(outcome, bound) ==
  CASE outcome = "force_hil" -> [block |-> TRUE, floor |-> 5, weight |-> 4, forensic |-> TRUE]
    [] outcome = "weighted" -> [block |-> FALSE, floor |-> 2, weight |-> Order[bound], forensic |-> FALSE]
    [] outcome = "log_only" -> [block |-> FALSE, floor |-> 1, weight |-> 0, forensic |-> TRUE]
    [] outcome = "no_signal" -> [block |-> FALSE, floor |-> 1, weight |-> 0, forensic |-> FALSE]

SignalOf(s) == Signal(Outcome(s), LowerBound(s))

\* get, is_accredited, evaluate, verify_log: they change nothing.
Query ==
  /\ up
  /\ UNCHANGED vars

Next ==
  \/ \E p \in Producers : Register(p) \/ RegisterFails(p) \/ CrashAfterWrite(p)
  \/ \E p \in Producers, action \in Stops : Stop(p, action) \/ StopFails(p, action)
  \/ Crash
  \/ HostCrash
  \/ Restart
  \/ RefuseStart
  \/ Query

Spec == Init /\ [][Next]_vars

-----------------------------------------------------------------------------
(***************************************************************************)
(* Properties.                                                             *)
(***************************************************************************)

\* Every variable keeps its shape; the shared entries are entries of the log.
Data == [status : {"absent", "active", "suspended", "revoked"},
         history : Seq(Stops)]
Entries == [seq : Nat, action : {"register"} \union Stops, producer : Producers,
            data : Data, prev : Nat, hash : Nat]
TypeOK ==
  /\ file \in Seq([entry : Entries, text : Texts])
  /\ terminated \in BOOLEAN
  /\ ~terminated => file # <<>>
  /\ up \in BOOLEAN
  /\ producers \in [Producers -> Data]
  /\ log \in Seq(Entries)
  /\ edited \subseteq DOMAIN log
  /\ shared \in [Producers -> DOMAIN log \union {0}]
  /\ acked \subseteq Entries
  /\ hashes \in Nat
  /\ restarts \in Nat
  /\ tailLost \in BOOLEAN

\* What the gate and the registry promise together: once the suspension or
\* the revocation of a producer returned, no signal of that producer counts
\* any more, after any later change, failing write, crash and replay, as
\* long as the host does not lose the end of the file.
StoppedProducersIgnored ==
  (up /\ ~tailLost) =>
    \A e \in acked :
      e.action \in Stops =>
        \A s \in Step : s.producer = e.producer => Outcome(s) = "log_only"

\* The dictionary never trusts a producer more than the log does: it holds
\* what the last entry of the producer says or, when a later change could
\* not be written, the same history with that change and a status that is
\* not active; a producer that is not in the log is not in the dictionary.
MemoryMatchesLog ==
  up => \A p \in Producers :
    IF EntriesOf(p, log) = {} THEN producers[p] = Absent
    ELSE LET d == log[LastOf(p, log)].data IN
      \/ producers[p] = d
      \/ /\ IsStrictPrefix(d.history, producers[p].history)
         /\ producers[p].status \in {"suspended", "revoked"}

\* A registry that serves holds every change that was answered, whatever
\* writes failed before: a log with a torn line is refused at the start,
\* never shortened.
AckedInLog ==
  (up /\ ~tailLost) => \A e \in acked : \E i \in DOMAIN log : log[i] = e

\* The class MerkleLogEntry ("Immutable log entry in the CIR Merkle log")
\* and verify_log ("ok=True means no tampering detected. errors contains
\* descriptions of any violations found"): nothing but tampering makes
\* verify_log fail, so it answers ok in every state of this model.
VerifyLog ==
  /\ edited = {}
  /\ \A i \in DOMAIN log : log[i].prev = IF i = 1 THEN Genesis ELSE log[i - 1].hash
LogVerifies == up => VerifyLog

\* Of two admissible envelopes of one class for the same kind of producer,
\* the one with more divergence, a higher impact or a regulated sector never
\* gets a weaker signal.
MoreDivergenceNeverWeaker ==
  \A s, t \in Step :
    (/\ Admissible(s) /\ Admissible(t)
     /\ s.klass = t.klass
     /\ Order[s.bound] <= Order[t.bound]
     /\ s.impact <= t.impact
     /\ s.regulated => t.regulated)
    => /\ SignalOf(s).floor <= SignalOf(t).floor
       /\ SignalOf(s).weight <= SignalOf(t).weight

=============================================================================
