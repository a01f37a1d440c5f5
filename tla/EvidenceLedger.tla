--------------------------- MODULE EvidenceLedger ---------------------------
(***************************************************************************)
(* The Python evidence store (services/evidence-store/main.py): a JSONL    *)
(* file in which every entry carries the HMAC of its predecessor, the      *)
(* in-memory head (_sequence, _last_hash), the bounded index, the replay   *)
(* that rebuilds both at start-up, and the chain verification.             *)
(*                                                                         *)
(* An HMAC is a number drawn afresh for every entry (entries carry a       *)
(* timestamp, so two of them never have the same HMAC); recomputing it     *)
(* from the wrong predecessor never gives the stored one.  The handler has *)
(* no await inside the lock, so only a crash or a failing write can        *)
(* separate its steps: the head is advanced, the line is written, the      *)
(* index is updated and the request answered.                              *)
(***************************************************************************)
EXTENDS Integers, Sequences, FiniteSets

CONSTANTS
  MaxIndexSize,   \* EVIDENCE_MAX_INDEX_SIZE
  MaxAppends,     \* bound of the model: appends begun
  MaxRestarts     \* bound of the model: crashes

ASSUME LedgerConstants ==
  /\ MaxIndexSize \in Nat \ {0}
  /\ MaxAppends \in Nat
  /\ MaxRestarts \in Nat

VARIABLES
  lines,       \* the ledger file, one record per line
  terminated,  \* the last line ends with a newline
  pc,          \* where the process is: down, idle, or inside an append
  entry,       \* the entry of the append in progress (kept afterwards)
  sequence,    \* _sequence
  lastHash,    \* _last_hash
  index,       \* _index: the entries held in memory
  acked,       \* history: the entries a client got a 201 for
  lost,        \* history: what the host took of them when it last crashed
  hashes,      \* how many HMACs were computed so far
  restarts,    \* how many crashes happened so far
  faults       \* history: the kinds of fault that happened so far

vars == <<lines, terminated, pc, entry, sequence, lastHash, index, acked, lost,
          hashes, restarts, faults>>

Genesis == 0
Entry == [seq : Nat, prev : Nat, hash : Nat]
\* The text of a line: the whole of an entry, a part of one (whatever is
\* behind it), or an entry joined by the text of a later one.
Texts == {"whole", "part", "joined"}
Line == [entry : Entry, text : Texts]

\* refused: nothing reached the file; torn: a part of the line did, not a
\* JSON text; unterminated: all of it but the newline.  lostByHost: lines
\* that were never synced are gone, and what is left ends with a newline;
\* tornByHost: what is left ends within a line, or without its newline.
HostFaults == {"lostByHost", "tornByHost"}
FaultKinds == {"refused", "torn", "unterminated"} \union HostFaults

Readable == {i \in DOMAIN lines : lines[i].text = "whole"}
OnDisk == {lines[i].entry : i \in Readable}

\* verify_chain answers valid: every line parses, and every stored HMAC is
\* the one recomputed from the line before it.
VerifyValid ==
  \A i \in DOMAIN lines :
    /\ lines[i].text = "whole"
    /\ lines[i].entry.prev = IF i = 1 THEN Genesis ELSE lines[i - 1].entry.hash

Init ==
  /\ lines = <<>>
  /\ terminated = TRUE
  /\ pc = "idle"
  /\ entry = [seq |-> 0, prev |-> Genesis, hash |-> Genesis]
  /\ sequence = 0
  /\ lastHash = Genesis
  /\ index = {}
  /\ acked = {}
  /\ lost = {}
  /\ hashes = 0
  /\ restarts = 0
  /\ faults = {}

(***************************************************************************)
(* append_evidence, and append_service_event which delegates to it.        *)
(***************************************************************************)

\* Mutant: the number is taken from the size of the index, not the counter.
BeginAppend_CountsIndex ==
  /\ pc = "idle"
  /\ hashes < MaxAppends
  /\ hashes' = hashes + 1
  /\ sequence' = Cardinality(index) + 1
  /\ entry' = [seq |-> sequence', prev |-> lastHash, hash |-> hashes + 1]
  /\ lastHash' = hashes + 1
  /\ pc' = "prepared"
  /\ UNCHANGED <<lines, terminated, index, acked, lost, restarts, faults>>

\* The head moves to the new entry before anything is written.
BeginAppend ==
  /\ pc = "idle"
  /\ hashes < MaxAppends
  /\ hashes' = hashes + 1
  /\ sequence' = sequence + 1
  /\ entry' = [seq |-> sequence + 1, prev |-> lastHash, hash |-> hashes + 1]
  /\ lastHash' = hashes + 1
  /\ pc' = "prepared"
  /\ UNCHANGED <<lines, terminated, index, acked, lost, restarts, faults>>

\* What the file becomes when text is appended: a new line, or, behind a
\* line that has no newline, more text on that line, which parses no more.
LinesWith(text) ==
  IF terminated
    THEN Append(lines, [entry |-> entry, text |-> text])
    ELSE [lines EXCEPT ![Len(lines)].text = IF @ = "part" THEN "part" ELSE "joined"]

WriteLine ==
  /\ pc = "prepared"
  /\ lines' = LinesWith("whole")
  /\ terminated' = TRUE
  /\ pc' = "written"
  /\ UNCHANGED <<entry, sequence, lastHash, index, acked, lost, hashes, restarts, faults>>

\* Mutant: the exception of the write is caught and the handler goes on.
WriteRefused_Swallowed ==
  /\ pc = "prepared"
  /\ pc' = "written"
  /\ faults' = faults \union {"refused"}
  /\ UNCHANGED <<lines, terminated, entry, sequence, lastHash, index, acked,
                 lost, hashes, restarts>>

\* open() or write() raises and nothing is written: the request fails with
\* a 500, and the head keeps the entry that is not in the file.
WriteRefused ==
  /\ pc = "prepared"
  /\ pc' = "idle"
  /\ faults' = faults \union {"refused"}
  /\ UNCHANGED <<lines, terminated, entry, sequence, lastHash, index, acked,
                 lost, hashes, restarts>>

\* A part of the text reaches the file and the write raises (disk full).
\* A process killed while it writes is this step followed by Crash.
WritePart(kind) ==
  /\ pc = "prepared"
  /\ lines' = LinesWith(IF kind = "torn" THEN "part" ELSE "whole")
  /\ terminated' = FALSE
  /\ pc' = "idle"
  /\ faults' = faults \union {kind}
  /\ UNCHANGED <<entry, sequence, lastHash, index, acked, lost, hashes, restarts>>

\* Mutant: the newest entry leaves instead of the oldest.
Evicted_Newest ==
  IF Cardinality(index) >= MaxIndexSize
    THEN {e \in index : \E f \in index : f.seq > e.seq}
    ELSE index

\* At most one entry, the oldest, leaves the index for the new one.
Evicted ==
  IF Cardinality(index) >= MaxIndexSize
    THEN {e \in index : \E f \in index : f.seq < e.seq}
    ELSE index

IndexAndReply ==
  /\ pc = "written"
  /\ index' = Evicted \union {entry}
  /\ acked' = acked \union {entry}
  /\ pc' = "idle"
  /\ UNCHANGED <<lines, terminated, entry, sequence, lastHash, lost, hashes, restarts, faults>>

(***************************************************************************)
(* Crashes, and the replay of _init_ledger at the next start.              *)
(***************************************************************************)

LoseMemory ==
  /\ pc # "down"
  /\ restarts < MaxRestarts
  /\ restarts' = restarts + 1
  /\ pc' = "down"
  /\ sequence' = 0
  /\ lastHash' = Genesis
  /\ index' = {}
  /\ UNCHANGED <<entry, acked, hashes>>

Crash ==
  /\ LoseMemory
  /\ UNCHANGED <<lines, terminated, lost, faults>>

\* What the text of a line is when its end is cut off: an entry may lose its
\* newline only, and the entry in front of what joined it may come back.
Cut(text) == {"part", text} \union IF text = "joined" THEN {"whole"} ELSE {}

\* The handler never calls flush or fsync: a host crash can take the end of
\* the file away, from the beginning of a line or from the middle of it.
HostCrash ==
  /\ LoseMemory
  /\ \E kept \in 0 .. Len(lines) - 1 :
       \/ /\ lines' = SubSeq(lines, 1, kept)
          /\ terminated' = TRUE
          /\ faults' = faults \union {"lostByHost"}
       \/ /\ \E text \in Cut(lines[kept + 1].text) :
               lines' = [SubSeq(lines, 1, kept + 1) EXCEPT ![kept + 1].text = text]
          /\ terminated' = FALSE
          /\ faults' = faults \union {"tornByHost"}
  /\ lost' = acked \ OnDisk'

\* Mutant: the sequence number is restored but the last hash is not.
Restart_ForgetsHash ==
  /\ pc = "down"
  /\ pc' = "idle"
  /\ lastHash' = Genesis
  /\ \/ Readable = {} /\ sequence' = 0
     \/ \E i \in Readable :
          /\ \A j \in Readable : j <= i
          /\ sequence' = lines[i].entry.seq
  /\ index' = OnDisk
  /\ UNCHANGED <<lines, terminated, entry, acked, lost, hashes, restarts, faults>>

\* Mutant: the replay also drops a last line that does not parse.
Restart_TrimsTail ==
  /\ pc = "down"
  /\ pc' = "idle"
  /\ \/ Readable = {} /\ sequence' = 0 /\ lastHash' = Genesis
     \/ \E i \in Readable :
          /\ \A j \in Readable : j <= i
          /\ sequence' = lines[i].entry.seq
          /\ lastHash' = lines[i].entry.hash
  /\ index' = OnDisk
  /\ lines' = IF lines # <<>> /\ lines[Len(lines)].text # "whole"
                THEN SubSeq(lines, 1, Len(lines) - 1) ELSE lines
  /\ terminated' = TRUE
  /\ UNCHANGED <<entry, acked, lost, hashes, restarts, faults>>

\* Lines that do not parse are skipped; the head is the last one that does;
\* the index takes every entry, whatever MaxIndexSize is.
Restart ==
  /\ pc = "down"
  /\ pc' = "idle"
  /\ \/ /\ Readable = {}
        /\ sequence' = 0
        /\ lastHash' = Genesis
     \/ \E i \in Readable :
          /\ \A j \in Readable : j <= i
          /\ sequence' = lines[i].entry.seq
          /\ lastHash' = lines[i].entry.hash
  /\ index' = OnDisk
  /\ UNCHANGED <<lines, terminated, entry, acked, lost, hashes, restarts, faults>>

\* verify_chain, list_evidence, get_head, get_evidence, compliance_report:
\* they read the file, the index or the head and change none of them.
Query ==
  /\ pc = "idle"
  /\ UNCHANGED vars

Next ==
  \/ BeginAppend
  \/ WriteLine
  \/ WriteRefused
  \/ \E kind \in {"torn", "unterminated"} : WritePart(kind)
  \/ IndexAndReply
  \/ Crash
  \/ HostCrash
  \/ Restart
  \/ Query

Spec == Init /\ [][Next]_vars

-----------------------------------------------------------------------------
(***************************************************************************)
(* Properties.                                                             *)
(***************************************************************************)

\* Every variable keeps the shape the handlers rely on.
TypeOK ==
  /\ lines \in Seq(Line)
  /\ terminated \in BOOLEAN
  /\ ~terminated => lines # <<>>
  /\ pc \in {"down", "idle", "prepared", "written"}
  /\ entry \in Entry
  /\ sequence \in Nat
  /\ lastHash \in Nat
  /\ index \subseteq Entry
  /\ acked \subseteq Entry
  /\ lost \subseteq Entry
  /\ hashes \in Nat
  /\ restarts \in Nat
  /\ faults \subseteq FaultKinds

\* The sequence numbers of the entries that can be read back only grow down
\* the file, and the head is never behind them: whatever fails or crashes,
\* append_evidence puts no identifier in the file a second time.
SequenceIncreasing ==
  /\ \A i, j \in Readable : i < j => lines[i].entry.seq < lines[j].entry.seq
  /\ pc # "down" => \A i \in Readable : lines[i].entry.seq <= sequence

\* Whatever writes failed and whatever crashed, when verify_chain answers
\* valid every entry that was acknowledged with a 201 is in the file, but for
\* those that the host took when it last crashed: they leave a shorter chain,
\* which is valid.
NoSilentLoss == VerifyValid => acked \ lost \subseteq OnDisk

\* No crash of the process, at any point of the handler, breaks the chain by
\* itself, and no crash of the host that takes whole lines: as long as no
\* write failed or was cut off verify_chain answers valid, and the next entry
\* will link to the last line.
CrashKeepsChain ==
  faults \subseteq {"lostByHost"} =>
    /\ VerifyValid
    /\ pc = "idle" => lastHash = IF lines = <<>> THEN Genesis
                                 ELSE lines[Len(lines)].entry.hash

\* Between requests the index holds entries of the file, and the newest of
\* them: what GET /v1/evidence lists is never older than what it leaves out.
\* Behind a line that was cut off it may hold an entry that joined the line.
IndexIsNewest ==
  (pc = "idle" /\ faults \intersect {"torn", "unterminated", "tornByHost"} = {}) =>
    /\ index \subseteq OnDisk
    /\ \A e \in OnDisk \ index : \A f \in index : e.seq < f.seq

\* A chain that verify_chain rejected is rejected for ever: no later append,
\* crash or replay makes it pass again, short of the host losing the tail.
BrokenStaysBroken ==
  [][(~VerifyValid /\ ~HostCrash) => ~VerifyValid']_vars

\* What the store promises: an append-only log whose acknowledged entries
\* stay, until the medium itself damages the file.
Damage == {"torn", "unterminated"} \union HostFaults
Log == INSTANCE AppendOnlyLog WITH
         log <- [i \in DOMAIN lines |-> lines[i].entry],
         damaged <- faults \intersect Damage # {}
LogSpec == Log!Spec

=============================================================================
