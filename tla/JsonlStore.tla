----------------------------- MODULE JsonlStore ------------------------------
(***************************************************************************)
(* The evidence store of the reference images                              *)
(* (runtime/reference-images/images/evidence-store): a JSONL file that is  *)
(* synced before an append is acknowledged, and that is replayed, and      *)
(* refused if anything in it is wrong, at start-up.                        *)
(*                                                                         *)
(* A chain hash is the sequence of the payloads it covers: it is equal for *)
(* two records exactly when their payloads and those of all predecessors   *)
(* are (the id and the timestamp are not hashed).  The file is a sequence  *)
(* of pieces, one for each write.  A piece that is not whole lacks its     *)
(* newline at least, so that what is written behind it stands on the same  *)
(* line, and that line does not parse.                                     *)
(***************************************************************************)
EXTENDS Integers, Sequences, FiniteSets, SequencesExt

CONSTANTS
  Payloads,     \* what a client asks to record
  MaxAppends,   \* bound of the model: appends begun
  MaxBoots      \* bound of the model: successful starts of the process

ASSUME JsonlConstants ==
  /\ MaxAppends \in Nat
  /\ MaxBoots \in Nat

VARIABLES
  file,     \* the pieces of the file
  durable,  \* how many of them are known to be on disk
  pc,       \* closed, refused (the replay failed), idle, or inside Append
  rec,      \* the record of the Append that holds writeMu
  index,    \* id -> position of the piece, for the ids it knows
  head,     \* headHashHex
  boot,     \* startNanos: which successful start of the process this is
  seq,      \* seq
  appends,  \* how many appends were begun
  acked,    \* history: the records a client got a 200 for
  faults    \* history: the kinds of fault that happened

jsonlVars == <<file, durable, pc, rec, index, head, boot, seq, appends, acked, faults>>
memory == <<index, head, boot, seq>>

ZeroHash == <<>>
Id == [boot : Nat, n : Nat]
Record == [id : Id, prev : Seq(Payloads), hash : Seq(Payloads)]
Piece == [rec : Record, whole : BOOLEAN]
FaultKinds == {"torn", "refused", "fsync", "lostByHost", "tornByHost"}
NoRecord == [id |-> [boot |-> 0, n |-> 0], prev |-> ZeroHash, hash |-> ZeroHash]

\* The replay accepts the file: every line ends with a newline and parses,
\* and links to the line before it.  (A record always hashes to its own
\* hash: nothing else writes the file.)
Replayable ==
  \A i \in DOMAIN file :
    /\ file[i].whole
    /\ file[i].rec.prev = IF i = 1 THEN ZeroHash ELSE file[i - 1].rec.hash

Init ==
  /\ file = <<>>
  /\ durable = 0
  /\ pc = "closed"
  /\ rec = NoRecord
  /\ index = <<>>
  /\ head = ZeroHash
  /\ boot = 0
  /\ seq = 0
  /\ appends = 0
  /\ acked = {}
  /\ faults = {}

(***************************************************************************)
(* OpenJSONL and replay.                                                   *)
(***************************************************************************)

LastHash == IF file = <<>> THEN ZeroHash ELSE Last(file).rec.hash
Ids(positions) == {file[i].rec.id : i \in positions}
Position(id) == CHOOSE i \in DOMAIN file : file[i].rec.id = id /\ file[i].whole

\* Mutant: lines that do not parse or link are skipped.
Open_SkipsBroken ==
  LET good == {i \in DOMAIN file : file[i].whole /\ (i = 1 \/ file[i - 1].whole)} IN
  /\ pc \in {"closed", "refused"}
  /\ pc' = "idle"
  /\ boot' = boot + 1
  /\ seq' = 0
  /\ index' = [id \in Ids(good) |-> Position(id)]
  /\ head' = LastHash
  /\ UNCHANGED <<file, durable, rec, appends, acked, faults>>

Open ==
  /\ pc \in {"closed", "refused"}
  /\ \/ /\ Replayable
        /\ pc' = "idle"
        /\ boot' = boot + 1
        /\ seq' = 0
        /\ index' = [id \in Ids(DOMAIN file) |-> Position(id)]
        /\ head' = LastHash
     \/ /\ ~Replayable
        /\ pc' = "refused"
        /\ UNCHANGED memory
  /\ UNCHANGED <<file, durable, rec, appends, acked, faults>>

(***************************************************************************)
(* Append, under writeMu.  A client that went away before it, and the      *)
(* errors of serializing, change nothing.                                  *)
(***************************************************************************)

\* Mutant: the id is numbered by the records stored, not by the counter.
BeginAppend_NumbersStored ==
  /\ pc = "idle"
  /\ appends < MaxAppends
  /\ appends' = appends + 1
  /\ UNCHANGED seq
  /\ \E p \in Payloads :
       rec' = [id |-> [boot |-> boot, n |-> Cardinality(DOMAIN index) + 1],
               prev |-> head, hash |-> Append(head, p)]
  /\ pc' = "prepared"
  /\ UNCHANGED <<file, durable, index, head, boot, acked, faults>>

BeginAppend ==
  /\ pc = "idle"
  /\ appends < MaxAppends
  /\ appends' = appends + 1
  /\ seq' = seq + 1
  /\ \E p \in Payloads :
       rec' = [id |-> [boot |-> boot, n |-> seq'], prev |-> head, hash |-> Append(head, p)]
  /\ pc' = "prepared"
  /\ UNCHANGED <<file, durable, index, head, boot, acked, faults>>

WithPiece(whole) == Append(file, [rec |-> rec, whole |-> whole])

WriteRecord ==
  /\ pc = "prepared"
  /\ file' = WithPiece(TRUE)
  /\ pc' = "written"
  /\ UNCHANGED <<durable, rec, memory, appends, acked, faults>>

\* The write fails, with nothing or with a part of the line in the file.
\* The handler answers 500 and leaves that part where it is.
WriteFails(torn) ==
  /\ pc = "prepared"
  /\ file' = IF torn THEN WithPiece(FALSE) ELSE file
  /\ faults' = faults \union {IF torn THEN "torn" ELSE "refused"}
  /\ pc' = "idle"
  /\ UNCHANGED <<durable, rec, memory, appends, acked>>

\* Mutant: the answer does not wait for the disk.
SyncRecord_Skipped ==
  /\ pc = "written"
  /\ pc' = "synced"
  /\ UNCHANGED <<file, durable, rec, memory, appends, acked, faults>>

SyncRecord ==
  /\ pc = "written"
  /\ durable' = Len(file)
  /\ pc' = "synced"
  /\ UNCHANGED <<file, rec, memory, appends, acked, faults>>

\* Mutant: a line that could not be synced is cut off again.
SyncFails_CutsOff ==
  /\ pc = "written"
  /\ file' = SubSeq(file, 1, Len(file) - 1)
  /\ faults' = faults \union {"fsync"}
  /\ pc' = "idle"
  /\ UNCHANGED <<durable, rec, memory, appends, acked>>

\* The line stays in the file, the head stays before it.
SyncFails ==
  /\ pc = "written"
  /\ faults' = faults \union {"fsync"}
  /\ pc' = "idle"
  /\ UNCHANGED <<file, durable, rec, memory, appends, acked>>

\* Mutant: the offset is taken after the write.
CommitRecord_OffsetAfter ==
  /\ pc = "synced"
  /\ index' = [id \in DOMAIN index \union {rec.id} |->
                IF id = rec.id THEN Len(file) + 1 ELSE index[id]]
  /\ head' = rec.hash
  /\ acked' = acked \union {rec}
  /\ pc' = "idle"
  /\ UNCHANGED <<file, durable, rec, boot, seq, appends, faults>>

\* Mutant: the head does not advance.
CommitRecord_KeepsHead ==
  /\ pc = "synced"
  /\ index' = [id \in DOMAIN index \union {rec.id} |->
                IF id = rec.id THEN Len(file) ELSE index[id]]
  /\ acked' = acked \union {rec}
  /\ pc' = "idle"
  /\ UNCHANGED <<file, durable, rec, head, boot, seq, appends, faults>>

\* The index, the head and the count move, and the 200 is sent.
CommitRecord ==
  /\ pc = "synced"
  /\ index' = [id \in DOMAIN index \union {rec.id} |->
                IF id = rec.id THEN Len(file) ELSE index[id]]
  /\ head' = rec.hash
  /\ acked' = acked \union {rec}
  /\ pc' = "idle"
  /\ UNCHANGED <<file, durable, rec, boot, seq, appends, faults>>

(***************************************************************************)
(* Crashes.                                                                *)
(***************************************************************************)

LoseMemory ==
  /\ pc \notin {"closed", "refused"}
  /\ boot < MaxBoots
  /\ pc' = "closed"
  /\ index' = <<>>
  /\ head' = ZeroHash
  /\ UNCHANGED <<rec, boot, seq, appends, acked>>

\* The process ends: killed, or stopped by Close, which syncs first.
Crash == LoseMemory /\ UNCHANGED <<file, durable, faults>>
Close == LoseMemory /\ pc = "idle" /\ durable' = Len(file) /\ UNCHANGED <<file, faults>>

\* The host goes down: what was not synced may be lost, from some piece on,
\* and a part of that piece may be left.
HostCrash(torn) ==
  /\ LoseMemory
  /\ \E kept \in durable .. Len(file) - 1 :
       file' = IF torn
                 THEN Append(SubSeq(file, 1, kept), [file[kept + 1] EXCEPT !.whole = FALSE])
                 ELSE SubSeq(file, 1, kept)
  /\ durable' = Len(file')
  /\ faults' = faults \union {IF torn THEN "tornByHost" ELSE "lostByHost"}

\* GetByID, Tail, HeadHash and Count, also while an append is running.
Query ==
  /\ pc \notin {"closed", "refused"}
  /\ UNCHANGED jsonlVars

Next ==
  \/ Open
  \/ BeginAppend
  \/ WriteRecord
  \/ \E torn \in BOOLEAN : WriteFails(torn)
  \/ SyncRecord
  \/ SyncFails
  \/ CommitRecord
  \/ Crash
  \/ Close
  \/ \E torn \in BOOLEAN : HostCrash(torn)
  \/ Query

Spec == Init /\ [][Next]_jsonlVars

-----------------------------------------------------------------------------
(***************************************************************************)
(* Properties.                                                             *)
(***************************************************************************)

\* Every variable keeps its shape.
TypeOK ==
  /\ file \in Seq(Piece)
  /\ durable \in 0 .. Len(file)
  /\ pc \in {"closed", "refused", "idle", "prepared", "written", "synced"}
  /\ rec \in Record
  /\ DOMAIN index \subseteq Id
  /\ \A id \in DOMAIN index : index[id] \in Nat
  /\ head \in Seq(Payloads)
  /\ boot \in Nat /\ seq \in Nat /\ appends \in Nat
  /\ acked \subseteq Record
  /\ faults \subseteq FaultKinds

\* A record that was acknowledged is in the file and on disk for ever,
\* whatever write or sync fails and whichever way the process or the host
\* goes down.
AckedDurable ==
  \A a \in acked : \E i \in 1 .. durable : file[i].whole /\ file[i].rec = a

\* The store never starts on a file that lost or hides an acknowledged
\* record: when the replay succeeds every one of them can be looked up.
OpensComplete ==
  [][(pc # "idle" /\ pc' = "idle" /\ boot' # boot) =>
       \A a \in acked : a.id \in DOMAIN index']_jsonlVars

\* An id that GetByID finds leads to the whole record with that id, also
\* behind a torn line, and while other appends write.
LookupFindsRecord ==
  \A id \in DOMAIN index :
    /\ index[id] \in DOMAIN file
    /\ file[index[id]].whole /\ file[index[id]].rec.id = id

\* No two lines carry the same id, although the counter restarts at every
\* boot and numbers are used up by failed appends.
IdsUnique ==
  \A i, j \in DOMAIN file : file[i].rec.id = file[j].rec.id => i = j

\* If no line was torn and no sync failed, the replay succeeds
\* after a crash at any point, the host's included, and a store that runs
\* continues the chain.
CrashesRecoverable ==
  faults \subseteq {"lostByHost", "refused"} => Replayable /\ (pc = "idle" => head = LastHash)

\* The store implements the append-only log, its entries being the whole
\* records of the file in the order of their ids.  Writes that fail halfway
\* do not damage it, only the host going down does.
Entry(r) == [seq |-> r.id.boot * (MaxAppends + 1) + r.id.n, record |-> r]
Whole(pieces) == {i \in DOMAIN pieces : pieces[i].whole}
KthWhole(pieces, k) == {i \in Whole(pieces) : Cardinality({j \in Whole(pieces) : j <= i}) = k}
TheOnly(S) == CHOOSE x \in S : TRUE
Entries(pieces) ==
  [k \in 1 .. Cardinality(Whole(pieces)) |-> Entry(pieces[TheOnly(KthWhole(pieces, k))].rec)]
Log == INSTANCE AppendOnlyLog WITH
         log <- Entries(file),
         acked <- {Entry(a) : a \in acked},
         damaged <- faults \intersect {"lostByHost", "tornByHost"} # {}
LogSpec == Log!Spec

=============================================================================
