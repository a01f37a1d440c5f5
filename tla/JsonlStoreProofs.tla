-------------------------- MODULE JsonlStoreProofs --------------------------
(***************************************************************************)
(* What holds of the JSONL store of the reference images for every number  *)
(* of appends, failing writes and syncs, crashes and restarts, and for     *)
(* files of every length.                                                  *)
(***************************************************************************)
EXTENDS JsonlStore, FiniteSetTheorems, TLAPS

\* The pieces of the file are numbered from 1, and each holds a record.
LEMMA FilePieces ==
  ASSUME TypeOK
  PROVE  /\ Len(file) \in Nat
         /\ DOMAIN file = 1 .. Len(file)
         /\ \A i \in DOMAIN file : /\ file[i] \in Piece
                                   /\ file[i].rec \in Record
                                   /\ file[i].rec.id \in Id
                                   /\ file[i].rec.hash \in Seq(Payloads)
                                   /\ file[i].whole \in BOOLEAN
  <1>1. Len(file) \in Nat /\ DOMAIN file = 1 .. Len(file)
    BY DEF TypeOK
  <1>2. \A i \in DOMAIN file : file[i] \in Piece
    BY DEF TypeOK
  <1>3. \A p \in Piece : p.rec \in Record /\ p.whole \in BOOLEAN
    BY DEF Piece
  <1>4. \A r \in Record : r.id \in Id /\ r.hash \in Seq(Payloads)
    BY DEF Record
  <1> QED
    BY <1>1, <1>2, <1>3, <1>4

\* A write adds one piece with the record of the append, and leaves the
\* others alone.
LEMMA WriteAddsPiece ==
  ASSUME TypeOK, NEW whole \in BOOLEAN, file' = WithPiece(whole)
  PROVE  /\ file' \in Seq(Piece)
         /\ Len(file') = Len(file) + 1
         /\ DOMAIN file' = 1 .. Len(file) + 1
         /\ \A i \in DOMAIN file : file'[i] = file[i]
         /\ file'[Len(file) + 1] = [rec |-> rec, whole |-> whole]
         /\ file'[Len(file) + 1].rec = rec
         /\ file'[Len(file) + 1].whole = whole
  <1> DEFINE piece == [rec |-> rec, whole |-> whole]
  <1>1. piece \in Piece
    BY DEF TypeOK, Piece
  <1>2. file' = Append(file, piece)
    BY DEF WithPiece
  <1> HIDE DEF piece
  <1>3. file \in Seq(Piece) /\ Len(file) \in Nat /\ DOMAIN file = 1 .. Len(file)
    BY DEF TypeOK
  <1>4. /\ file' \in Seq(Piece)
        /\ Len(file') = Len(file) + 1
        /\ DOMAIN file' = 1 .. Len(file) + 1
        /\ \A i \in DOMAIN file : file'[i] = file[i]
        /\ file'[Len(file) + 1] = piece
    BY <1>1, <1>2, <1>3
  <1>5. piece.rec = rec /\ piece.whole = whole
    BY DEF piece
  <1>6. file'[Len(file) + 1].rec = rec /\ file'[Len(file) + 1].whole = whole
    BY <1>4, <1>5
  <1> QED
    BY <1>4, <1>6 DEF piece

\* When the host goes down, what was synced stays, and at most one piece
\* behind the pieces that stay has lost its end.
LEMMA HostCrashKeepsSynced ==
  ASSUME TypeOK, NEW torn \in BOOLEAN, HostCrash(torn)
  PROVE  \E kept \in durable .. Len(file) - 1 :
           /\ file' \in Seq(Piece)
           /\ Len(file') = IF torn THEN kept + 1 ELSE kept
           /\ DOMAIN file' = 1 .. Len(file')
           /\ \A i \in 1 .. kept : file'[i] = file[i]
           /\ torn => /\ file'[kept + 1].rec = file[kept + 1].rec
                      /\ ~file'[kept + 1].whole
  <1>1. PICK kept \in durable .. Len(file) - 1 :
          file' = IF torn
                    THEN Append(SubSeq(file, 1, kept), [file[kept + 1] EXCEPT !.whole = FALSE])
                    ELSE SubSeq(file, 1, kept)
    BY DEF HostCrash
  <1>2. /\ file \in Seq(Piece) /\ Len(file) \in Nat /\ durable \in Nat
        /\ kept \in Nat /\ kept + 1 \in 1 .. Len(file)
    BY DEF TypeOK
  <1> DEFINE stay == SubSeq(file, 1, kept)
             cut == [file[kept + 1] EXCEPT !.whole = FALSE]
  <1>3. /\ stay \in Seq(Piece) /\ Len(stay) = kept
        /\ DOMAIN stay = 1 .. kept
        /\ \A i \in 1 .. kept : stay[i] = file[i]
    BY <1>2
  <1>4. cut \in Piece /\ cut.rec = file[kept + 1].rec /\ ~cut.whole
    <2>1. file[kept + 1] \in Piece
      BY <1>2
    <2> QED
      BY <2>1 DEF Piece
  <1>5. file' = IF torn THEN Append(stay, cut) ELSE stay
    BY <1>1
  <1> HIDE DEF stay, cut
  <1>6. CASE torn
    <2>1. /\ file' \in Seq(Piece) /\ Len(file') = kept + 1
          /\ DOMAIN file' = 1 .. kept + 1
          /\ \A i \in 1 .. kept : file'[i] = stay[i]
          /\ file'[kept + 1] = cut
      BY <1>2, <1>3, <1>4, <1>5, <1>6
    <2> QED
      BY <2>1, <1>3, <1>4, <1>6
  <1>7. CASE ~torn
    BY <1>2, <1>3, <1>5, <1>7
  <1> QED
    BY <1>6, <1>7

\* The start looks up every id of the file, at a position that holds it.
LEMMA OpenIndexesFile ==
  ASSUME TypeOK, Open, pc' = "idle"
  PROVE  /\ Replayable
         /\ DOMAIN index' = Ids(DOMAIN file)
         /\ \A id \in DOMAIN index' : /\ index'[id] \in DOMAIN file
                                      /\ file[index'[id]].rec.id = id
                                      /\ file[index'[id]].whole
  <1>1. Replayable /\ index' = [id \in Ids(DOMAIN file) |-> Position(id)]
    BY DEF Open
  <1>2. ASSUME NEW id \in Ids(DOMAIN file)
        PROVE  LET i == Position(id)
               IN i \in DOMAIN file /\ file[i].rec.id = id /\ file[i].whole
    <2>1. \E i \in DOMAIN file : file[i].rec.id = id /\ file[i].whole
      BY <1>1 DEF Replayable, Ids
    <2> QED
      BY <2>1 DEF Position
  <1> QED
    BY <1>1, <1>2

\* The type invariant, for every step of the store.
LEMMA TypeStep == TypeOK /\ [Next]_jsonlVars => TypeOK'
  <1> SUFFICES ASSUME TypeOK, [Next]_jsonlVars
               PROVE  TypeOK'
    OBVIOUS
  <1> USE JsonlConstants
  <1>1. CASE Open
    <2>1. CASE pc' = "idle"
      <3>1. DOMAIN index' \subseteq Id /\ \A id \in DOMAIN index' : index'[id] \in Nat
        BY <1>1, <2>1, OpenIndexesFile, FilePieces DEF Ids
      <3>2. head' \in Seq(Payloads)
        <4>1. CASE file = <<>>
          BY <1>1, <2>1, <4>1 DEF Open, LastHash, ZeroHash
        <4>2. CASE file # <<>>
          <5>1. Len(file) \in DOMAIN file
            BY <4>2 DEF TypeOK
          <5> QED
            BY <1>1, <2>1, <4>2, <5>1, FilePieces DEF Open, LastHash, Last
        <4> QED
          BY <4>1, <4>2
      <3>3. boot' \in Nat /\ seq' \in Nat
        BY <1>1, <2>1 DEF Open, TypeOK
      <3> QED
        BY <1>1, <2>1, <3>1, <3>2, <3>3 DEF Open, TypeOK
    <2>2. CASE pc' = "refused"
      BY <1>1, <2>2 DEF Open, TypeOK, memory
    <2> QED
      BY <1>1, <2>1, <2>2 DEF Open
  <1>2. CASE BeginAppend
    <2>1. rec' \in Record
      <3>1. PICK p \in Payloads :
              rec' = [id |-> [boot |-> boot, n |-> seq'], prev |-> head, hash |-> Append(head, p)]
        BY <1>2 DEF BeginAppend
      <3>2. [boot |-> boot, n |-> seq'] \in Id
        BY <1>2 DEF BeginAppend, TypeOK, Id
      <3>3. Append(head, p) \in Seq(Payloads) /\ head \in Seq(Payloads)
        BY DEF TypeOK
      <3> QED
        BY <3>1, <3>2, <3>3 DEF Record
    <2> QED
      BY <1>2, <2>1 DEF BeginAppend, TypeOK
  <1>3. CASE WriteRecord
    <2>1. file' \in Seq(Piece) /\ Len(file') = Len(file) + 1
      BY <1>3, WriteAddsPiece DEF WriteRecord
    <2>2. durable' \in 0 .. Len(file')
      <3>1. Len(file) \in Nat /\ durable \in 0 .. Len(file) /\ durable' = durable
        BY <1>3, FilePieces DEF WriteRecord, TypeOK
      <3> QED
        BY <2>1, <3>1
    <2>3. UNCHANGED <<rec, index, head, boot, seq, appends, acked, faults>> /\ pc' = "written"
      BY <1>3 DEF WriteRecord, memory
    <2> QED
      BY <2>1, <2>2, <2>3 DEF TypeOK
  <1>4. ASSUME NEW torn \in BOOLEAN, WriteFails(torn)
        PROVE  TypeOK'
    <2>1. file' \in Seq(Piece) /\ Len(file') \in {Len(file), Len(file) + 1}
      BY <1>4, WriteAddsPiece DEF WriteFails, TypeOK
    <2>2. faults' \subseteq FaultKinds
      BY <1>4 DEF WriteFails, TypeOK, FaultKinds
    <2>3. durable' \in 0 .. Len(file')
      <3>1. Len(file) \in Nat /\ durable \in 0 .. Len(file) /\ durable' = durable
        BY <1>4, FilePieces DEF WriteFails, TypeOK
      <3> QED
        BY <2>1, <3>1
    <2>4. UNCHANGED <<rec, index, head, boot, seq, appends, acked>> /\ pc' = "idle"
      BY <1>4 DEF WriteFails, memory
    <2> QED
      BY <2>1, <2>2, <2>3, <2>4 DEF TypeOK
  <1>5. CASE SyncRecord
    BY <1>5 DEF SyncRecord, TypeOK, memory
  <1>6. CASE SyncFails
    BY <1>6 DEF SyncFails, TypeOK, memory, FaultKinds
  <1>7. CASE CommitRecord
    <2>1. rec.id \in Id /\ rec.hash \in Seq(Payloads)
      BY DEF TypeOK, Record
    <2> QED
      BY <1>7, <2>1 DEF CommitRecord, TypeOK
  <1>8. CASE Crash
    BY <1>8 DEF Crash, LoseMemory, TypeOK, ZeroHash
  <1>9. CASE Close
    BY <1>9 DEF Close, LoseMemory, TypeOK, ZeroHash
  <1>10. ASSUME NEW torn \in BOOLEAN, HostCrash(torn)
         PROVE  TypeOK'
    <2>1. file' \in Seq(Piece) /\ Len(file') \in Nat
      BY <1>10, HostCrashKeepsSynced
    <2>2. faults' \subseteq FaultKinds
      BY <1>10 DEF HostCrash, TypeOK, FaultKinds
    <2> QED
      BY <1>10, <2>1, <2>2 DEF HostCrash, LoseMemory, TypeOK, ZeroHash
  <1>11. CASE Query \/ UNCHANGED jsonlVars
    BY <1>11 DEF Query, jsonlVars, TypeOK
  <1> QED
    BY <1>1, <1>2, <1>3, <1>4, <1>5, <1>6, <1>7, <1>8, <1>9, <1>10, <1>11 DEF Next

\* Every reachable state is well typed.
THEOREM TypeCorrect == Spec => []TypeOK
  <1>1. Init => TypeOK
    BY DEF Init, TypeOK, Record, Id, NoRecord, ZeroHash
  <1>2. TypeOK /\ [Next]_jsonlVars => TypeOK'
    BY TypeStep
  <1> QED
    BY <1>1, <1>2, PTL DEF Spec
-----------------------------------------------------------------------------
(***************************************************************************)
(* Acknowledged records.  An acknowledgement is sent after the sync, for   *)
(* the record of the append: it is durable because the write put that      *)
(* record last, nothing was written since, and the sync covered the whole  *)
(* file.                                                                   *)
(***************************************************************************)

WrittenIsLast ==
  pc \in {"written", "synced"} =>
    /\ file # <<>>
    /\ Last(file) = [rec |-> rec, whole |-> TRUE]

SyncCoversFile == pc = "synced" => durable = Len(file)

DurableInv ==
  /\ TypeOK
  /\ WrittenIsLast
  /\ SyncCoversFile
  /\ AckedDurable
  /\ LookupFindsRecord

\* As long as the pieces that matter stay where they are, acknowledged
\* records stay durable and the index stays right.
LEMMA KeptPieces ==
  ASSUME TypeOK, DOMAIN file \subseteq DOMAIN file',
         \A i \in DOMAIN file : file'[i] = file[i]
  PROVE  /\ AckedDurable /\ UNCHANGED <<acked, durable>> => AckedDurable'
         /\ LookupFindsRecord /\ UNCHANGED index => LookupFindsRecord'
  <1>1. 1 .. durable \subseteq DOMAIN file
    BY FilePieces DEF TypeOK
  <1>2. AckedDurable /\ UNCHANGED <<acked, durable>> => AckedDurable'
    BY <1>1 DEF AckedDurable
  <1>3. LookupFindsRecord /\ UNCHANGED index => LookupFindsRecord'
    BY DEF LookupFindsRecord
  <1> QED
    BY <1>2, <1>3

\* After the record of an append was written it is the last piece.
LEMMA LastPiece ==
  ASSUME DurableInv, pc \in {"written", "synced"}
  PROVE  /\ Len(file) \in DOMAIN file
         /\ file[Len(file)].rec = rec
         /\ file[Len(file)].whole
  <1>1. file # <<>> /\ file[Len(file)] = [rec |-> rec, whole |-> TRUE]
    BY DEF DurableInv, WrittenIsLast, Last
  <1>2. Len(file) \in DOMAIN file
    BY <1>1 DEF DurableInv, TypeOK
  <1> QED
    BY <1>1, <1>2

LEMMA DurableStep == DurableInv /\ [Next]_jsonlVars => DurableInv'
  <1> SUFFICES ASSUME DurableInv, [Next]_jsonlVars
               PROVE  DurableInv'
    OBVIOUS
  <1>t. TypeOK /\ TypeOK'
    BY TypeStep DEF DurableInv
  <1>p. Len(file) \in Nat /\ DOMAIN file = 1 .. Len(file)
    BY <1>t, FilePieces
  <1>q. UNCHANGED file /\ UNCHANGED <<acked, durable>> => AckedDurable'
    BY <1>t, KeptPieces DEF DurableInv
  <1>r. UNCHANGED file /\ UNCHANGED index => LookupFindsRecord'
    BY <1>t, KeptPieces DEF DurableInv
  <1>1. CASE Open
    <2>1. pc' \in {"idle", "refused"} /\ UNCHANGED <<file, durable, acked>>
      BY <1>1 DEF Open
    <2>2. LookupFindsRecord'
      <3>1. CASE pc' = "idle"
        BY <1>1, <1>t, <2>1, <3>1, OpenIndexesFile DEF LookupFindsRecord
      <3>2. CASE pc' = "refused"
        <4>1. UNCHANGED index
          BY <1>1, <3>2 DEF Open, memory
        <4> QED
          BY <1>r, <2>1, <4>1
      <3> QED
        BY <2>1, <3>1, <3>2
    <2> QED
      BY <1>t, <1>q, <2>1, <2>2 DEF DurableInv, WrittenIsLast, SyncCoversFile
  <1>2. CASE BeginAppend
    <2>1. pc' = "prepared" /\ UNCHANGED <<file, durable, index, acked>>
      BY <1>2 DEF BeginAppend
    <2> QED
      BY <1>t, <1>q, <1>r, <2>1 DEF DurableInv, WrittenIsLast, SyncCoversFile
  <1>3. CASE WriteRecord
    <2>1. /\ file' = WithPiece(TRUE) /\ pc' = "written"
          /\ UNCHANGED <<durable, rec, index, acked>>
      BY <1>3 DEF WriteRecord, memory
    <2>2. /\ Len(file') = Len(file) + 1
          /\ DOMAIN file' = 1 .. Len(file) + 1
          /\ \A i \in DOMAIN file : file'[i] = file[i]
          /\ file'[Len(file) + 1] = [rec |-> rec, whole |-> TRUE]
      BY <1>t, <2>1, WriteAddsPiece
    <2>3. WrittenIsLast'
      <3>1. file' # <<>>
        BY <1>p, <2>2
      <3> QED
        BY <2>1, <2>2, <3>1 DEF WrittenIsLast, Last
    <2>4. DOMAIN file \subseteq DOMAIN file'
      BY <1>p, <2>2
    <2>5. AckedDurable' /\ LookupFindsRecord'
      BY <1>t, <2>1, <2>2, <2>4, KeptPieces DEF DurableInv
    <2> QED
      BY <1>t, <2>1, <2>3, <2>5 DEF DurableInv, SyncCoversFile
  <1>4. ASSUME NEW torn \in BOOLEAN, WriteFails(torn)
        PROVE  DurableInv'
    <2>1. /\ file' = IF torn THEN WithPiece(FALSE) ELSE file
          /\ pc' = "idle"
          /\ UNCHANGED <<durable, index, acked>>
      BY <1>4 DEF WriteFails, memory
    <2>2. DOMAIN file \subseteq DOMAIN file' /\ \A i \in DOMAIN file : file'[i] = file[i]
      <3>1. CASE torn
        <4>1. file' = WithPiece(FALSE)
          BY <2>1, <3>1
        <4>2. DOMAIN file' = 1 .. Len(file) + 1 /\ \A i \in DOMAIN file : file'[i] = file[i]
          BY <1>t, <4>1, WriteAddsPiece
        <4> QED
          BY <1>p, <4>2
      <3>2. CASE ~torn
        BY <2>1, <3>2
      <3> QED
        BY <3>1, <3>2
    <2>3. AckedDurable' /\ LookupFindsRecord'
      BY <1>t, <2>1, <2>2, KeptPieces DEF DurableInv
    <2> QED
      BY <1>t, <2>1, <2>3 DEF DurableInv, WrittenIsLast, SyncCoversFile
  <1>5. CASE SyncRecord
    <2>1. /\ pc = "written" /\ pc' = "synced" /\ durable' = Len(file)
          /\ UNCHANGED <<file, rec, index, acked>>
      BY <1>5 DEF SyncRecord, memory
    <2>2. 1 .. durable \subseteq 1 .. durable'
      BY <1>t, <1>p, <2>1 DEF TypeOK
    <2>3. AckedDurable'
      BY <2>1, <2>2 DEF DurableInv, AckedDurable
    <2> QED
      BY <1>t, <1>r, <2>1, <2>3 DEF DurableInv, WrittenIsLast, SyncCoversFile
  <1>6. CASE SyncFails
    <2>1. pc' = "idle" /\ UNCHANGED <<file, durable, index, acked>>
      BY <1>6 DEF SyncFails, memory
    <2> QED
      BY <1>t, <1>q, <1>r, <2>1 DEF DurableInv, WrittenIsLast, SyncCoversFile
  <1>7. CASE CommitRecord
    <2>1. /\ pc = "synced" /\ pc' = "idle"
          /\ index' = [id \in DOMAIN index \union {rec.id} |->
                         IF id = rec.id THEN Len(file) ELSE index[id]]
          /\ acked' = acked \union {rec}
          /\ UNCHANGED <<file, durable>>
      BY <1>7 DEF CommitRecord
    <2>2. /\ Len(file) \in DOMAIN file
          /\ file[Len(file)].rec = rec
          /\ file[Len(file)].whole
      BY <2>1, LastPiece
    <2>3. Len(file) \in 1 .. durable
      BY <1>p, <2>1, <2>2 DEF DurableInv, SyncCoversFile
    <2>4. AckedDurable'
      BY <2>1, <2>2, <2>3 DEF DurableInv, AckedDurable
    <2>5. LookupFindsRecord'
      BY <2>1, <2>2 DEF DurableInv, LookupFindsRecord
    <2> QED
      BY <1>t, <2>1, <2>4, <2>5 DEF DurableInv, WrittenIsLast, SyncCoversFile
  <1>8. CASE Crash \/ Close
    <2>1. /\ pc' = "closed" /\ DOMAIN index' = {}
          /\ durable' \in {durable, Len(file)}
          /\ UNCHANGED <<file, acked>>
      BY <1>8 DEF Crash, Close, LoseMemory
    <2>2. 1 .. durable \subseteq 1 .. durable'
      BY <1>t, <1>p, <2>1 DEF TypeOK
    <2>3. AckedDurable' /\ LookupFindsRecord'
      BY <2>1, <2>2 DEF DurableInv, AckedDurable, LookupFindsRecord
    <2> QED
      BY <1>t, <2>1, <2>3 DEF DurableInv, WrittenIsLast, SyncCoversFile
  <1>9. ASSUME NEW torn \in BOOLEAN, HostCrash(torn)
        PROVE  DurableInv'
    <2>1. /\ pc' = "closed" /\ DOMAIN index' = {}
          /\ durable' = Len(file') /\ UNCHANGED acked
      BY <1>9 DEF HostCrash, LoseMemory
    <2>2. PICK kept \in durable .. Len(file) - 1 :
            /\ Len(file') = IF torn THEN kept + 1 ELSE kept
            /\ \A i \in 1 .. kept : file'[i] = file[i]
      BY <1>t, <1>9, HostCrashKeepsSynced
    <2>3. 1 .. durable \subseteq 1 .. kept /\ 1 .. durable \subseteq 1 .. durable'
      BY <1>t, <1>p, <2>1, <2>2 DEF TypeOK
    <2>4. AckedDurable'
      BY <2>1, <2>2, <2>3 DEF DurableInv, AckedDurable
    <2>5. LookupFindsRecord'
      BY <2>1 DEF LookupFindsRecord
    <2> QED
      BY <1>t, <2>1, <2>4, <2>5 DEF DurableInv, WrittenIsLast, SyncCoversFile
  <1>10. CASE Query \/ UNCHANGED jsonlVars
    BY <1>t, <1>q, <1>r, <1>10
    DEF Query, jsonlVars, DurableInv, WrittenIsLast, SyncCoversFile
  <1> QED
    BY <1>1, <1>2, <1>3, <1>4, <1>5, <1>6, <1>7, <1>8, <1>9, <1>10 DEF Next

LEMMA DurableAlways == Spec => []DurableInv
  <1>1. Init => DurableInv
    <2>1. Init => TypeOK
      BY DEF Init, TypeOK, Record, Id, NoRecord, ZeroHash
    <2> QED
      BY <2>1 DEF Init, DurableInv, WrittenIsLast, SyncCoversFile, AckedDurable, LookupFindsRecord
  <1> QED
    BY <1>1, DurableStep, PTL DEF Spec

\* A record that was acknowledged is in the file and on disk for ever.
THEOREM AcknowledgedStaysDurable == Spec => []AckedDurable
  <1>1. DurableInv => AckedDurable
    BY DEF DurableInv
  <1> QED
    BY <1>1, DurableAlways, PTL

\* GetByID never reads another record, a torn line, or behind the file.
THEOREM LookupsFindTheirRecord == Spec => []LookupFindsRecord
  <1>1. DurableInv => LookupFindsRecord
    BY DEF DurableInv
  <1> QED
    BY <1>1, DurableAlways, PTL

\* Only a successful replay starts the store.
LEMMA OnlyOpenBoots ==
  ASSUME [Next]_jsonlVars, boot' # boot
  PROVE  Open
  <1>1. UNCHANGED jsonlVars => UNCHANGED boot
    BY DEF jsonlVars
  <1>2. BeginAppend \/ CommitRecord => UNCHANGED boot
    BY DEF BeginAppend, CommitRecord
  <1>3. WriteRecord \/ SyncRecord \/ SyncFails => UNCHANGED boot
    BY DEF WriteRecord, SyncRecord, SyncFails, memory
  <1>4. \A torn \in BOOLEAN : WriteFails(torn) => UNCHANGED boot
    BY DEF WriteFails, memory
  <1>5. Crash \/ Close => UNCHANGED boot
    BY DEF Crash, Close, LoseMemory
  <1>6. \A torn \in BOOLEAN : HostCrash(torn) => UNCHANGED boot
    BY DEF HostCrash, LoseMemory
  <1> QED
    BY <1>1, <1>2, <1>3, <1>4, <1>5, <1>6 DEF Next, Query

\* A store that starts finds every record it ever acknowledged.
THEOREM StartsAreComplete == Spec => OpensComplete
  <1>1. DurableInv /\ [Next]_jsonlVars =>
          [(pc # "idle" /\ pc' = "idle" /\ boot' # boot) =>
             \A a \in acked : a.id \in DOMAIN index']_jsonlVars
    <2> SUFFICES ASSUME DurableInv, [Next]_jsonlVars, pc' = "idle", boot' # boot,
                        NEW a \in acked
                 PROVE  a.id \in DOMAIN index'
      OBVIOUS
    <2>1. DOMAIN index' = Ids(DOMAIN file)
      BY OnlyOpenBoots, OpenIndexesFile DEF DurableInv
    <2>2. PICK i \in 1 .. durable : file[i].rec = a
      BY DEF DurableInv, AckedDurable
    <2>3. i \in DOMAIN file
      BY FilePieces DEF DurableInv, TypeOK
    <2> QED
      BY <2>1, <2>2, <2>3 DEF Ids
  <1> QED
    BY <1>1, DurableAlways, PTL DEF Spec, OpensComplete
-----------------------------------------------------------------------------
(***************************************************************************)
(* Ids.  IdsUnique alone is not inductive: the write needs to know that    *)
(* the id it writes is newer than every id in the file, and that holds     *)
(* because ids grow along the file, start number first, and none is ahead  *)
(* of the counter, not even behind the start that resets it.               *)
(***************************************************************************)

Before(a, b) == a.boot < b.boot \/ (a.boot = b.boot /\ a.n < b.n)

NewestId == [boot |-> boot, n |-> seq]

IdsGrow ==
  \A i, j \in DOMAIN file : i < j => Before(file[i].rec.id, file[j].rec.id)

NoIdAhead ==
  \A i \in DOMAIN file :
    Before(file[i].rec.id, NewestId) \/ (file[i].rec.id = NewestId /\ pc # "prepared")

PreparedIsNewest == pc = "prepared" => rec.id = NewestId

IdsInv ==
  /\ TypeOK
  /\ IdsGrow
  /\ NoIdAhead
  /\ PreparedIsNewest

\* Before is a strict order on ids.
LEMMA BeforeIsStrict ==
  ASSUME NEW a \in Id
  PROVE  ~Before(a, a)
  <1>1. a.boot \in Nat /\ a.n \in Nat
    BY DEF Id
  <1> QED
    BY <1>1 DEF Before

LEMMA BeforeIsTransitive ==
  ASSUME NEW a \in Id, NEW b \in Id, NEW c \in Id, Before(a, b), Before(b, c)
  PROVE  Before(a, c)
  <1>1. /\ a.boot \in Nat /\ a.n \in Nat
        /\ b.boot \in Nat /\ b.n \in Nat
        /\ c.boot \in Nat /\ c.n \in Nat
    BY DEF Id
  <1> QED
    BY <1>1 DEF Before

\* The file keeps growing ids when one piece with the newest id is added.
LEMMA AddedPieceIsNewest ==
  ASSUME IdsInv, pc = "prepared", NEW whole \in BOOLEAN, file' = WithPiece(whole),
         pc' # "prepared", UNCHANGED <<boot, seq>>
  PROVE  IdsGrow' /\ NoIdAhead' /\ PreparedIsNewest'
  <1>1. /\ Len(file) \in Nat /\ DOMAIN file = 1 .. Len(file)
        /\ DOMAIN file' = 1 .. Len(file) + 1
        /\ \A i \in DOMAIN file : file'[i] = file[i]
        /\ file'[Len(file) + 1].rec = rec
    <2>1. TypeOK
      BY DEF IdsInv
    <2>2. Len(file) \in Nat /\ DOMAIN file = 1 .. Len(file)
      BY <2>1, FilePieces
    <2>3. /\ DOMAIN file' = 1 .. Len(file) + 1
          /\ \A i \in DOMAIN file : file'[i] = file[i]
          /\ file'[Len(file) + 1].rec = rec
      BY <2>1, WriteAddsPiece
    <2> QED
      BY <2>2, <2>3
  <1>2. rec.id = NewestId /\ NewestId' = NewestId
    BY DEF IdsInv, PreparedIsNewest, NewestId
  <1>3. \A i \in DOMAIN file : Before(file[i].rec.id, rec.id)
    BY <1>2 DEF IdsInv, NoIdAhead
  <1>4. IdsGrow'
    <2> SUFFICES ASSUME NEW i \in DOMAIN file', NEW j \in DOMAIN file', i < j
                 PROVE  Before(file'[i].rec.id, file'[j].rec.id)
      BY DEF IdsGrow
    <2>1. i \in DOMAIN file /\ file'[i] = file[i]
      BY <1>1
    <2>2. CASE j \in DOMAIN file
      BY <1>1, <2>1, <2>2 DEF IdsInv, IdsGrow
    <2>3. CASE j = Len(file) + 1
      BY <1>1, <1>3, <2>1, <2>3
    <2> QED
      BY <1>1, <2>2, <2>3
  <1>5. NoIdAhead'
    <2> SUFFICES ASSUME NEW i \in DOMAIN file'
                 PROVE  Before(file'[i].rec.id, NewestId) \/ file'[i].rec.id = NewestId
      BY <1>2 DEF NoIdAhead
    <2>1. CASE i \in DOMAIN file
      BY <1>1, <1>2, <1>3, <2>1
    <2>2. CASE i = Len(file) + 1
      BY <1>1, <1>2, <2>2
    <2> QED
      BY <1>1, <2>1, <2>2
  <1> QED
    BY <1>4, <1>5 DEF PreparedIsNewest

LEMMA IdsStep == IdsInv /\ [Next]_jsonlVars => IdsInv'
  <1> SUFFICES ASSUME IdsInv, [Next]_jsonlVars
               PROVE  IdsInv'
    OBVIOUS
  <1>t. TypeOK /\ TypeOK'
    BY TypeStep DEF IdsInv
  <1>p. /\ Len(file) \in Nat /\ DOMAIN file = 1 .. Len(file)
        /\ \A i \in DOMAIN file : file[i].rec.id \in Id
    BY <1>t, FilePieces
  <1>f. UNCHANGED file => IdsGrow'
    BY DEF IdsInv, IdsGrow
  <1>n. UNCHANGED <<file, boot, seq>> /\ pc' # "prepared" => NoIdAhead'
    BY DEF IdsInv, NoIdAhead, NewestId
  \* A newer counter is ahead of every id.
  <1>c. ASSUME UNCHANGED file, Before(NewestId, NewestId')
        PROVE  NoIdAhead'
    <2>1. NewestId \in Id /\ NewestId' \in Id
      BY <1>t DEF TypeOK, NewestId, Id
    <2>2. ASSUME NEW i \in DOMAIN file
          PROVE  Before(file[i].rec.id, NewestId')
      <3>1. Before(file[i].rec.id, NewestId) \/ file[i].rec.id = NewestId
        BY DEF IdsInv, NoIdAhead
      <3> QED
        BY <1>p, <1>c, <2>1, <3>1, BeforeIsTransitive
    <2> QED
      BY <1>c, <2>2 DEF NoIdAhead
  <1>1. CASE Open
    <2>1. UNCHANGED file /\ pc' # "prepared"
      BY <1>1 DEF Open
    <2>2. CASE pc' = "idle"
      <3>1. Before(NewestId, NewestId')
        <4>1. boot' = boot + 1 /\ boot \in Nat
          BY <1>1, <1>t, <2>2 DEF Open, TypeOK
        <4> QED
          BY <4>1 DEF NewestId, Before
      <3> QED
        BY <1>t, <1>f, <1>c, <2>1, <3>1 DEF IdsInv, PreparedIsNewest
    <2>3. CASE pc' = "refused"
      <3>1. UNCHANGED <<boot, seq>>
        BY <1>1, <2>3 DEF Open, memory
      <3> QED
        BY <1>t, <1>f, <1>n, <2>1, <3>1 DEF IdsInv, PreparedIsNewest
    <2> QED
      BY <1>1, <2>2, <2>3 DEF Open
  <1>2. CASE BeginAppend
    <2>1. UNCHANGED <<file, boot>> /\ seq' = seq + 1 /\ seq \in Nat
      BY <1>2, <1>t DEF BeginAppend, TypeOK
    <2>2. Before(NewestId, NewestId')
      BY <2>1 DEF NewestId, Before
    <2>3. rec'.id = NewestId'
      <3>1. PICK p \in Payloads :
              rec' = [id |-> [boot |-> boot, n |-> seq'], prev |-> head, hash |-> Append(head, p)]
        BY <1>2 DEF BeginAppend
      <3> QED
        BY <2>1, <3>1 DEF NewestId
    <2> QED
      BY <1>t, <1>f, <1>c, <2>1, <2>2, <2>3 DEF IdsInv, PreparedIsNewest
  <1>3. CASE WriteRecord
    <2>1. /\ pc = "prepared" /\ file' = WithPiece(TRUE)
          /\ pc' # "prepared" /\ UNCHANGED <<boot, seq>>
      BY <1>3 DEF WriteRecord, memory
    <2> QED
      BY <1>t, <2>1, AddedPieceIsNewest DEF IdsInv
  <1>4. ASSUME NEW torn \in BOOLEAN, WriteFails(torn)
        PROVE  IdsInv'
    <2>1. /\ pc = "prepared" /\ file' = IF torn THEN WithPiece(FALSE) ELSE file
          /\ pc' # "prepared" /\ UNCHANGED <<boot, seq>>
      BY <1>4 DEF WriteFails, memory
    <2>2. CASE torn
      <3>1. file' = WithPiece(FALSE)
        BY <2>1, <2>2
      <3> QED
        BY <1>t, <2>1, <3>1, AddedPieceIsNewest DEF IdsInv
    <2>3. CASE ~torn
      BY <1>t, <1>f, <1>n, <2>1, <2>3 DEF IdsInv, PreparedIsNewest
    <2> QED
      BY <2>2, <2>3
  <1>5. CASE SyncRecord \/ SyncFails \/ CommitRecord
    <2>1. UNCHANGED <<file, boot, seq>> /\ pc' # "prepared"
      BY <1>5 DEF SyncRecord, SyncFails, CommitRecord, memory
    <2> QED
      BY <1>t, <1>f, <1>n, <2>1 DEF IdsInv, PreparedIsNewest
  <1>6. CASE Crash \/ Close
    <2>1. UNCHANGED <<file, boot, seq>> /\ pc' # "prepared"
      BY <1>6 DEF Crash, Close, LoseMemory
    <2> QED
      BY <1>t, <1>f, <1>n, <2>1 DEF IdsInv, PreparedIsNewest
  <1>7. ASSUME NEW torn \in BOOLEAN, HostCrash(torn)
        PROVE  IdsInv'
    <2>1. UNCHANGED <<boot, seq>> /\ pc' # "prepared"
      BY <1>7 DEF HostCrash, LoseMemory
    <2>2. DOMAIN file' \subseteq DOMAIN file /\ \A i \in DOMAIN file' : file'[i].rec = file[i].rec
      <3>1. PICK kept \in durable .. Len(file) - 1 :
              /\ Len(file') = IF torn THEN kept + 1 ELSE kept
              /\ DOMAIN file' = 1 .. Len(file')
              /\ \A i \in 1 .. kept : file'[i] = file[i]
              /\ torn => file'[kept + 1].rec = file[kept + 1].rec
        BY <1>t, <1>7, HostCrashKeepsSynced
      <3>2. kept \in Nat /\ kept + 1 <= Len(file)
        BY <1>t, <1>p, <3>1 DEF TypeOK
      <3> QED
        BY <1>p, <3>1, <3>2
    <2>3. IdsGrow'
      BY <2>2 DEF IdsInv, IdsGrow
    <2>4. NoIdAhead'
      BY <2>1, <2>2 DEF IdsInv, NoIdAhead, NewestId
    <2> QED
      BY <1>t, <2>1, <2>3, <2>4 DEF IdsInv, PreparedIsNewest
  <1>8. CASE Query \/ UNCHANGED jsonlVars
    <2>1. UNCHANGED <<file, pc, rec, boot, seq>>
      BY <1>8 DEF Query, jsonlVars
    <2> QED
      BY <1>t, <1>f, <2>1 DEF IdsInv, NoIdAhead, PreparedIsNewest, NewestId
  <1> QED
    BY <1>1, <1>2, <1>3, <1>4, <1>5, <1>6, <1>7, <1>8 DEF Next

LEMMA IdsAlways == Spec => []IdsInv
  <1>1. Init => IdsInv
    <2>1. Init => TypeOK
      BY DEF Init, TypeOK, Record, Id, NoRecord, ZeroHash
    <2>2. Init => DOMAIN file = {} /\ pc = "closed"
      BY DEF Init
    <2> QED
      BY <2>1, <2>2 DEF IdsInv, IdsGrow, NoIdAhead, PreparedIsNewest
  <1> QED
    BY <1>1, IdsStep, PTL DEF Spec

\* No two lines of the file carry the same id, torn ones included.
THEOREM IdsStayUnique == Spec => []IdsUnique
  <1>1. IdsInv => IdsUnique
    <2> SUFFICES ASSUME IdsInv, NEW i \in DOMAIN file, NEW j \in DOMAIN file,
                        file[i].rec.id = file[j].rec.id, i # j
                 PROVE  FALSE
      BY DEF IdsUnique
    <2>1. DOMAIN file \subseteq Nat /\ file[i].rec.id \in Id
      BY FilePieces DEF IdsInv
    <2>2. i < j \/ j < i
      BY <2>1
    <2>3. Before(file[i].rec.id, file[j].rec.id) \/ Before(file[j].rec.id, file[i].rec.id)
      BY <2>2 DEF IdsInv, IdsGrow
    <2> QED
      BY <2>1, <2>3, BeforeIsStrict
  <1> QED
    BY <1>1, IdsAlways, PTL
-----------------------------------------------------------------------------
(***************************************************************************)
(* The chain.  What CrashesRecoverable says of a store that runs has to    *)
(* hold during an append as well: the head is the hash of the last line    *)
(* until the record is written, and the record that is written links to    *)
(* that head.                                                              *)
(***************************************************************************)

NoBrokenLine == faults \subseteq {"lostByHost", "refused"}

HeadIsLast == pc \in {"idle", "prepared"} => head = LastHash

PreparedLinks == pc = "prepared" => rec.prev = head

ChainInv ==
  /\ DurableInv
  /\ NoBrokenLine => Replayable /\ HeadIsLast /\ PreparedLinks

\* A record that links to the last line keeps the file replayable.
LEMMA LinkedPieceReplays ==
  ASSUME TypeOK, Replayable, file' = WithPiece(TRUE), rec.prev = LastHash
  PROVE  Replayable'
  <1>1. Len(file) \in Nat /\ DOMAIN file = 1 .. Len(file)
    BY FilePieces
  <1>2. /\ DOMAIN file' = 1 .. Len(file) + 1
        /\ \A i \in DOMAIN file : file'[i] = file[i]
        /\ file'[Len(file) + 1].rec = rec
        /\ file'[Len(file) + 1].whole
    BY WriteAddsPiece
  <1>3. \A i \in DOMAIN file' : i \in DOMAIN file \/ i = Len(file) + 1
    <2>1. \A n \in Nat : \A i \in 1 .. n + 1 : i \in 1 .. n \/ i = n + 1
      OBVIOUS
    <2>2. DOMAIN file' = 1 .. Len(file) + 1
      BY <1>2
    <2> QED
      BY <1>1, <2>1, <2>2, Zenon
  <1> SUFFICES ASSUME NEW i \in DOMAIN file'
               PROVE  /\ file'[i].whole
                      /\ file'[i].rec.prev = IF i = 1 THEN ZeroHash ELSE file'[i - 1].rec.hash
    BY DEF Replayable
  <1>4. CASE i \in DOMAIN file
    <2>1. i # 1 => i - 1 \in DOMAIN file
      BY <1>1, <1>4
    <2>2. file'[i] = file[i] /\ (i # 1 => file'[i - 1] = file[i - 1])
      BY <1>2, <1>4, <2>1
    <2> QED
      BY <1>4, <2>2 DEF Replayable
  <1>5. CASE i = Len(file) + 1
    <2>1. CASE file = <<>>
      <3>1. i = 1
        BY <1>5, <2>1
      <3> QED
        BY <1>2, <1>5, <2>1, <3>1 DEF LastHash
    <2>2. CASE file # <<>>
      <3>1. i # 1 /\ i - 1 = Len(file) /\ Len(file) \in DOMAIN file
        BY <1>1, <1>5, <2>2 DEF TypeOK
      <3> QED
        BY <1>2, <1>5, <2>2, <3>1 DEF LastHash, Last
    <2> QED
      BY <2>1, <2>2
  <1> QED
    BY <1>3, <1>4, <1>5

LEMMA ChainStep == ChainInv /\ [Next]_jsonlVars => ChainInv'
  <1> SUFFICES ASSUME ChainInv, [Next]_jsonlVars
               PROVE  ChainInv'
    OBVIOUS
  <1>t. DurableInv /\ DurableInv' /\ TypeOK
    BY DurableStep DEF ChainInv, DurableInv
  <1>f. UNCHANGED file => (Replayable' <=> Replayable) /\ LastHash' = LastHash
    BY DEF Replayable, LastHash
  <1> SUFFICES ASSUME NoBrokenLine'
               PROVE  Replayable' /\ HeadIsLast' /\ PreparedLinks'
    BY <1>t DEF ChainInv
  <1>1. CASE Open
    <2>1. NoBrokenLine /\ UNCHANGED file
      BY <1>1 DEF Open, NoBrokenLine
    <2>2. Replayable
      BY <2>1 DEF ChainInv
    <2>3. pc' = "idle" /\ head' = LastHash
      BY <1>1, <2>2 DEF Open
    <2> QED
      BY <1>f, <2>1, <2>2, <2>3 DEF HeadIsLast, PreparedLinks
  <1>2. CASE BeginAppend
    <2>1. NoBrokenLine /\ UNCHANGED <<file, head>> /\ pc = "idle" /\ pc' = "prepared"
      BY <1>2 DEF BeginAppend, NoBrokenLine
    <2>2. Replayable /\ head = LastHash
      BY <2>1 DEF ChainInv, HeadIsLast
    <2>3. rec'.prev = head
      BY <1>2 DEF BeginAppend
    <2> QED
      BY <1>f, <2>1, <2>2, <2>3 DEF HeadIsLast, PreparedLinks
  <1>3. CASE WriteRecord
    <2>1. NoBrokenLine /\ file' = WithPiece(TRUE) /\ pc = "prepared" /\ pc' = "written"
      BY <1>3 DEF WriteRecord, NoBrokenLine
    <2>2. Replayable /\ rec.prev = LastHash
      BY <2>1 DEF ChainInv, HeadIsLast, PreparedLinks
    <2>3. Replayable'
      BY <1>t, <2>1, <2>2, LinkedPieceReplays
    <2> QED
      BY <2>1, <2>3 DEF HeadIsLast, PreparedLinks
  <1>4. ASSUME NEW torn \in BOOLEAN, WriteFails(torn)
        PROVE  Replayable' /\ HeadIsLast' /\ PreparedLinks'
    <2>1. /\ faults' = faults \union {IF torn THEN "torn" ELSE "refused"}
          /\ file' = IF torn THEN WithPiece(FALSE) ELSE file
          /\ pc = "prepared" /\ pc' = "idle" /\ UNCHANGED head
      BY <1>4 DEF WriteFails, memory
    <2>2. ~torn /\ NoBrokenLine
      BY <2>1 DEF NoBrokenLine
    <2>3. Replayable /\ head = LastHash /\ UNCHANGED file
      BY <2>1, <2>2 DEF ChainInv, HeadIsLast
    <2> QED
      BY <1>f, <2>1, <2>3 DEF HeadIsLast, PreparedLinks
  <1>5. CASE SyncRecord
    <2>1. NoBrokenLine /\ UNCHANGED file /\ pc' = "synced"
      BY <1>5 DEF SyncRecord, NoBrokenLine
    <2>2. Replayable
      BY <2>1 DEF ChainInv
    <2> QED
      BY <1>f, <2>1, <2>2 DEF HeadIsLast, PreparedLinks
  <1>6. CASE SyncFails
    BY <1>6 DEF SyncFails, NoBrokenLine
  <1>7. CASE CommitRecord
    <2>1. /\ NoBrokenLine /\ UNCHANGED file /\ head' = rec.hash
          /\ pc = "synced" /\ pc' = "idle"
      BY <1>7 DEF CommitRecord, NoBrokenLine
    <2>2. LastHash = rec.hash
      <3>1. file # <<>> /\ Last(file).rec = rec
        BY <1>t, <2>1 DEF DurableInv, WrittenIsLast
      <3> QED
        BY <3>1 DEF LastHash
    <2>3. Replayable
      BY <2>1 DEF ChainInv
    <2> QED
      BY <1>f, <2>1, <2>2, <2>3 DEF HeadIsLast, PreparedLinks
  <1>8. CASE Crash \/ Close
    <2>1. NoBrokenLine /\ UNCHANGED file /\ pc' = "closed"
      BY <1>8 DEF Crash, Close, LoseMemory, NoBrokenLine
    <2>2. Replayable
      BY <2>1 DEF ChainInv
    <2> QED
      BY <1>f, <2>1, <2>2 DEF HeadIsLast, PreparedLinks
  <1>9. ASSUME NEW torn \in BOOLEAN, HostCrash(torn)
        PROVE  Replayable' /\ HeadIsLast' /\ PreparedLinks'
    <2>1. /\ faults' = faults \union {IF torn THEN "tornByHost" ELSE "lostByHost"}
          /\ pc' = "closed"
      BY <1>9 DEF HostCrash, LoseMemory
    <2>2. ~torn /\ NoBrokenLine
      BY <2>1 DEF NoBrokenLine
    <2>3. Replayable
      BY <2>2 DEF ChainInv
    <2>4. PICK kept \in durable .. Len(file) - 1 :
            /\ Len(file') = IF torn THEN kept + 1 ELSE kept
            /\ DOMAIN file' = 1 .. Len(file')
            /\ \A i \in 1 .. kept : file'[i] = file[i]
      BY <1>t, <1>9, HostCrashKeepsSynced
    <2>5. /\ Len(file) \in Nat /\ DOMAIN file = 1 .. Len(file)
          /\ kept \in Nat /\ kept <= Len(file)
          /\ DOMAIN file' = 1 .. kept
      BY <1>t, <2>2, <2>4, FilePieces DEF TypeOK
    <2>6. Replayable'
      <3> SUFFICES ASSUME NEW i \in DOMAIN file'
                   PROVE  /\ file'[i].whole
                          /\ file'[i].rec.prev = IF i = 1 THEN ZeroHash ELSE file'[i - 1].rec.hash
        BY DEF Replayable
      <3>1. i \in 1 .. kept /\ i \in DOMAIN file /\ (i # 1 => i - 1 \in 1 .. kept)
        BY <2>5
      <3>2. file'[i] = file[i] /\ (i # 1 => file'[i - 1] = file[i - 1])
        BY <2>4, <3>1
      <3> QED
        BY <2>3, <3>1, <3>2 DEF Replayable
    <2> QED
      BY <2>1, <2>6 DEF HeadIsLast, PreparedLinks
  <1>10. CASE Query \/ UNCHANGED jsonlVars
    <2>1. UNCHANGED <<file, pc, rec, head, faults>>
      BY <1>10 DEF Query, jsonlVars
    <2>2. NoBrokenLine
      BY <2>1 DEF NoBrokenLine
    <2> QED
      BY <1>f, <2>1, <2>2 DEF ChainInv, HeadIsLast, PreparedLinks
  <1> QED
    BY <1>1, <1>2, <1>3, <1>4, <1>5, <1>6, <1>7, <1>8, <1>9, <1>10 DEF Next

LEMMA ChainAlways == Spec => []ChainInv
  <1>1. Init => ChainInv
    <2>1. Init => DurableInv
      <3>1. Init => TypeOK
        BY DEF Init, TypeOK, Record, Id, NoRecord, ZeroHash
      <3> QED
        BY <3>1
        DEF Init, DurableInv, WrittenIsLast, SyncCoversFile, AckedDurable, LookupFindsRecord
    <2> QED
      BY <2>1 DEF Init, ChainInv, Replayable, HeadIsLast, PreparedLinks
  <1> QED
    BY <1>1, ChainStep, PTL DEF Spec

\* Without a torn line or a failed sync every restart succeeds, and the
\* running store continues the chain of its file.
THEOREM CrashesStayRecoverable == Spec => []CrashesRecoverable
  <1>1. ChainInv => CrashesRecoverable
    BY DEF ChainInv, CrashesRecoverable, NoBrokenLine, HeadIsLast
  <1> QED
    BY <1>1, ChainAlways, PTL
-----------------------------------------------------------------------------
(***************************************************************************)
(* The log that a file stands for.  The k-th whole piece exists and is     *)
(* unique, for files of every length, because counting the whole pieces up *)
(* to a position is injective.                                             *)
(***************************************************************************)

LEMMA WholeFinite ==
  ASSUME NEW f \in Seq(Piece)
  PROVE  /\ Whole(f) \subseteq 1 .. Len(f)
         /\ Len(f) \in Nat
         /\ IsFiniteSet(Whole(f))
         /\ Cardinality(Whole(f)) \in Nat
  <1>1. Whole(f) \subseteq 1 .. Len(f) /\ Len(f) \in Nat
    BY DEF Whole
  <1>2. IsFiniteSet(1 .. Len(f))
    BY <1>1, FS_Interval
  <1>3. IsFiniteSet(Whole(f))
    BY <1>1, <1>2, FS_Subset
  <1> QED
    BY <1>1, <1>3, FS_CardinalityType

LEMMA WholeNumbered ==
  ASSUME NEW f \in Seq(Piece)
  PROVE  /\ \A k \in 1 .. Cardinality(Whole(f)) : \E i \in Whole(f) : KthWhole(f, k) = {i}
         /\ \A i \in Whole(f) : \E k \in 1 .. Cardinality(Whole(f)) : KthWhole(f, k) = {i}
  <1> DEFINE W == Whole(f)
             n == Cardinality(W)
             UpTo(i) == {j \in W : j <= i}
             rank == [i \in W |-> Cardinality(UpTo(i))]
  <1>1. W \subseteq Nat /\ IsFiniteSet(W) /\ n \in Nat
    BY WholeFinite
  <1>k. \A k : KthWhole(f, k) = {i \in W : Cardinality(UpTo(i)) = k}
    BY DEF KthWhole
  <1> HIDE DEF W
  <1>2. \A i \in W : IsFiniteSet(UpTo(i)) /\ Cardinality(UpTo(i)) \in 1 .. n
    <2> TAKE i \in W
    <2>1. UpTo(i) \in SUBSET W /\ i \in UpTo(i)
      BY <1>1
    <2>2. IsFiniteSet(UpTo(i)) /\ Cardinality(UpTo(i)) <= n
      BY <1>1, <2>1, FS_Subset
    <2>3. Cardinality(UpTo(i)) \in Nat /\ Cardinality(UpTo(i)) # 0
      BY <2>1, <2>2, FS_CardinalityType, FS_EmptySet
    <2> QED
      BY <1>1, <2>2, <2>3
  <1>3. \A i, j \in W : i < j => Cardinality(UpTo(i)) # Cardinality(UpTo(j))
    <2> SUFFICES ASSUME NEW i \in W, NEW j \in W, i < j,
                        Cardinality(UpTo(i)) = Cardinality(UpTo(j))
                 PROVE  FALSE
      OBVIOUS
    <2>1. UpTo(i) \in SUBSET UpTo(j)
      <3>1. \A x \in W : x <= i => x <= j
        BY <1>1
      <3> QED
        BY <3>1
    <2>2. UpTo(i) = UpTo(j)
      BY <1>2, <2>1, FS_Subset
    <2>3. j \in UpTo(j) /\ j \notin UpTo(i)
      BY <1>1
    <2> QED
      BY <2>2, <2>3
  <1>4. \A i, j \in W : Cardinality(UpTo(i)) = Cardinality(UpTo(j)) => i = j
    BY <1>1, <1>3
  <1> HIDE DEF n, UpTo
  <1>5. rank \in Injection(W, 1 .. n)
    BY <1>2, <1>4 DEF Injection, IsInjective
  <1>6. IsFiniteSet(1 .. n) /\ Cardinality(1 .. n) = n
    BY <1>1, FS_Interval
  <1>7. rank \in Surjection(W, 1 .. n)
    <2>1. Cardinality(W) = Cardinality(1 .. n)
      BY <1>6 DEF n
    <2> HIDE DEF rank
    <2> QED
      BY <1>5, <1>6, <2>1, FS_Injection
  <1>8. \A k \in 1 .. n : \E i \in W : Cardinality(UpTo(i)) = k
    BY <1>7 DEF Surjection
  <1>9. \A k \in 1 .. n : \E i \in W : KthWhole(f, k) = {i}
    BY <1>4, <1>8, <1>k
  <1>10. \A i \in W : \E k \in 1 .. n : KthWhole(f, k) = {i}
    BY <1>2, <1>4, <1>k
  <1> QED
    BY <1>9, <1>10 DEF n, W

\* The log has one entry for each whole piece.
LEMMA EntriesOfWhole ==
  ASSUME NEW f \in Seq(Piece)
  PROVE  /\ DOMAIN Entries(f) = 1 .. Cardinality(Whole(f))
         /\ Len(Entries(f)) = Cardinality(Whole(f))
         /\ \A k \in DOMAIN Entries(f), i \in Whole(f) :
              KthWhole(f, k) = {i} => Entries(f)[k] = Entry(f[i].rec)
         /\ \A k \in DOMAIN Entries(f) : \E i \in Whole(f) : Entries(f)[k] = Entry(f[i].rec)
         /\ \A i \in Whole(f) : \E k \in DOMAIN Entries(f) : Entries(f)[k] = Entry(f[i].rec)
  <1>1. DOMAIN Entries(f) = 1 .. Cardinality(Whole(f))
    BY DEF Entries
  <1>2. Len(Entries(f)) = Cardinality(Whole(f))
    BY <1>1, WholeFinite
  <1>3. \A k \in DOMAIN Entries(f), i \in Whole(f) :
          KthWhole(f, k) = {i} => Entries(f)[k] = Entry(f[i].rec)
    <2>1. \A i : TheOnly({i}) = i
      BY DEF TheOnly
    <2> QED
      BY <1>1, <2>1 DEF Entries
  <1>4. ASSUME NEW k \in DOMAIN Entries(f)
        PROVE  \E i \in Whole(f) : Entries(f)[k] = Entry(f[i].rec)
    <2>1. PICK i \in Whole(f) : KthWhole(f, k) = {i}
      BY <1>1, WholeNumbered
    <2> QED
      BY <1>3, <2>1
  <1>5. ASSUME NEW i \in Whole(f)
        PROVE  \E k \in DOMAIN Entries(f) : Entries(f)[k] = Entry(f[i].rec)
    <2>1. PICK k \in DOMAIN Entries(f) : KthWhole(f, k) = {i}
      BY <1>1, WholeNumbered
    <2> QED
      BY <1>3, <2>1
  <1> QED
    BY <1>1, <1>2, <1>3, <1>4, <1>5

\* Adding a whole piece extends the log by its record; adding a torn one
\* leaves the log alone.
LEMMA AddedPieceExtends ==
  ASSUME NEW f \in Seq(Piece), NEW g \in Seq(Piece), Len(g) = Len(f) + 1,
         \A i \in 1 .. Len(f) : g[i] = f[i]
  PROVE  /\ ~g[Len(g)].whole => Entries(g) = Entries(f)
         /\ g[Len(g)].whole =>
              /\ Len(Entries(g)) = Len(Entries(f)) + 1
              /\ \A k \in DOMAIN Entries(f) : Entries(g)[k] = Entries(f)[k]
              /\ Entries(g)[Len(Entries(g))] = Entry(g[Len(g)].rec)
  <1> DEFINE W == Whole(f)
             n == Cardinality(W)
             last == Len(g)
             Count(V, i) == Cardinality({j \in V : j <= i})
  <1>1. /\ W \subseteq 1 .. Len(f) /\ Len(f) \in Nat /\ W \subseteq Nat
        /\ IsFiniteSet(W) /\ n \in Nat
        /\ last \notin W /\ last \in Nat
        /\ \A i \in W : i < last
        /\ \A i \in W : g[i] = f[i]
    BY WholeFinite
  <1>2. CASE ~g[last].whole
    <2>1. Whole(g) = W
      BY <1>1, <1>2 DEF Whole
    <2>2. \A k : KthWhole(g, k) = KthWhole(f, k)
      BY <2>1 DEF KthWhole
    <2> HIDE DEF W, n
    <2>3. ASSUME NEW k \in 1 .. n
          PROVE  Entry(g[TheOnly(KthWhole(g, k))].rec) = Entry(f[TheOnly(KthWhole(f, k))].rec)
      <3>1. PICK i \in W : KthWhole(f, k) = {i}
        BY WholeNumbered DEF n, W
      <3>2. TheOnly({i}) = i
        BY DEF TheOnly
      <3> QED
        BY <1>1, <2>2, <3>1, <3>2
    <2>4. Entries(g) = Entries(f)
      BY <2>1, <2>3 DEF Entries, n, W
    <2> QED
      BY <1>2, <2>4 DEF last
  <1>3. CASE g[last].whole
    <2>1. Whole(g) = W \union {last}
      BY <1>1, <1>3 DEF Whole
    <2>2. Cardinality(Whole(g)) = n + 1
      BY <1>1, <2>1, FS_AddElement
    <2>3. \A i \in W : Count(Whole(g), i) = Count(W, i)
      <3> TAKE i \in W
      <3>1. {j \in Whole(g) : j <= i} = {j \in W : j <= i}
        BY <1>1, <2>1
      <3> QED
        BY <3>1
    <2>4. Count(Whole(g), last) = n + 1
      <3>1. {j \in Whole(g) : j <= last} = Whole(g)
        BY <1>1, <2>1
      <3> QED
        BY <2>2, <3>1
    <2>5. \A i \in W : Count(W, i) # n + 1
      <3> TAKE i \in W
      <3>1. {j \in W : j <= i} \in SUBSET W
        OBVIOUS
      <3>2. Count(W, i) <= n /\ Count(W, i) \in Nat
        BY <1>1, <3>1, FS_Subset, FS_CardinalityType
      <3> QED
        BY <1>1, <3>2
    <2>k. \A k : /\ KthWhole(f, k) = {i \in W : Count(W, i) = k}
                 /\ KthWhole(g, k) = {i \in Whole(g) : Count(Whole(g), i) = k}
      BY DEF KthWhole
    <2> HIDE DEF W, n, last, Count
    <2>m. \A k, i : i \in KthWhole(g, k) <=>
                     \/ i \in W /\ Count(W, i) = k
                     \/ i = last /\ Count(Whole(g), i) = k
      <3> TAKE k, i
      <3>1. i \in KthWhole(g, k) <=> i \in Whole(g) /\ Count(Whole(g), i) = k
        BY <2>k
      <3>2. i \in Whole(g) <=> i \in W \/ i = last
        BY <2>1
      <3>3. i \in W => Count(Whole(g), i) = Count(W, i)
        BY <2>3
      <3> QED
        BY <3>1, <3>2, <3>3
    <2>6. \A k \in 1 .. n : KthWhole(g, k) = KthWhole(f, k)
      <3> TAKE k \in 1 .. n
      <3>1. k # n + 1
        BY <1>1
      <3>2. \A i : i \in KthWhole(g, k) <=> i \in W /\ Count(W, i) = k
        BY <2>m, <2>4, <3>1
      <3> QED
        BY <2>k, <3>2
    <2>7. KthWhole(g, n + 1) = {last}
      <3>1. \A i : i \in KthWhole(g, n + 1) <=> i = last
        BY <2>m, <2>4, <2>5
      <3> QED
        BY <3>1
    <2>8. /\ DOMAIN Entries(f) = 1 .. n /\ Len(Entries(f)) = n
          /\ DOMAIN Entries(g) = 1 .. n + 1 /\ Len(Entries(g)) = n + 1
      BY <2>2, EntriesOfWhole DEF n, W
    <2>9. \A k \in 1 .. n : Entries(g)[k] = Entries(f)[k]
      <3> TAKE k \in 1 .. n
      <3>1. PICK i \in W : KthWhole(f, k) = {i}
        BY WholeNumbered DEF n, W
      <3>2. Entries(f)[k] = Entry(f[i].rec)
        BY <2>8, <3>1, EntriesOfWhole DEF W
      <3>3. k \in 1 .. n + 1 /\ i \in Whole(g) /\ KthWhole(g, k) = {i}
        BY <1>1, <2>1, <2>6, <3>1
      <3>4. Entries(g)[k] = Entry(g[i].rec)
        <4>1. k \in DOMAIN Entries(g)
          BY <2>8, <3>3
        <4> QED
          BY <3>3, <4>1, EntriesOfWhole
      <3> QED
        BY <1>1, <3>1, <3>2, <3>4
    <2>10. Entries(g)[n + 1] = Entry(g[last].rec)
      <3>1. n + 1 \in DOMAIN Entries(g) /\ last \in Whole(g)
        BY <1>1, <2>1, <2>8
      <3> QED
        BY <2>7, <3>1, EntriesOfWhole
    <2> QED
      BY <2>8, <2>9, <2>10, <1>3 DEF last
  <1> QED
    BY <1>2, <1>3

-----------------------------------------------------------------------------
(***************************************************************************)
(* The store implements the append-only log.  Until the host loses data,   *)
(* only writes change the file: a whole record extends the log by one      *)
(* entry, newer than all others because ids grow and no start uses more    *)
(* than MaxAppends numbers; a torn record leaves the log alone; a reply    *)
(* acknowledges a record that is durable and whole, hence in the log.      *)
(***************************************************************************)

NumbersBounded ==
  /\ seq <= appends /\ appends <= MaxAppends
  /\ \A i \in DOMAIN file : file[i].rec.id.n <= MaxAppends

LogInv ==
  /\ DurableInv
  /\ IdsInv
  /\ NumbersBounded

\* Entries are numbered in the order of their ids.
LEMMA NumbersFollowIds ==
  ASSUME NEW r \in Record, NEW s \in Record, r.id.n <= MaxAppends, Before(r.id, s.id)
  PROVE  Entry(r).seq < Entry(s).seq
  <1>1. /\ r.id.boot \in Nat /\ r.id.n \in Nat
        /\ s.id.boot \in Nat /\ s.id.n \in Nat
    BY DEF Record, Id
  <1> DEFINE width == MaxAppends + 1
  <1>2. width \in Nat /\ r.id.n < width
    BY <1>1, JsonlConstants
  <1> HIDE DEF width
  <1>3. r.id.boot * width + r.id.n < s.id.boot * width + s.id.n
    <2>1. CASE r.id.boot < s.id.boot
      <3>1. (r.id.boot + 1) * width <= s.id.boot * width
        BY <1>1, <1>2, <2>1
      <3>2. (r.id.boot + 1) * width = r.id.boot * width + width
        BY <1>1, <1>2
      <3>3. r.id.boot * width \in Nat /\ s.id.boot * width \in Nat
        BY <1>1, <1>2
      <3> QED
        BY <1>1, <1>2, <3>1, <3>2, <3>3
    <2>2. CASE r.id.boot = s.id.boot /\ r.id.n < s.id.n
      <3>1. r.id.boot * width \in Nat
        BY <1>1, <1>2
      <3> QED
        BY <1>1, <2>2, <3>1
    <2> QED
      BY <2>1, <2>2 DEF Before
  <1> QED
    BY <1>3 DEF Entry, width

\* Every whole record of the file is in the log.
LEMMA WholeIsLogged ==
  ASSUME TypeOK, NEW i \in DOMAIN file, file[i].whole
  PROVE  Entry(file[i].rec) \in Log!Logged
  <1>1. file \in Seq(Piece) /\ i \in Whole(file)
    BY DEF TypeOK, Whole
  <1>2. \E k \in DOMAIN Entries(file) : Entries(file)[k] = Entry(file[i].rec)
    BY <1>1, EntriesOfWhole
  <1> QED
    BY <1>2 DEF Log!Logged

\* A write that succeeds extends the log.
LEMMA WriteExtends ==
  ASSUME LogInv, WriteRecord
  PROVE  /\ Len(Entries(file)') = Len(Entries(file)) + 1
         /\ \A k \in DOMAIN Entries(file) :
              /\ Entries(file)'[k] = Entries(file)[k]
              /\ Entries(file)[k].seq < Entries(file)'[Len(Entries(file)')].seq
  <1>1. TypeOK /\ file \in Seq(Piece) /\ DOMAIN file = 1 .. Len(file) /\ rec \in Record
    BY FilePieces DEF LogInv, IdsInv, TypeOK
  <1>2. file' = WithPiece(TRUE) /\ pc = "prepared"
    BY DEF WriteRecord
  <1>3. /\ file' \in Seq(Piece)
        /\ Len(file') = Len(file) + 1
        /\ \A i \in 1 .. Len(file) : file'[i] = file[i]
        /\ file'[Len(file')].rec = rec
        /\ file'[Len(file')].whole
    BY <1>1, <1>2, WriteAddsPiece
  <1>4. /\ Len(Entries(file')) = Len(Entries(file)) + 1
        /\ \A k \in DOMAIN Entries(file) : Entries(file')[k] = Entries(file)[k]
        /\ Entries(file')[Len(Entries(file'))] = Entry(rec)
    BY <1>1, <1>3, AddedPieceExtends
  <1>5. ASSUME NEW k \in DOMAIN Entries(file)
        PROVE  Entries(file)[k].seq < Entry(rec).seq
    <2>1. PICK i \in Whole(file) : Entries(file)[k] = Entry(file[i].rec)
      BY <1>1, EntriesOfWhole
    <2>2. i \in DOMAIN file /\ file[i].rec \in Record
      BY <1>1, FilePieces DEF Whole
    <2>3. file[i].rec.id.n <= MaxAppends
      BY <2>2 DEF LogInv, NumbersBounded
    <2>4. Before(file[i].rec.id, rec.id)
      BY <1>2, <2>2 DEF LogInv, IdsInv, NoIdAhead, PreparedIsNewest
    <2> QED
      BY <1>1, <2>1, <2>2, <2>3, <2>4, NumbersFollowIds
  <1>6. Entries(file)' = Entries(file')
    OBVIOUS
  <1> QED
    BY <1>4, <1>5, <1>6

\* A write that fails leaves the log alone.
LEMMA FailedWriteKeepsLog ==
  ASSUME TypeOK, NEW torn \in BOOLEAN, WriteFails(torn)
  PROVE  Entries(file') = Entries(file)
  <1>1. CASE torn
    <2>1. file' = WithPiece(FALSE)
      BY <1>1 DEF WriteFails
    <2>2. file \in Seq(Piece) /\ DOMAIN file = 1 .. Len(file)
      BY FilePieces DEF TypeOK
    <2>3. /\ file' \in Seq(Piece)
          /\ Len(file') = Len(file) + 1
          /\ \A i \in 1 .. Len(file) : file'[i] = file[i]
          /\ ~file'[Len(file')].whole
      BY <2>1, <2>2, WriteAddsPiece
    <2> QED
      BY <2>2, <2>3, AddedPieceExtends
  <1>2. CASE ~torn
    BY <1>2 DEF WriteFails
  <1> QED
    BY <1>1, <1>2

LEMMA NumbersStep == LogInv /\ [Next]_jsonlVars => NumbersBounded'
  <1> SUFFICES ASSUME LogInv, [Next]_jsonlVars
               PROVE  NumbersBounded'
    OBVIOUS
  <1>t. TypeOK /\ NumbersBounded /\ DOMAIN file = 1 .. Len(file) /\ Len(file) \in Nat
    BY FilePieces DEF LogInv, IdsInv
  <1>n. seq \in Nat /\ appends \in Nat
    BY <1>t DEF TypeOK
  <1> USE JsonlConstants
  <1>1. CASE Open
    <2>1. UNCHANGED <<file, appends>> /\ seq' \in {0, seq}
      BY <1>1 DEF Open, memory
    <2> QED
      BY <1>t, <1>n, <2>1 DEF NumbersBounded
  <1>2. CASE BeginAppend
    BY <1>2, <1>t, <1>n DEF BeginAppend, NumbersBounded
  <1>3. ASSUME NEW whole \in BOOLEAN, file' = WithPiece(whole), pc = "prepared",
               UNCHANGED <<seq, appends>>
        PROVE  NumbersBounded'
    <2>1. /\ DOMAIN file' = 1 .. Len(file) + 1
          /\ \A i \in DOMAIN file : file'[i] = file[i]
          /\ file'[Len(file) + 1].rec = rec
      BY <1>t, <1>3, WriteAddsPiece
    <2>2. rec.id.n <= MaxAppends
      <3>1. rec.id.n = seq
        BY <1>3 DEF LogInv, IdsInv, PreparedIsNewest, NewestId
      <3> QED
        BY <1>t, <1>n, <3>1 DEF NumbersBounded
    <2>3. \A i \in DOMAIN file' : i \in DOMAIN file \/ i = Len(file) + 1
      <3>1. \A n \in Nat : \A i \in 1 .. n + 1 : i \in 1 .. n \/ i = n + 1
        OBVIOUS
      <3>2. DOMAIN file' = 1 .. Len(file) + 1
        BY <2>1
      <3> QED
        BY <1>t, <3>1, <3>2, Zenon
    <2>4. \A i \in DOMAIN file' : file'[i].rec.id.n <= MaxAppends
      BY <1>t, <2>1, <2>2, <2>3 DEF NumbersBounded
    <2> QED
      BY <1>t, <1>3, <2>4 DEF NumbersBounded
  <1>4. CASE WriteRecord
    BY <1>3, <1>4 DEF WriteRecord, memory
  <1>5. ASSUME NEW torn \in BOOLEAN, WriteFails(torn)
        PROVE  NumbersBounded'
    <2>1. /\ file' = IF torn THEN WithPiece(FALSE) ELSE file
          /\ pc = "prepared" /\ UNCHANGED <<seq, appends>>
      BY <1>5 DEF WriteFails, memory
    <2>2. CASE torn
      BY <1>3, <2>1, <2>2
    <2>3. CASE ~torn
      BY <1>t, <2>1, <2>3 DEF NumbersBounded
    <2> QED
      BY <2>2, <2>3
  <1>6. CASE UNCHANGED <<file, seq, appends>>
    BY <1>t, <1>6 DEF NumbersBounded
  <1>7. SyncRecord \/ SyncFails \/ CommitRecord \/ Crash \/ Close \/ Query \/ UNCHANGED jsonlVars
          => UNCHANGED <<file, seq, appends>>
    BY DEF SyncRecord, SyncFails, CommitRecord, Crash, Close, LoseMemory, Query, memory, jsonlVars
  <1>8. ASSUME NEW torn \in BOOLEAN, HostCrash(torn)
        PROVE  NumbersBounded'
    <2>1. UNCHANGED <<seq, appends>>
      BY <1>8 DEF HostCrash, LoseMemory
    <2>2. DOMAIN file' \subseteq DOMAIN file /\ \A i \in DOMAIN file' : file'[i].rec = file[i].rec
      <3>1. PICK kept \in durable .. Len(file) - 1 :
              /\ Len(file') = IF torn THEN kept + 1 ELSE kept
              /\ DOMAIN file' = 1 .. Len(file')
              /\ \A i \in 1 .. kept : file'[i] = file[i]
              /\ torn => file'[kept + 1].rec = file[kept + 1].rec
        BY <1>t, <1>8, HostCrashKeepsSynced
      <3>2. kept \in Nat /\ kept + 1 <= Len(file)
        BY <1>t, <3>1 DEF TypeOK
      <3> QED
        BY <1>t, <3>1, <3>2
    <2> QED
      BY <1>t, <2>1, <2>2 DEF NumbersBounded
  <1> QED
    BY <1>1, <1>2, <1>4, <1>5, <1>6, <1>7, <1>8 DEF Next

\* The medium never gets well again.
LEMMA FaultsStay == [Next]_jsonlVars => faults \subseteq faults'
  <1>1. UNCHANGED jsonlVars => UNCHANGED faults
    BY DEF jsonlVars
  <1> QED
    BY <1>1 DEF Next, Open, BeginAppend, WriteRecord, WriteFails, SyncRecord, SyncFails,
         CommitRecord, Crash, Close, HostCrash, Query

\* The JSONL store implements the append-only log.
THEOREM ImplementsLog == Spec => LogSpec
  <1>1. Init => LogInv
    <2>1. Init => TypeOK
      BY DEF Init, TypeOK, Record, Id, NoRecord, ZeroHash
    <2>2. Init => DOMAIN file = {} /\ pc = "closed" /\ acked = {} /\ DOMAIN index = {}
      BY DEF Init
    <2>3. Init => NumbersBounded
      BY <2>2, JsonlConstants DEF Init, NumbersBounded
    <2> QED
      BY <2>1, <2>2, <2>3
      DEF LogInv, DurableInv, WrittenIsLast, SyncCoversFile, AckedDurable, LookupFindsRecord,
          IdsInv, IdsGrow, NoIdAhead, PreparedIsNewest
  <1>2. LogInv /\ [Next]_jsonlVars => LogInv'
    BY DurableStep, IdsStep, NumbersStep DEF LogInv
  <1>3. Init => Log!Init
    <2> SUFFICES ASSUME Init
                 PROVE  Log!Init
      OBVIOUS
    <2>1. Entries(<<>>) = <<>>
      <3>1. Whole(<<>>) = {}
        BY DEF Whole
      <3>2. Cardinality(Whole(<<>>)) = 0
        BY <3>1, FS_EmptySet
      <3> QED
        BY <3>2 DEF Entries
    <2>2. {Entry(a) : a \in acked} = {} /\ faults \intersect {"lostByHost", "tornByHost"} = {}
      BY DEF Init
    <2> QED
      BY <2>1, <2>2 DEF Init, Log!Init
  <1>4. LogInv /\ [Next]_jsonlVars => [Log!Next]_(Log!logVars)
    <2> DEFINE Damaged(kinds) == kinds \intersect {"lostByHost", "tornByHost"} # {}
    <2> SUFFICES ASSUME LogInv, [Next]_jsonlVars, ~Damaged(faults), ~Damaged(faults')
                 PROVE  [Log!Next]_(Log!logVars)
      <3>1. Damaged(faults') => Log!Next
        BY DEF Log!Next, Log!Damaged
      <3> QED
        BY <3>1, FaultsStay
    <2>t. TypeOK
      BY DEF LogInv, IdsInv
    <2>1. CASE WriteRecord
      BY <2>1, WriteExtends DEF Log!Next, Log!Extend, WriteRecord
    <2>2. CASE CommitRecord
      <3>1. UNCHANGED file /\ acked \subseteq acked'
        BY <2>2 DEF CommitRecord
      <3>2. DurableInv' /\ TypeOK'
        BY DurableStep DEF LogInv, DurableInv
      <3>3. ASSUME NEW a \in acked'
            PROVE  Entry(a) \in Log!Logged
        <4>1. PICK i \in 1 .. durable' : file[i].whole /\ file[i].rec = a
          BY <3>1, <3>2 DEF DurableInv, AckedDurable
        <4>2. i \in DOMAIN file
          BY <2>t, <3>1, <3>2, <4>1 DEF TypeOK
        <4> QED
          BY <2>t, <4>1, <4>2, WholeIsLogged
      <3> QED
        BY <3>1, <3>3 DEF Log!Next, Log!Acknowledge
    <2>3. CASE Entries(file') = Entries(file) /\ UNCHANGED acked
      BY <2>3 DEF Log!logVars
    <2>4. ASSUME NEW torn \in BOOLEAN, WriteFails(torn)
          PROVE  Entries(file') = Entries(file) /\ UNCHANGED acked
      BY <2>t, <2>4, FailedWriteKeepsLog DEF WriteFails
    <2>5. \A torn \in BOOLEAN : ~HostCrash(torn)
      BY DEF HostCrash
    <2>6. Open \/ BeginAppend \/ SyncRecord \/ SyncFails \/ Crash \/ Close \/ Query
            \/ UNCHANGED jsonlVars
            => UNCHANGED <<file, acked>>
      BY DEF Open, BeginAppend, SyncRecord, SyncFails, Crash, Close, LoseMemory, Query, jsonlVars
    <2> QED
      BY <2>1, <2>2, <2>3, <2>4, <2>5, <2>6 DEF Next
  <1> QED
    BY <1>1, <1>2, <1>3, <1>4, PTL DEF Spec, LogSpec, Log!Spec

=============================================================================
