------------------------ MODULE EvidenceLedgerProofs ------------------------
(***************************************************************************)
(* What holds of the Python evidence store for every index size and every  *)
(* number of appends, failing writes, crashes and restarts.                *)
(***************************************************************************)
EXTENDS EvidenceLedger, TLAPS

\* Every line of the file holds an entry.
LEMMA LineEntries ==
  ASSUME TypeOK
  PROVE  \A i \in DOMAIN lines :
           lines[i] \in Line /\ lines[i].entry \in Entry
  <1>1. \A l \in Line : l.entry \in Entry
    BY DEF Line
  <1>2. \A i \in DOMAIN lines : lines[i] \in Line
    BY DEF TypeOK
  <1> QED
    BY <1>1, <1>2

\* What an append does to the file: one more line, or text behind the last
\* one, which keeps the entry it began with and no longer parses.
LEMMA LinesWithEffect ==
  ASSUME TypeOK, NEW text \in {"whole", "part"}, lines' = LinesWith(text)
  PROVE  /\ lines' \in Seq(Line)
         /\ lines' # <<>>
         /\ terminated =>
              /\ DOMAIN lines' = DOMAIN lines \union {Len(lines) + 1}
              /\ Len(lines') = Len(lines) + 1
              /\ \A i \in DOMAIN lines : lines'[i] = lines[i]
              /\ lines'[Len(lines) + 1].entry = entry
              /\ lines'[Len(lines) + 1].text = text
         /\ ~terminated =>
              /\ DOMAIN lines' = DOMAIN lines
              /\ Len(lines) \in DOMAIN lines
              /\ \A i \in DOMAIN lines : i # Len(lines) => lines'[i] = lines[i]
              /\ lines'[Len(lines)].entry = lines[Len(lines)].entry
              /\ lines'[Len(lines)].text =
                   IF lines[Len(lines)].text = "part" THEN "part" ELSE "joined"
  <1>0. lines \in Seq(Line) /\ Len(lines) \in Nat
    BY DEF TypeOK
  <1>1. CASE terminated
    <2> DEFINE new == [entry |-> entry, text |-> text]
    <2>1. new \in Line /\ new.entry = entry /\ new.text = text
      BY DEF TypeOK, Line, Texts
    <2>2. lines' = Append(lines, new)
      BY <1>1 DEF LinesWith
    <2> HIDE DEF new
    <2>3. /\ lines' \in Seq(Line)
          /\ lines' # <<>>
          /\ DOMAIN lines' = DOMAIN lines \union {Len(lines) + 1}
          /\ Len(lines') = Len(lines) + 1
          /\ \A i \in DOMAIN lines : lines'[i] = lines[i]
          /\ lines'[Len(lines) + 1] = new
      BY <1>0, <2>1, <2>2
    <2> QED
      BY <1>1, <2>1, <2>3
  <1>2. CASE ~terminated
    <2> DEFINE old == lines[Len(lines)]
               behind == IF old.text = "part" THEN "part" ELSE "joined"
               last == [old EXCEPT !.text = behind]
    <2>1. lines' = [lines EXCEPT ![Len(lines)] = last]
      BY <1>2 DEF LinesWith
    <2>2. Len(lines) \in DOMAIN lines /\ old \in Line
      BY <1>2, LineEntries DEF TypeOK
    <2>3. last \in Line /\ last.entry = old.entry /\ last.text = behind
      <3>1. behind \in Texts
        BY DEF Texts
      <3>2. \A l \in Line, t \in Texts :
              /\ [l EXCEPT !.text = t] \in Line
              /\ [l EXCEPT !.text = t].entry = l.entry
              /\ [l EXCEPT !.text = t].text = t
        BY DEF Line
      <3> QED
        BY <2>2, <3>1, <3>2
    <2> HIDE DEF last
    <2>4. /\ lines' \in Seq(Line)
          /\ lines' # <<>>
          /\ DOMAIN lines' = DOMAIN lines
          /\ \A i \in DOMAIN lines : i # Len(lines) => lines'[i] = lines[i]
          /\ lines'[Len(lines)] = last
      BY <1>0, <2>1, <2>2, <2>3
    <2> QED
      BY <1>2, <2>2, <2>3, <2>4
  <1> QED
    BY <1>1, <1>2

\* What a crash of the host leaves: lines that were there, all but the last
\* of them as they were, and that one too unless the host cut it off.
LEMMA HostCrashEffect ==
  ASSUME TypeOK, HostCrash
  PROVE  /\ lines' \in Seq(Line)
         /\ DOMAIN lines' \subseteq DOMAIN lines
         /\ ~terminated' => lines' # <<>>
         /\ \A i \in DOMAIN lines' :
              /\ lines'[i].entry = lines[i].entry
              /\ lines'[i].text \in Cut(lines[i].text)
              /\ i # Len(lines') => lines'[i] = lines[i]
         /\ "tornByHost" \notin faults' =>
              terminated' /\ \A i \in DOMAIN lines' : lines'[i] = lines[i]
  <1>0. /\ lines \in Seq(Line)
        /\ Len(lines) \in Nat
        /\ \A i \in DOMAIN lines : lines[i].text \in Cut(lines[i].text)
    BY DEF TypeOK, Cut
  <1>1. ASSUME NEW kept \in 0 .. Len(lines) - 1,
               lines' = SubSeq(lines, 1, kept), terminated' = TRUE
        PROVE  /\ lines' \in Seq(Line)
               /\ DOMAIN lines' \subseteq DOMAIN lines
               /\ terminated'
               /\ \A i \in DOMAIN lines' : lines'[i] = lines[i]
    BY <1>0, <1>1
  <1>2. ASSUME NEW kept \in 0 .. Len(lines) - 1,
               NEW text \in Cut(lines[kept + 1].text),
               lines' = [SubSeq(lines, 1, kept + 1) EXCEPT ![kept + 1].text = text]
        PROVE  /\ lines' \in Seq(Line)
               /\ lines' # <<>>
               /\ DOMAIN lines' \subseteq DOMAIN lines
               /\ \A i \in DOMAIN lines' :
                    /\ lines'[i].entry = lines[i].entry
                    /\ lines'[i].text \in Cut(lines[i].text)
                    /\ i # Len(lines') => lines'[i] = lines[i]
    <2> DEFINE first == SubSeq(lines, 1, kept + 1)
               last == [first[kept + 1] EXCEPT !.text = text]
    <2>1. /\ first \in Seq(Line)
          /\ Len(first) = kept + 1
          /\ DOMAIN first = 1 .. kept + 1
          /\ kept + 1 \in DOMAIN first
          /\ \A i \in DOMAIN first : i \in DOMAIN lines /\ first[i] = lines[i]
      BY <1>0
    <2>2. lines' = [first EXCEPT ![kept + 1] = last]
      BY <1>2
    <2>3. last \in Line /\ last.entry = lines[kept + 1].entry /\ last.text = text
      <3>1. lines[kept + 1] \in Line
        BY <2>1, LineEntries
      <3>2. text \in Texts
        BY <3>1 DEF Cut, Line, Texts
      <3>3. \A l \in Line, t \in Texts :
              /\ [l EXCEPT !.text = t] \in Line
              /\ [l EXCEPT !.text = t].entry = l.entry
              /\ [l EXCEPT !.text = t].text = t
        BY DEF Line
      <3>4. first[kept + 1] = lines[kept + 1]
        BY <2>1
      <3> QED
        BY <3>1, <3>2, <3>3, <3>4
    <2> HIDE DEF first, last
    <2>4. /\ lines' \in Seq(Line)
          /\ lines' # <<>>
          /\ Len(lines') = kept + 1
          /\ DOMAIN lines' = DOMAIN first
          /\ \A i \in DOMAIN first : i # kept + 1 => lines'[i] = first[i]
          /\ lines'[kept + 1] = last
      BY <2>1, <2>2, <2>3
    <2> QED
      BY <1>0, <2>1, <2>3, <2>4
  <1>3. PICK kept \in 0 .. Len(lines) - 1 :
          \/ lines' = SubSeq(lines, 1, kept) /\ terminated' = TRUE
          \/ /\ \E text \in Cut(lines[kept + 1].text) :
                  lines' = [SubSeq(lines, 1, kept + 1) EXCEPT ![kept + 1].text = text]
             /\ "tornByHost" \in faults'
    BY DEF HostCrash
  <1> QED
    BY <1>0, <1>1, <1>2, <1>3

\* The type invariant, for every step of the store.
LEMMA TypeStep == TypeOK /\ [Next]_vars => TypeOK'
  <1> SUFFICES ASSUME TypeOK, [Next]_vars
               PROVE  TypeOK'
    OBVIOUS
  <1> USE LedgerConstants
  <1>1. CASE BeginAppend
    BY <1>1 DEF TypeOK, BeginAppend, Entry, FaultKinds
  <1>2. CASE WriteLine
    BY <1>2, LinesWithEffect DEF TypeOK, WriteLine
  <1>3. CASE WriteRefused
    BY <1>3 DEF TypeOK, WriteRefused, FaultKinds
  <1>4. ASSUME NEW kind \in {"torn", "unterminated"}, WritePart(kind)
        PROVE  TypeOK'
    BY <1>4, LinesWithEffect DEF TypeOK, WritePart, FaultKinds
  <1>5. CASE IndexAndReply
    BY <1>5 DEF TypeOK, IndexAndReply, Evicted
  <1>6. CASE Crash
    BY <1>6 DEF TypeOK, Crash, LoseMemory, Genesis
  <1>7. CASE HostCrash
    <2>1. lines' \in Seq(Line) /\ (~terminated' => lines' # <<>>)
      BY <1>7, HostCrashEffect
    <2>2. terminated' \in BOOLEAN /\ faults' \subseteq FaultKinds
      BY <1>7 DEF TypeOK, HostCrash, FaultKinds, HostFaults
    <2> QED
      BY <1>7, <2>1, <2>2 DEF TypeOK, HostCrash, LoseMemory, Genesis
  <1>8. CASE Restart
    <2>1. \A i \in Readable : lines[i].entry \in Entry
      BY LineEntries DEF Readable
    <2>2. sequence' \in Nat /\ lastHash' \in Nat
      BY <1>8, <2>1 DEF Restart, Genesis, Entry
    <2>3. index' \subseteq Entry
      BY <1>8, <2>1 DEF Restart, OnDisk
    <2> QED
      BY <1>8, <2>2, <2>3 DEF TypeOK, Restart
  <1>9. CASE Query \/ UNCHANGED vars
    BY <1>9 DEF TypeOK, Query, vars
  <1> QED
    BY <1>1, <1>2, <1>3, <1>4, <1>5, <1>6, <1>7, <1>8, <1>9 DEF Next

\* Every reachable state is well typed.
THEOREM TypeCorrect == Spec => []TypeOK
  <1>1. Init => TypeOK
    BY DEF Init, TypeOK, Entry, Genesis
  <1>2. TypeOK /\ [Next]_vars => TypeOK'
    BY TypeStep
  <1> QED
    BY <1>1, <1>2, PTL DEF Spec
-----------------------------------------------------------------------------
(***************************************************************************)
(* Sequence numbers.  SequenceIncreasing alone is not inductive: the step  *)
(* that writes needs to know that the entry it writes is newer than every  *)
(* line that can be read; and a host crash may cut a line back to the      *)
(* entry it began with, which must be newer than the lines above it.       *)
(***************************************************************************)

\* The lines that begin with a whole entry.
Begun == {i \in DOMAIN lines : lines[i].text # "part"}

SequenceInv ==
  /\ TypeOK
  /\ SequenceIncreasing
  /\ \A i \in Readable, j \in Begun : i < j => lines[i].entry.seq < lines[j].entry.seq
  /\ pc = "prepared" =>
       /\ entry.seq = sequence
       /\ \A i \in Readable : lines[i].entry.seq < sequence

\* After a write every line that can be read, or that begins with an entry,
\* is one from before, or the new entry behind all of them.
LEMMA LinesWithReadable ==
  ASSUME TypeOK, NEW text \in {"whole", "part"}, lines' = LinesWith(text)
  PROVE  /\ \A i \in Readable' :
              \/ i \in Readable /\ lines'[i].entry = lines[i].entry
              \/ i = Len(lines) + 1 /\ lines'[i].entry = entry
         /\ \A i \in Begun' :
              \/ i \in Begun /\ lines'[i].entry = lines[i].entry
              \/ i = Len(lines) + 1 /\ lines'[i].entry = entry
  <1>1. CASE terminated
    BY <1>1, LinesWithEffect DEF Readable, Begun
  <1>2. CASE ~terminated
    <2>1. lines'[Len(lines)].text # "whole"
      BY <1>2, LinesWithEffect
    <2>2. lines[Len(lines)].text = "part" => lines'[Len(lines)].text = "part"
      BY <1>2, LinesWithEffect
    <2> QED
      BY <1>2, <2>1, <2>2, LinesWithEffect DEF Readable, Begun
  <1> QED
    BY <1>1, <1>2 DEF TypeOK

\* Every step keeps the sequence numbers of the file increasing.
LEMMA SequenceStep == SequenceInv /\ [Next]_vars => SequenceInv'
  <1> SUFFICES ASSUME SequenceInv, [Next]_vars
               PROVE  SequenceInv'
    OBVIOUS
  <1> USE LedgerConstants
  <1>0. TypeOK /\ TypeOK'
    BY TypeStep DEF SequenceInv
  <1>r. Readable \subseteq Begun /\ Readable' \subseteq Begun'
    BY DEF Readable, Begun
  <1>e. /\ sequence \in Nat
        /\ entry.seq \in Nat
        /\ Len(lines) \in Nat
        /\ \A i \in Begun : i \in Nat /\ i <= Len(lines) /\ lines[i].entry.seq \in Nat
    <2>1. \A e \in Entry : e.seq \in Nat
      BY DEF Entry
    <2> QED
      BY <1>0, <2>1, LineEntries DEF TypeOK, Begun
  <1>u. ASSUME UNCHANGED lines
        PROVE  UNCHANGED <<Readable, Begun>>
    BY <1>u DEF Readable, Begun
  <1>1. CASE BeginAppend
    <2>1. \A i \in Readable : lines[i].entry.seq < sequence'
      BY <1>1, <1>e, <1>r DEF SequenceInv, SequenceIncreasing, BeginAppend
    <2> QED
      BY <1>0, <1>1, <1>u, <1>e, <1>r, <2>1
         DEF SequenceInv, SequenceIncreasing, BeginAppend
  <1>2. ASSUME NEW text \in {"whole", "part"}, lines' = LinesWith(text),
               pc = "prepared", pc' \in {"written", "idle"},
               UNCHANGED <<entry, sequence>>
        PROVE  SequenceInv'
    <2>1. /\ \A i \in Readable' :
               \/ i \in Readable /\ lines'[i].entry = lines[i].entry
               \/ i = Len(lines) + 1 /\ lines'[i].entry = entry
          /\ \A i \in Begun' :
               \/ i \in Begun /\ lines'[i].entry = lines[i].entry
               \/ i = Len(lines) + 1 /\ lines'[i].entry = entry
      BY <1>0, <1>2, LinesWithReadable
    <2>2. \A i \in Readable', j \in Begun' :
            i < j => lines'[i].entry.seq < lines'[j].entry.seq
      <3> SUFFICES ASSUME NEW i \in Readable', NEW j \in Begun', i < j
                   PROVE  lines'[i].entry.seq < lines'[j].entry.seq
        OBVIOUS
      <3>1. CASE j \in Begun /\ lines'[j].entry = lines[j].entry
        <4>1. i \in Readable /\ lines'[i].entry = lines[i].entry
          BY <1>e, <2>1, <3>1
        <4> QED
          BY <3>1, <4>1 DEF SequenceInv
      <3>2. CASE j = Len(lines) + 1 /\ lines'[j].entry = entry
        <4>1. i \in Readable /\ lines'[i].entry = lines[i].entry
          BY <1>e, <2>1, <3>2
        <4> QED
          BY <1>2, <3>2, <4>1 DEF SequenceInv
      <3> QED
        BY <2>1, <3>1, <3>2
    <2>3. \A i, j \in Readable' : i < j => lines'[i].entry.seq < lines'[j].entry.seq
      BY <1>r, <2>2
    <2>4. \A i \in Readable' : lines'[i].entry.seq <= sequence'
      BY <1>2, <1>e, <2>1 DEF SequenceInv, SequenceIncreasing
    <2>5. SequenceIncreasing'
      BY <2>3, <2>4 DEF SequenceIncreasing
    <2> QED
      BY <1>0, <1>2, <2>2, <2>5 DEF SequenceInv
  <1>3. CASE WriteLine
    BY <1>2, <1>3 DEF WriteLine
  <1>4. CASE WriteRefused
    BY <1>0, <1>4, <1>u DEF SequenceInv, SequenceIncreasing, WriteRefused
  <1>5. ASSUME NEW kind \in {"torn", "unterminated"}, WritePart(kind)
        PROVE  SequenceInv'
    BY <1>2, <1>5 DEF WritePart
  <1>6. CASE IndexAndReply
    BY <1>0, <1>6, <1>u DEF SequenceInv, SequenceIncreasing, IndexAndReply
  <1>7. CASE Crash
    BY <1>0, <1>7, <1>u DEF SequenceInv, SequenceIncreasing, Crash, LoseMemory
  <1>8. CASE HostCrash
    <2>1. \A i \in DOMAIN lines' :
            /\ i \in DOMAIN lines
            /\ i \in Nat /\ Len(lines') \in Nat /\ i <= Len(lines')
            /\ lines'[i].entry = lines[i].entry
            /\ lines'[i].text \in Cut(lines[i].text)
            /\ i # Len(lines') => lines'[i] = lines[i]
      BY <1>0, <1>8, HostCrashEffect DEF TypeOK
    <2>2. \A i \in Begun' : i \in Begun
      BY <2>1 DEF Begun, Cut
    <2>3. \A i \in Readable' : i # Len(lines') => i \in Readable
      BY <2>1 DEF Readable
    <2>4. \A i \in Readable', j \in Begun' :
            i < j => lines'[i].entry.seq < lines'[j].entry.seq
      <3> SUFFICES ASSUME NEW i \in Readable', NEW j \in Begun', i < j
                   PROVE  lines'[i].entry.seq < lines'[j].entry.seq
        OBVIOUS
      <3>1. i \in DOMAIN lines' /\ j \in DOMAIN lines'
        BY DEF Readable, Begun
      <3>2. i # Len(lines')
        BY <2>1, <3>1
      <3> QED
        BY <2>1, <2>2, <2>3, <3>1, <3>2 DEF SequenceInv
    <2>5. \A i, j \in Readable' : i < j => lines'[i].entry.seq < lines'[j].entry.seq
      BY <1>r, <2>4
    <2> QED
      BY <1>0, <1>8, <2>4, <2>5 DEF SequenceInv, SequenceIncreasing, HostCrash, LoseMemory
  <1>9. CASE Restart
    <2>1. UNCHANGED <<Readable, Begun, lines>> /\ pc' = "idle"
      BY <1>9, <1>u DEF Restart
    <2>2. \A i \in Readable : lines[i].entry.seq <= sequence'
      BY <1>9, <1>e, <1>r DEF Restart, SequenceInv, SequenceIncreasing
    <2> QED
      BY <1>0, <2>1, <2>2 DEF SequenceInv, SequenceIncreasing
  <1>10. CASE Query \/ UNCHANGED vars
    BY <1>0, <1>10, <1>u DEF SequenceInv, SequenceIncreasing, Query, vars
  <1> QED
    BY <1>1, <1>3, <1>4, <1>5, <1>6, <1>7, <1>8, <1>9, <1>10 DEF Next

\* No identifier is ever put in the file twice.
THEOREM SequencesIncrease == Spec => []SequenceIncreasing
  <1>1. Init => SequenceInv
    <2>1. Init => TypeOK
      BY DEF Init, TypeOK, Entry, Genesis
    <2>2. Init => SequenceIncreasing /\ pc # "prepared" /\ Readable = {}
      BY DEF Init, SequenceIncreasing, Readable
    <2> QED
      BY <2>1, <2>2 DEF SequenceInv
  <1>2. SequenceInv /\ [Next]_vars => SequenceInv'
    BY SequenceStep
  <1>3. SequenceInv => SequenceIncreasing
    BY DEF SequenceInv
  <1> QED
    BY <1>1, <1>2, <1>3, PTL DEF Spec

-----------------------------------------------------------------------------
(***************************************************************************)
(* Acknowledged entries.  Either every entry acknowledged, or about to be, *)
(* is in the file or was lost by the host, or the file holds a line that   *)
(* does not parse.  Such a line goes away with the host's tail only, and   *)
(* what the tail takes is counted as lost.                                 *)
(***************************************************************************)

Unparsable == \E i \in DOMAIN lines : lines[i].text # "whole"

LossInv ==
  /\ TypeOK
  /\ \/ Unparsable
     \/ acked \ lost \subseteq OnDisk /\ (pc = "written" => entry \in OnDisk)

\* A write adds its entry and loses none, or leaves a line that does not
\* parse; it never repairs one.
LEMMA LinesWithKeeps ==
  ASSUME TypeOK, NEW text \in {"whole", "part"}, lines' = LinesWith(text)
  PROVE  /\ Unparsable => Unparsable'
         /\ Unparsable' \/ OnDisk' = OnDisk \union {entry}
  <1>1. CASE terminated
    <2>1. /\ DOMAIN lines' = DOMAIN lines \union {Len(lines) + 1}
          /\ \A i \in DOMAIN lines : lines'[i] = lines[i]
          /\ lines'[Len(lines) + 1].entry = entry
          /\ lines'[Len(lines) + 1].text = text
      BY <1>1, LinesWithEffect
    <2>2. Unparsable => Unparsable'
      BY <2>1 DEF Unparsable
    <2>3. text # "whole" => Unparsable'
      BY <2>1 DEF Unparsable
    <2>4. ASSUME text = "whole"
          PROVE  OnDisk' = OnDisk \union {entry}
      <3>1. Readable' = Readable \union {Len(lines) + 1}
        BY <2>1, <2>4 DEF Readable
      <3>2. \A i \in Readable : lines'[i] = lines[i]
        BY <2>1 DEF Readable
      <3> QED
        BY <2>1, <3>1, <3>2 DEF OnDisk
    <2> QED
      BY <2>2, <2>3, <2>4
  <1>2. CASE ~terminated
    <2>1. Len(lines) \in DOMAIN lines' /\ lines'[Len(lines)].text # "whole"
      BY <1>2, LinesWithEffect
    <2> QED
      BY <2>1 DEF Unparsable
  <1> QED
    BY <1>1, <1>2 DEF TypeOK

\* No step of the store, a failing write included, hides an acknowledged
\* entry behind a chain that verifies.
LEMMA LossStep == LossInv /\ [Next]_vars => LossInv'
  <1> SUFFICES ASSUME LossInv, [Next]_vars
               PROVE  LossInv'
    OBVIOUS
  <1>0. TypeOK /\ TypeOK'
    BY TypeStep DEF LossInv
  <1>1. ASSUME UNCHANGED <<lines, acked, lost>>, pc' # "written"
        PROVE  LossInv'
    BY <1>0, <1>1 DEF LossInv, Unparsable, OnDisk, Readable
  <1>2. ASSUME NEW text \in {"whole", "part"}, lines' = LinesWith(text),
               UNCHANGED <<entry, acked, lost>>
        PROVE  LossInv'
    <2>1. Unparsable => Unparsable'
      BY <1>0, <1>2, LinesWithKeeps
    <2>2. Unparsable' \/ OnDisk' = OnDisk \union {entry}
      BY <1>0, <1>2, LinesWithKeeps
    <2> QED
      BY <1>0, <1>2, <2>1, <2>2 DEF LossInv
  <1>3. CASE BeginAppend
    BY <1>1, <1>3 DEF BeginAppend
  <1>4. CASE WriteLine
    BY <1>2, <1>4 DEF WriteLine
  <1>5. CASE WriteRefused
    BY <1>1, <1>5 DEF WriteRefused
  <1>6. ASSUME NEW kind \in {"torn", "unterminated"}, WritePart(kind)
        PROVE  LossInv'
    BY <1>2, <1>6 DEF WritePart
  <1>7. CASE IndexAndReply
    <2>1. Unparsable' = Unparsable /\ OnDisk' = OnDisk
      BY <1>7 DEF IndexAndReply, Unparsable, OnDisk, Readable
    <2> QED
      BY <1>0, <1>7, <2>1 DEF LossInv, IndexAndReply
  <1>8. CASE Crash
    BY <1>1, <1>8 DEF Crash, LoseMemory
  <1>9. CASE HostCrash
    BY <1>0, <1>9 DEF HostCrash, LoseMemory, LossInv
  <1>10. CASE Restart
    BY <1>1, <1>10 DEF Restart
  <1>11. CASE Query \/ UNCHANGED vars
    BY <1>0, <1>11 DEF LossInv, Query, vars, Unparsable, OnDisk, Readable
  <1> QED
    BY <1>3, <1>4, <1>5, <1>6, <1>7, <1>8, <1>9, <1>10, <1>11 DEF Next

\* When verify_chain answers valid, every acknowledged entry is in the file
\* that the host did not take when it last crashed.
THEOREM LossIsVisible == Spec => []NoSilentLoss
  <1>1. Init => LossInv
    <2>1. Init => TypeOK
      BY DEF Init, TypeOK, Entry, Genesis
    <2>2. Init => acked = {} /\ pc # "written"
      BY DEF Init
    <2> QED
      BY <2>1, <2>2 DEF LossInv
  <1>2. LossInv /\ [Next]_vars => LossInv'
    BY LossStep
  <1>3. LossInv => NoSilentLoss
    BY DEF LossInv, NoSilentLoss, VerifyValid, Unparsable
  <1> QED
    BY <1>1, <1>2, <1>3, PTL DEF Spec

-----------------------------------------------------------------------------
(***************************************************************************)
(* The chain.  Between the steps of a request the head is one entry ahead  *)
(* of the file; a crash in between forgets that entry, and the replay      *)
(* takes the head from the last line again.  A host crash between lines    *)
(* leaves a shorter chain; one that cuts a line off is left out.           *)
(***************************************************************************)

TailHash == IF lines = <<>> THEN Genesis ELSE lines[Len(lines)].entry.hash

ChainInv ==
  /\ TypeOK
  /\ faults \subseteq {"lostByHost"} =>
       /\ VerifyValid
       /\ terminated
       /\ pc \in {"idle", "written"} => lastHash = TailHash
       /\ pc = "prepared" => entry.prev = TailHash /\ lastHash = entry.hash

\* While every write succeeds, each step keeps the chain whole.
LEMMA ChainStep == ChainInv /\ [Next]_vars => ChainInv'
  <1> SUFFICES ASSUME ChainInv, [Next]_vars, faults' \subseteq {"lostByHost"}
               PROVE  ChainInv'
    BY TypeStep DEF ChainInv
  <1>0. /\ TypeOK
        /\ TypeOK'
        /\ lines \in Seq(Line)
        /\ Len(lines) \in Nat
    BY TypeStep DEF ChainInv, TypeOK
  <1>1. CASE BeginAppend
    BY <1>0, <1>1 DEF ChainInv, BeginAppend, VerifyValid, TailHash
  <1>2. CASE WriteLine
    <2>1. /\ VerifyValid
          /\ terminated
          /\ entry.prev = TailHash
          /\ lastHash = entry.hash
      BY <1>2 DEF ChainInv, WriteLine
    <2>4. /\ DOMAIN lines' = DOMAIN lines \union {Len(lines) + 1}
          /\ Len(lines') = Len(lines) + 1
          /\ \A i \in DOMAIN lines : lines'[i] = lines[i]
          /\ lines'[Len(lines) + 1].entry = entry
          /\ lines'[Len(lines) + 1].text = "whole"
          /\ lines' # <<>>
      BY <1>0, <1>2, <2>1, LinesWithEffect DEF WriteLine
    <2>5. VerifyValid'
      <3> SUFFICES ASSUME NEW i \in DOMAIN lines'
                   PROVE  /\ lines'[i].text = "whole"
                          /\ lines'[i].entry.prev = IF i = 1 THEN Genesis
                                                    ELSE lines'[i - 1].entry.hash
        BY DEF VerifyValid
      <3>1. CASE i \in DOMAIN lines
        <4>1. i # 1 => i - 1 \in DOMAIN lines
          BY <1>0, <3>1
        <4> QED
          BY <2>1, <2>4, <3>1, <4>1 DEF VerifyValid
      <3>2. CASE i = Len(lines) + 1
        <4>1. i # 1 => i - 1 = Len(lines) /\ Len(lines) \in DOMAIN lines /\ lines # <<>>
          BY <1>0, <3>2
        <4>2. i = 1 => lines = <<>>
          BY <1>0, <3>2
        <4> QED
          BY <2>1, <2>4, <3>2, <4>1, <4>2 DEF TailHash
      <3> QED
        BY <2>4, <3>1, <3>2
    <2>6. lastHash' = TailHash'
      BY <1>2, <2>1, <2>4 DEF TailHash, WriteLine
    <2> QED
      BY <1>0, <1>2, <2>5, <2>6 DEF ChainInv, WriteLine
  <1>3. ~WriteRefused /\ \A kind \in {"torn", "unterminated"} : ~WritePart(kind)
    BY DEF WriteRefused, WritePart
  <1>4. CASE IndexAndReply
    BY <1>0, <1>4 DEF ChainInv, IndexAndReply, VerifyValid, TailHash
  <1>5. CASE Crash
    BY <1>0, <1>5 DEF ChainInv, Crash, LoseMemory, VerifyValid, TailHash
  <1>6. CASE HostCrash
    <2>1. faults \subseteq {"lostByHost"} /\ "tornByHost" \notin faults'
      BY <1>6 DEF HostCrash
    <2>2. /\ terminated'
          /\ DOMAIN lines' \subseteq DOMAIN lines
          /\ \A i \in DOMAIN lines' : lines'[i] = lines[i]
      BY <1>0, <1>6, <2>1, HostCrashEffect
    <2>3. \A i \in DOMAIN lines' : i # 1 => i - 1 \in DOMAIN lines'
      BY <1>0 DEF TypeOK
    <2>4. VerifyValid'
      BY <2>1, <2>2, <2>3 DEF ChainInv, VerifyValid
    <2> QED
      BY <1>0, <1>6, <2>2, <2>4 DEF ChainInv, HostCrash, LoseMemory
  <1>7. CASE Restart
    <2>1. Readable = DOMAIN lines
      BY <1>7 DEF ChainInv, Restart, VerifyValid, Readable
    <2>2. lastHash' = TailHash
      <3>1. CASE lines = <<>>
        BY <1>0, <1>7, <2>1, <3>1 DEF Restart, TailHash
      <3>2. CASE lines # <<>>
        <4>1. Len(lines) \in Readable
          BY <1>0, <2>1, <3>2
        <4>2. \A i \in Readable : i <= Len(lines) /\ i \in Nat
          BY <1>0, <2>1
        <4>3. PICK i \in Readable : /\ \A j \in Readable : j <= i
                                   /\ lastHash' = lines[i].entry.hash
          BY <1>7, <4>1 DEF Restart
        <4>4. i = Len(lines)
          BY <1>0, <4>1, <4>2, <4>3
        <4> QED
          BY <3>2, <4>3, <4>4 DEF TailHash
      <3> QED
        BY <3>1, <3>2
    <2> QED
      BY <1>0, <1>7, <2>2 DEF ChainInv, Restart, VerifyValid, TailHash
  <1>8. CASE Query \/ UNCHANGED vars
    BY <1>0, <1>8 DEF ChainInv, Query, vars, VerifyValid, TailHash
  <1> QED
    BY <1>1, <1>2, <1>3, <1>4, <1>5, <1>6, <1>7, <1>8 DEF Next

\* No crash of the process breaks the chain, nor does a crash of its host
\* that takes whole lines.
THEOREM CrashesKeepChain == Spec => []CrashKeepsChain
  <1>1. Init => ChainInv
    <2>1. Init => TypeOK
      BY DEF Init, TypeOK, Entry, Genesis
    <2>2. Init => VerifyValid /\ terminated /\ pc = "idle" /\ lastHash = TailHash
      BY DEF Init, VerifyValid, TailHash
    <2> QED
      BY <2>1, <2>2 DEF ChainInv
  <1>2. ChainInv /\ [Next]_vars => ChainInv'
    BY ChainStep
  <1>3. ChainInv => CrashKeepsChain
    BY DEF ChainInv, CrashKeepsChain, TailHash
  <1> QED
    BY <1>1, <1>2, <1>3, PTL DEF Spec

-----------------------------------------------------------------------------
(***************************************************************************)
(* The store implements the append-only log: until the medium damages the  *)
(* file every line parses and ends with a newline, so a write extends the  *)
(* log by one entry, a reply acknowledges an entry of the log, and every   *)
(* other step leaves the log alone.                                        *)
(***************************************************************************)

Undamaged == faults \intersect Damage = {}

LogInv ==
  /\ SequenceInv
  /\ LossInv
  /\ Undamaged => terminated /\ ~Unparsable /\ lost = {}

\* Only a damaged file has a line that does not parse or does not end.
LEMMA LogInvStep == LogInv /\ [Next]_vars => LogInv'
  <1> SUFFICES ASSUME LogInv, [Next]_vars, Undamaged'
               PROVE  terminated' /\ ~Unparsable' /\ lost' = {}
    BY SequenceStep, LossStep DEF LogInv
  <1>0. TypeOK
    BY DEF LogInv, SequenceInv
  <1>1. CASE WriteLine
    <2>1. terminated /\ ~Unparsable /\ terminated' /\ lost' = {}
      BY <1>1 DEF LogInv, WriteLine, Undamaged
    <2>2. /\ DOMAIN lines' = DOMAIN lines \union {Len(lines) + 1}
          /\ \A i \in DOMAIN lines : lines'[i] = lines[i]
          /\ lines'[Len(lines) + 1].text = "whole"
      BY <1>0, <1>1, <2>1, LinesWithEffect DEF WriteLine
    <2> QED
      BY <2>1, <2>2 DEF Unparsable
  <1>2. ASSUME NEW kind \in {"torn", "unterminated"}, WritePart(kind)
        PROVE  FALSE
    BY <1>2 DEF WritePart, Undamaged, Damage
  <1>3. ~HostCrash
    BY DEF HostCrash, Undamaged, Damage, HostFaults
  <1>4. CASE BeginAppend \/ IndexAndReply \/ Crash \/ Restart \/ Query \/ UNCHANGED vars
    BY <1>4 DEF LogInv, BeginAppend, IndexAndReply, Crash, LoseMemory, Restart,
                Query, vars, Undamaged, Unparsable
  <1>5. CASE WriteRefused
    BY <1>5 DEF LogInv, WriteRefused, Undamaged, Unparsable, Damage, HostFaults
  <1> QED
    BY <1>1, <1>2, <1>3, <1>4, <1>5 DEF Next

\* The log that the file stands for.
FileLog == [i \in DOMAIN lines |-> lines[i].entry]

\* Writing a line that parses extends that log by the entry.
LEMMA WriteExtends ==
  ASSUME LogInv, WriteLine, Undamaged
  PROVE  /\ Len(FileLog') = Len(FileLog) + 1
         /\ \A i \in DOMAIN FileLog :
              /\ FileLog'[i] = FileLog[i]
              /\ FileLog[i].seq < FileLog'[Len(FileLog')].seq
  <1>0. TypeOK /\ lines \in Seq(Line) /\ Len(lines) \in Nat
    BY DEF LogInv, SequenceInv, TypeOK
  <1>2. /\ DOMAIN lines' = DOMAIN lines \union {Len(lines) + 1}
        /\ \A i \in DOMAIN lines : lines'[i] = lines[i]
        /\ lines'[Len(lines) + 1].entry = entry
    BY <1>0, LinesWithEffect DEF LogInv, WriteLine
  <1>3. DOMAIN lines = 1 .. Len(lines) /\ DOMAIN lines' = 1 .. Len(lines) + 1
    BY <1>0, <1>2
  <1>4. Len(FileLog) = Len(lines) /\ Len(FileLog') = Len(lines) + 1
    <2>1. DOMAIN FileLog = 1 .. Len(lines) /\ DOMAIN FileLog' = 1 .. Len(lines) + 1
      BY <1>3 DEF FileLog
    <2> QED
      BY <1>0, <2>1
  <1>5. \A i \in DOMAIN lines : lines[i].entry.seq < entry.seq
    BY DEF LogInv, SequenceInv, WriteLine, Unparsable, Readable
  <1>6. FileLog'[Len(lines) + 1] = entry
    BY <1>0, <1>2, <1>3 DEF FileLog
  <1>7. \A i \in DOMAIN lines : FileLog[i] = lines[i].entry /\ FileLog'[i] = lines[i].entry
    BY <1>0, <1>2, <1>3 DEF FileLog
  <1> QED
    BY <1>4, <1>5, <1>6, <1>7 DEF FileLog

\* The evidence store implements the append-only log.
THEOREM ImplementsLog == Spec => LogSpec
  <1>1. Init => LogInv
    <2>1. Init => TypeOK
      BY DEF Init, TypeOK, Entry, Genesis
    <2>2. Init => /\ SequenceIncreasing /\ Readable = {} /\ pc = "idle"
                  /\ acked = {} /\ lost = {} /\ terminated /\ ~Unparsable
      BY DEF Init, SequenceIncreasing, Readable, Unparsable
    <2> QED
      BY <2>1, <2>2 DEF LogInv, SequenceInv, LossInv
  <1>2. LogInv /\ [Next]_vars => LogInv'
    BY LogInvStep
  <1>3. Init => Log!Init
    BY DEF Init, Log!Init
  <1>4. LogInv /\ [Next]_vars => [Log!Next]_(Log!logVars)
    <2> SUFFICES ASSUME LogInv, [Next]_vars, Undamaged, Undamaged'
                 PROVE  [Log!Next]_(Log!logVars)
      <3>1. ~Undamaged' => Log!Next
        BY DEF Log!Next, Log!Damaged, Undamaged
      <3>2. [Next]_vars => faults \subseteq faults'
        BY DEF Next, vars, BeginAppend, WriteLine, WriteRefused, WritePart,
               IndexAndReply, Crash, HostCrash, LoseMemory, Restart, Query
      <3> QED
        BY <3>1, <3>2 DEF Undamaged
    <2>1. CASE WriteLine
      BY <2>1, WriteExtends DEF Log!Next, Log!Extend, WriteLine, Undamaged, FileLog
    <2>2. CASE IndexAndReply
      <3>1. acked' \subseteq OnDisk
        BY <2>2 DEF LogInv, LossInv, IndexAndReply, Undamaged
      <3>2. OnDisk \subseteq Log!Logged
        BY DEF OnDisk, Readable, Log!Logged
      <3> QED
        BY <2>2, <3>1, <3>2 DEF Log!Next, Log!Acknowledge, IndexAndReply, Undamaged
    <2>3. CASE UNCHANGED <<lines, acked>>
      BY <2>3 DEF Log!logVars, Undamaged
    <2>4. \A kind \in {"torn", "unterminated"} : ~WritePart(kind)
      BY DEF WritePart, Undamaged, Damage
    <2>5. ~HostCrash
      BY DEF HostCrash, Undamaged, Damage, HostFaults
    <2> QED
      BY <2>1, <2>2, <2>3, <2>4, <2>5 DEF Next, BeginAppend, WriteRefused, Crash,
         LoseMemory, Restart, Query, vars
  <1> QED
    BY <1>1, <1>2, <1>3, <1>4, PTL DEF Spec, LogSpec, Log!Spec

-----------------------------------------------------------------------------
(***************************************************************************)
(* The index.  It holds the newest entries of the file; between the write  *)
(* and the reply it holds the newest of the others, and all of them are    *)
(* older than the entry that was written.                                  *)
(***************************************************************************)

\* No line was left half written or cut off, or without its newline.
WholeLines == faults \intersect {"torn", "unterminated", "tornByHost"} = {}

NewestOf(kept, all) ==
  /\ kept \subseteq all
  /\ \A e \in all \ kept : \A f \in kept : e.seq < f.seq

IndexInv ==
  /\ SequenceInv
  /\ WholeLines =>
       /\ terminated
       /\ ~Unparsable
       /\ pc = "down" => index = {}
       /\ pc \in {"idle", "prepared"} => NewestOf(index, OnDisk)
       /\ pc = "written" =>
            /\ entry \in OnDisk
            /\ NewestOf(index, OnDisk \ {entry})
            /\ \A e \in OnDisk \ {entry} : e.seq < entry.seq

\* Two entries of the file never have the same sequence number.
LEMMA EntriesDiffer ==
  ASSUME SequenceInv
  PROVE  \A e, f \in OnDisk : e.seq = f.seq => e = f
  <1> SUFFICES ASSUME NEW e \in OnDisk, NEW f \in OnDisk, e.seq = f.seq
               PROVE  e = f
    OBVIOUS
  <1>1. PICK i \in Readable : lines[i].entry = e
    BY DEF OnDisk
  <1>2. PICK j \in Readable : lines[j].entry = f
    BY DEF OnDisk
  <1>3. i \in Int /\ j \in Int
    BY DEF SequenceInv, TypeOK, Readable
  <1>4. e.seq \in Nat
    <2>1. \A x \in Entry : x.seq \in Nat
      BY DEF Entry
    <2> QED
      BY <1>1, <2>1, LineEntries DEF SequenceInv, Readable
  <1>5. ~(i < j) /\ ~(j < i)
    BY <1>1, <1>2, <1>4 DEF SequenceInv, SequenceIncreasing
  <1> QED
    BY <1>1, <1>2, <1>3, <1>5

\* If the oldest entry leaves a full index, what stays is newer than it and
\* than all that left before.
LEMMA EvictedKeepsNewest ==
  ASSUME SequenceInv,
         NEW all \in SUBSET OnDisk,
         NewestOf(index, all)
  PROVE  NewestOf(Evicted, all)
  <1>1. index \subseteq all /\ Evicted \subseteq index
    BY DEF NewestOf, Evicted
  <1>2. \A e \in OnDisk : e.seq \in Nat
    <2>1. \A x \in Entry : x.seq \in Nat
      BY DEF Entry
    <2> QED
      BY <2>1, LineEntries DEF SequenceInv, OnDisk, Readable
  <1>3. ASSUME NEW e \in index \ Evicted, NEW f \in Evicted
        PROVE  e.seq < f.seq
    <2>1. e.seq <= f.seq
      BY <1>1, <1>2, <1>3 DEF Evicted
    <2>2. e # f
      BY <1>3
    <2> QED
      BY <1>1, <1>2, <2>1, <2>2, EntriesDiffer
  <1> QED
    BY <1>1, <1>3 DEF NewestOf

\* Every step keeps the newest entries in the index.
LEMMA IndexStep == IndexInv /\ [Next]_vars => IndexInv'
  <1> SUFFICES ASSUME IndexInv, [Next]_vars, WholeLines'
               PROVE  IndexInv'
    BY SequenceStep DEF IndexInv
  <1>0. /\ SequenceInv
        /\ SequenceInv'
        /\ lines \in Seq(Line)
        /\ Len(lines) \in Nat
    BY SequenceStep DEF IndexInv, SequenceInv, TypeOK
  <1>w. WholeLines
    <2>1. faults \subseteq faults'
      BY DEF Next, vars, BeginAppend, WriteLine, WriteRefused, WritePart,
             IndexAndReply, Crash, HostCrash, LoseMemory, Restart, Query
    <2> QED
      BY <2>1 DEF WholeLines
  <1>1. ASSUME UNCHANGED lines
        PROVE  UNCHANGED <<OnDisk, Unparsable>>
    BY <1>1 DEF OnDisk, Unparsable, Readable
  <1>2. CASE BeginAppend
    BY <1>0, <1>w, <1>1, <1>2 DEF IndexInv, BeginAppend
  <1>3. CASE WriteLine
    <2>1. /\ terminated
          /\ ~Unparsable
          /\ NewestOf(index, OnDisk)
      BY <1>w, <1>3 DEF IndexInv, WriteLine
    <2>4. ~Unparsable'
      <3>1. /\ DOMAIN lines' = DOMAIN lines \union {Len(lines) + 1}
            /\ \A i \in DOMAIN lines : lines'[i] = lines[i]
            /\ lines'[Len(lines) + 1].text = "whole"
        BY <1>0, <1>3, <2>1, LinesWithEffect DEF SequenceInv, WriteLine
      <3> QED
        BY <2>1, <3>1 DEF Unparsable
    <2>5. OnDisk' = OnDisk \union {entry}
      BY <1>0, <1>3, <2>4, LinesWithKeeps DEF SequenceInv, WriteLine
    <2>6. \A e \in OnDisk : e.seq < entry.seq
      BY <1>3 DEF IndexInv, SequenceInv, WriteLine, OnDisk
    <2>7. entry \notin OnDisk
      <3>1. entry.seq \in Nat
        BY <1>0 DEF SequenceInv, TypeOK, Entry
      <3> QED
        BY <2>6, <3>1
    <2>8. OnDisk' \ {entry} = OnDisk
      BY <2>5, <2>7
    <2> QED
      BY <1>0, <1>3, <2>1, <2>4, <2>5, <2>6, <2>8 DEF IndexInv, WriteLine, NewestOf
  <1>4. CASE WriteRefused
    BY <1>0, <1>w, <1>1, <1>4 DEF IndexInv, WriteRefused
  <1>5. \A kind \in {"torn", "unterminated"} : ~WritePart(kind)
    BY DEF WritePart, WholeLines
  <1>6. CASE IndexAndReply
    <2>1. /\ terminated
          /\ ~Unparsable
          /\ entry \in OnDisk
          /\ NewestOf(index, OnDisk \ {entry})
          /\ \A e \in OnDisk \ {entry} : e.seq < entry.seq
      BY <1>w, <1>6 DEF IndexInv, IndexAndReply
    <2>2. NewestOf(Evicted, OnDisk \ {entry})
      BY <1>0, <2>1, EvictedKeepsNewest
    <2>3. NewestOf(Evicted \union {entry}, OnDisk)
      BY <2>1, <2>2 DEF NewestOf
    <2> QED
      BY <1>0, <1>1, <1>6, <2>1, <2>3 DEF IndexInv, IndexAndReply
  <1>7. CASE Crash
    BY <1>0, <1>w, <1>1, <1>7 DEF IndexInv, Crash, LoseMemory
  <1>8. CASE HostCrash
    <2>1. /\ terminated'
          /\ DOMAIN lines' \subseteq DOMAIN lines
          /\ \A i \in DOMAIN lines' : lines'[i] = lines[i]
      BY <1>0, <1>8, HostCrashEffect DEF SequenceInv, WholeLines
    <2>2. ~Unparsable'
      BY <1>w, <2>1 DEF IndexInv, Unparsable
    <2> QED
      BY <1>0, <1>8, <2>1, <2>2 DEF IndexInv, HostCrash, LoseMemory
  <1>9. CASE Restart
    <2>1. NewestOf(OnDisk, OnDisk)
      BY DEF NewestOf
    <2> QED
      BY <1>0, <1>w, <1>1, <1>9, <2>1 DEF IndexInv, Restart
  <1>10. CASE Query \/ UNCHANGED vars
    <2>1. UNCHANGED <<lines, terminated, pc, entry, index, OnDisk, Unparsable>>
      BY <1>1, <1>10 DEF Query, vars
    <2> QED
      BY <1>0, <1>w, <2>1 DEF IndexInv
  <1> QED
    BY <1>2, <1>3, <1>4, <1>5, <1>6, <1>7, <1>8, <1>9, <1>10 DEF Next

\* Between requests the bounded index holds entries of the file, and none
\* that it leaves out is newer than one it holds (list_evidence).
THEOREM IndexesAreNewest == Spec => []IndexIsNewest
  <1>1. Init => IndexInv
    <2>1. Init => TypeOK
      BY DEF Init, TypeOK, Entry, Genesis
    <2>2. Init => /\ SequenceIncreasing /\ Readable = {} /\ pc = "idle"
                  /\ terminated /\ ~Unparsable
      BY DEF Init, SequenceIncreasing, Readable, Unparsable
    <2>3. Init => index = {} /\ OnDisk = {}
      BY DEF Init, OnDisk, Readable
    <2> QED
      BY <2>1, <2>2, <2>3 DEF IndexInv, SequenceInv, NewestOf
  <1>2. IndexInv /\ [Next]_vars => IndexInv'
    BY IndexStep
  <1>3. IndexInv => IndexIsNewest
    BY DEF IndexInv, IndexIsNewest, WholeLines, NewestOf
  <1> QED
    BY <1>1, <1>2, <1>3, PTL DEF Spec

-----------------------------------------------------------------------------
(***************************************************************************)
(* A broken chain.  Only a write or the host going down changes the file;  *)
(* a write adds a line behind those that are there, or makes the last of   *)
(* them one that does not parse.                                           *)
(***************************************************************************)

\* Writing behind a chain that does not verify never makes it verify.
LEMMA WritesDoNotRepair ==
  ASSUME TypeOK, NEW text \in {"whole", "part"}, lines' = LinesWith(text), ~VerifyValid
  PROVE  ~VerifyValid'
  <1>1. CASE terminated
    <2>1. /\ DOMAIN lines \subseteq DOMAIN lines'
          /\ \A i \in DOMAIN lines : lines'[i] = lines[i]
      BY <1>1, LinesWithEffect
    <2>2. \A i \in DOMAIN lines : i # 1 => i - 1 \in DOMAIN lines
      BY DEF TypeOK
    <2> QED
      BY <2>1, <2>2 DEF VerifyValid
  <1>2. CASE ~terminated
    <2>1. Len(lines) \in DOMAIN lines' /\ lines'[Len(lines)].text # "whole"
      BY <1>2, LinesWithEffect
    <2> QED
      BY <2>1 DEF VerifyValid
  <1> QED
    BY <1>1, <1>2 DEF TypeOK

\* What verify_chain rejected once it rejects for ever, whatever is
\* appended, crashes or is replayed; only a crash of the host that takes the
\* broken part away makes it pass again.
THEOREM BrokenChainsStayBroken == Spec => BrokenStaysBroken
  <1>1. TypeOK /\ [Next]_vars
          => [(~VerifyValid /\ ~HostCrash) => ~VerifyValid']_vars
    <2> SUFFICES ASSUME TypeOK, [Next]_vars, ~VerifyValid, ~HostCrash
                 PROVE  ~VerifyValid'
      OBVIOUS
    <2>1. CASE WriteLine
      BY <2>1, WritesDoNotRepair DEF WriteLine
    <2>2. ASSUME NEW kind \in {"torn", "unterminated"}, WritePart(kind)
          PROVE  ~VerifyValid'
      BY <2>2, WritesDoNotRepair DEF WritePart
    <2>3. CASE UNCHANGED lines
      BY <2>3 DEF VerifyValid
    <2> QED
      BY <2>1, <2>2, <2>3 DEF Next, BeginAppend, WriteRefused, IndexAndReply,
         Crash, LoseMemory, Restart, Query, vars
  <1> QED
    BY <1>1, TypeCorrect, PTL DEF Spec, BrokenStaysBroken

=============================================================================
