----------------------- MODULE ProducerRegistryProofs -----------------------
(***************************************************************************)
(* What TLAPS proves of ProducerRegistry, for any set of producers and any *)
(* number of changes and crashes.                                          *)
(*                                                                         *)
(* The argument: as long as every line parses, the file holds the log and  *)
(* at most one entry more, behind a missing newline (FileHoldsLog); so an  *)
(* entry that is written finds its producer's earlier ones in the log, and *)
(* never registers a producer again that was stopped (StopsStay); so the   *)
(* last entry of a stopped producer, which a replay goes by, is a stop.    *)
(***************************************************************************)
EXTENDS ProducerRegistry, TLAPS, SequenceTheorems, WellFoundedInduction

AllReadable(f) == \A i \in DOMAIN f : f[i].text = "whole"
Ended == {"suspended", "revoked"}

\* The entries the registry writes: what a stop says of its producer is that
\* it was stopped, and no entry says that a producer is absent.
Logged == {e \in Entries : /\ e.data.status # "absent"
                           /\ e.action \in Stops => e.data.status \in Ended}
Line == [entry : Logged, text : Texts]

TypeInv == TypeOK /\ file \in Seq(Line) /\ log \in Seq(Logged)

\* What was answered is in a file that parses.
AckedInFile ==
  (~tailLost /\ AllReadable(file)) =>
    \A e \in acked : \E i \in DOMAIN file : file[i].entry = e

\* A file that parses is the log and at most what a failed write left.
FileHoldsLog ==
  (up /\ AllReadable(file)) =>
    /\ Len(log) <= Len(file)
    /\ \A i \in DOMAIN log : file[i].entry = log[i]
    /\ terminated => Len(file) = Len(log)

\* Behind a stop of a producer a file that parses has only stops of it.
StopsStayIn(f) ==
  \A i, j \in DOMAIN f :
    /\ i <= j
    /\ f[i].entry.producer = f[j].entry.producer
    /\ f[i].entry.action \in Stops
    => f[j].entry.action \in Stops
StopsStay == (~tailLost /\ AllReadable(file)) => StopsStayIn(file)

\* The dictionary knows every stop that was answered.
StopsHeld ==
  (up /\ ~tailLost) =>
    \A e \in acked : e.action \in Stops => producers[e.producer].status \in Ended

\* The inductive invariant.
Inv == /\ TypeInv
       /\ AckedInFile
       /\ AckedInLog
       /\ FileHoldsLog
       /\ MemoryMatchesLog
       /\ StopsStay
       /\ StopsHeld

-----------------------------------------------------------------------------
(***************************************************************************)
(* Sequences, lines and entries.                                           *)
(***************************************************************************)

\* What Append does.
LEMMA AppendFacts ==
  ASSUME NEW S, NEW s \in Seq(S), NEW x \in S
  PROVE  /\ Append(s, x) \in Seq(S)
         /\ Len(Append(s, x)) = Len(s) + 1
         /\ DOMAIN Append(s, x) = 1 .. Len(s) + 1
         /\ DOMAIN s = 1 .. Len(s)
         /\ Len(s) \in Nat
         /\ \A i \in 1 .. Len(s) : Append(s, x)[i] = s[i]
         /\ Append(s, x)[Len(s) + 1] = x
  OBVIOUS

\* A sequence over a smaller set.
LEMMA SeqSub ==
  ASSUME NEW S, NEW R, S \subseteq R, NEW s \in Seq(S)
  PROVE  s \in Seq(R)
  OBVIOUS

LEMMA LineTypes ==
  /\ Logged \subseteq Entries
  /\ Line \subseteq [entry : Entries, text : Texts]
  BY DEF Logged, Line

\* Writing on the file: a line of its own, or one that parses no more.
LEMMA FileWithFacts ==
  ASSUME TypeInv, NEW e \in Logged, NEW text \in {"whole", "part"}
  PROVE  /\ FileWith(e, text) \in Seq(Line)
         /\ FileWith(e, text) # <<>>
         /\ terminated => FileWith(e, text) = Append(file, [entry |-> e, text |-> text])
         /\ ~terminated => ~AllReadable(FileWith(e, text))
  <1>0. file \in Seq(Line)
    BY DEF TypeInv
  <1>1. CASE terminated
    <2>1. [entry |-> e, text |-> text] \in Line
      BY DEF Line, Texts
    <2> QED
      BY <1>0, <1>1, <2>1 DEF FileWith
  <1>2. CASE ~terminated
    <2>1. Len(file) \in 1 .. Len(file)
      BY <1>0, <1>2 DEF TypeInv, TypeOK
    <2> DEFINE torn == [file[Len(file)] EXCEPT !.text = IF @ = "part" THEN "part" ELSE "joined"]
               f == FileWith(e, text)
    <2>2. file[Len(file)] \in Line
      BY <1>0, <2>1
    <2>3. torn \in Line /\ torn.text # "whole"
      BY <2>2 DEF Line, Texts
    <2>4. f = [file EXCEPT ![Len(file)] = torn]
      BY <1>2 DEF FileWith
    <2> HIDE DEF torn, f
    <2>5. /\ f \in Seq(Line)
          /\ Len(f) = Len(file)
          /\ f[Len(file)] = torn
      BY <1>0, <2>1, <2>3, <2>4, ExceptSeq
    <2>6. DOMAIN f = 1 .. Len(file)
      BY <2>5
    <2>7. ~AllReadable(f)
      BY <2>1, <2>3, <2>5, <2>6 DEF AllReadable
    <2>8. f # <<>>
      BY <2>1, <2>6
    <2> QED
      BY <1>2, <2>5, <2>7, <2>8 DEF f
  <1> QED
    BY <1>1, <1>2

\* A host crash leaves the lines in front of the cut, and a file that does not
\* end with a newline is not empty.
LEMMA HostCrashFile ==
  ASSUME TypeInv, HostCrash
  PROVE  /\ file' \in Seq(Line)
         /\ ~terminated' => file' # <<>>
  <1>0. file \in Seq(Line)
    BY DEF TypeInv
  <1>1. PICK kept \in 0 .. Len(file) - 1 :
          \/ file' = SubSeq(file, 1, kept) /\ terminated' = TRUE
          \/ \E text \in Cut(file[kept + 1].text) :
               file' = [SubSeq(file, 1, kept + 1) EXCEPT ![kept + 1].text = text]
    BY DEF HostCrash
  <1>2. CASE file' = SubSeq(file, 1, kept) /\ terminated' = TRUE
    BY <1>0, <1>2
  <1>3. ASSUME NEW text \in Cut(file[kept + 1].text),
               file' = [SubSeq(file, 1, kept + 1) EXCEPT ![kept + 1].text = text]
        PROVE  file' \in Seq(Line) /\ file' # <<>>
    <2> DEFINE s == SubSeq(file, 1, kept + 1)
               line == [s[kept + 1] EXCEPT !.text = text]
    <2>1. /\ s \in Seq(Line) /\ Len(s) = kept + 1 /\ kept + 1 \in 1 .. Len(s)
          /\ s[kept + 1] = file[kept + 1] /\ file[kept + 1] \in Line
      BY <1>0
    <2>2. line \in Line
      BY <1>3, <2>1 DEF Line, Texts, Cut
    <2>3. file' = [s EXCEPT ![kept + 1] = line]
      BY <1>3
    <2> HIDE DEF s, line
    <2>4. file' \in Seq(Line) /\ Len(file') = Len(s)
      BY <2>1, <2>2, <2>3, ExceptSeq
    <2> QED
      BY <2>1, <2>4
  <1> QED
    BY <1>1, <1>2, <1>3

\* The entries of the lines of a file.
LEMMA EntriesSeq ==
  ASSUME NEW f \in Seq(Line)
  PROVE  LET entries == [i \in DOMAIN f |-> f[i].entry] IN
         /\ entries \in Seq(Logged)
         /\ DOMAIN entries = DOMAIN f
         /\ Len(entries) = Len(f)
  <1>1. \A i \in 1 .. Len(f) : f[i].entry \in Logged
    <2> TAKE i \in 1 .. Len(f)
    <2>1. f[i] \in Line
      OBVIOUS
    <2> QED
      BY <2>1 DEF Line
  <1>2. DOMAIN f = 1 .. Len(f) /\ Len(f) \in Nat
    OBVIOUS
  <1> QED
    BY <1>1, <1>2

\* A set of positions that is not empty has a last one.
LEMMA LastExists ==
  ASSUME NEW s \in Seq(Logged), NEW p, EntriesOf(p, s) # {}
  PROVE  /\ LastOf(p, s) \in EntriesOf(p, s)
         /\ \A j \in EntriesOf(p, s) : j <= LastOf(p, s)
  <1> DEFINE P == EntriesOf(p, s)
             Back == {Len(s) - j : j \in P}
  <1>1. Len(s) \in Nat /\ P \subseteq 1 .. Len(s)
    BY DEF EntriesOf
  <1>2. Back \subseteq Nat /\ Back # {}
    BY <1>1
  <1>3. PICK b \in Back : \A x \in Back : ~(<<x, b>> \in OpToRel(<, Nat))
    BY <1>2, NatLessThanWellFounded, WFMin
  <1>4. PICK i \in P : b = Len(s) - i
    BY <1>3
  <1>5. ASSUME NEW j \in P
        PROVE  j <= i
    <2>1. Len(s) - j \in Back
      BY <1>5
    <2>2. ~(Len(s) - j < b)
      BY <1>2, <1>3, <2>1 DEF OpToRel
    <2> QED
      BY <1>1, <1>4, <2>2
  <1> QED
    BY <1>4, <1>5 DEF LastOf

\* One entry more.
Extends(s, e, t) == t = Append(s, e)

\* The last entry of a producer behind one entry more.
LEMMA LastAfterAppend ==
  ASSUME NEW s \in Seq(Logged), NEW e \in Logged, NEW p,
         NEW t, Extends(s, e, t)
  PROVE  /\ e.producer = p =>
              /\ EntriesOf(p, t) # {}
              /\ t[LastOf(p, t)] = e
         /\ e.producer # p =>
              /\ EntriesOf(p, t) = EntriesOf(p, s)
              /\ EntriesOf(p, s) # {} =>
                   t[LastOf(p, t)] = s[LastOf(p, s)]
  <1>1. /\ t \in Seq(Logged)
        /\ DOMAIN t = 1 .. Len(s) + 1
        /\ DOMAIN s = 1 .. Len(s)
        /\ Len(s) \in Nat
        /\ \A i \in 1 .. Len(s) : t[i] = s[i]
        /\ t[Len(s) + 1] = e
    BY AppendFacts DEF Extends
  <1>2. CASE e.producer = p
    <2>1. Len(s) + 1 \in EntriesOf(p, t)
      BY <1>1, <1>2 DEF EntriesOf
    <2>2. LastOf(p, t) \in EntriesOf(p, t) /\ Len(s) + 1 <= LastOf(p, t)
      BY <1>1, <2>1, LastExists
    <2>3. LastOf(p, t) = Len(s) + 1
      BY <1>1, <2>2 DEF EntriesOf
    <2> QED
      BY <1>1, <1>2, <2>1, <2>3
  <1>3. CASE e.producer # p
    <2>1. EntriesOf(p, t) = EntriesOf(p, s)
      BY <1>1, <1>3 DEF EntriesOf
    <2>2. LastOf(p, t) = LastOf(p, s)
      BY <2>1 DEF LastOf
    <2>3. EntriesOf(p, s) # {} => LastOf(p, s) \in 1 .. Len(s)
      BY <1>1, LastExists DEF EntriesOf
    <2> QED
      BY <1>1, <1>3, <2>1, <2>2, <2>3
  <1> QED
    BY <1>2, <1>3

\* A history with one action more is a strict extension of what it extended.
LEMMA StoppedExtends ==
  ASSUME NEW h \in Seq(Stops), NEW g \in Seq(Stops), NEW action \in Stops,
         h = g \/ IsStrictPrefix(h, g)
  PROVE  IsStrictPrefix(h, Append(g, action))
  <1>1. Len(h) <= Len(g) /\ SubSeq(h, 1, Len(h)) = SubSeq(g, 1, Len(h))
    BY DEF IsStrictPrefix, IsPrefix
  <1>2. SubSeq(Append(g, action), 1, Len(h)) = SubSeq(g, 1, Len(h))
    BY <1>1
  <1>3. Len(h) <= Len(Append(g, action)) /\ h # Append(g, action)
    BY <1>1
  <1> QED
    BY <1>1, <1>2, <1>3 DEF IsStrictPrefix, IsPrefix

-----------------------------------------------------------------------------
(***************************************************************************)
(* The type, and what every step does to the file and to the log.          *)
(***************************************************************************)

\* What an entry that is written says.
LEMMA EntryFacts ==
  ASSUME TypeInv, NEW p \in Producers
  PROVE  /\ Entry("register", p, Fresh) \in Logged
         /\ \A action \in Stops :
              /\ Stopped(producers[p], action) \in Data
              /\ Stopped(producers[p], action).status \in Ended
              /\ Entry(action, p, Stopped(producers[p], action)) \in Logged
  <1>1. log \in Seq(Entries) /\ hashes \in Nat /\ producers[p] \in Data
    BY DEF TypeInv, TypeOK
  <1>2. LastHash \in Nat
    <2>1. CASE log = <<>>
      BY <2>1 DEF LastHash, Genesis
    <2>2. CASE log # <<>>
      <3>1. Len(log) \in 1 .. Len(log)
        BY <1>1, <2>2
      <3>2. log[Len(log)] \in Entries
        BY <1>1, <3>1
      <3> QED
        BY <2>2, <3>2 DEF LastHash, Entries
    <2> QED
      BY <2>1, <2>2
  <1>3. Len(log) \in Nat /\ hashes + 1 \in Nat
    BY <1>1
  <1>4. <<>> \in Seq(Stops)
    OBVIOUS
  <1>5. Fresh \in Data /\ Fresh.status # "absent"
    BY <1>4 DEF Fresh, Data
  <1>6. ASSUME NEW action \in Stops
        PROVE  /\ Stopped(producers[p], action) \in Data
               /\ Stopped(producers[p], action).status \in Ended
    <2>1. producers[p].history \in Seq(Stops)
      BY <1>1 DEF Data
    <2>2. Append(producers[p].history, action) \in Seq(Stops)
      BY <2>1
    <2> QED
      BY <2>2 DEF Stopped, Status, Stops, Data, Ended
  <1>7. Entry("register", p, Fresh) \in Logged
    BY <1>2, <1>3, <1>5 DEF Entry, Entries, Logged, Stops
  <1>8. ASSUME NEW action \in Stops
        PROVE  Entry(action, p, Stopped(producers[p], action)) \in Logged
    <2> DEFINE d == Stopped(producers[p], action)
    <2>1. d \in Data /\ d.status \in Ended /\ d.status # "absent"
      BY <1>6 DEF Ended
    <2> HIDE DEF d
    <2>2. Entry(action, p, d) \in Logged
      BY <1>2, <1>3, <2>1 DEF Entry, Entries, Logged
    <2> QED
      BY <2>2 DEF d
  <1> QED
    BY <1>6, <1>7, <1>8

\* A change that is logged: the entry, its producer and what it may be.
Change(e) ==
  /\ e \in Logged
  /\ e.action = "register" => producers[e.producer] = Absent
  /\ e.action \in Stops => producers[e.producer] # Absent

\* Every step writes one entry, cuts the file, replays it, or leaves the file
\* and the log alone.
Logs(e) ==
  /\ up /\ up' /\ Change(e)
  /\ file' = FileWith(e, "whole") /\ terminated'
  /\ log' = Append(log, e)
  /\ producers' = [producers EXCEPT ![e.producer] = e.data]
  /\ acked' = acked \union {e}
  /\ tailLost' = tailLost
Fails(e) ==
  /\ up /\ up' /\ Change(e)
  /\ \/ UNCHANGED <<file, terminated>>
     \/ (\E text \in {"whole", "part"} : file' = FileWith(e, text)) /\ ~terminated'
  /\ \/ producers' = producers
     \/ /\ e.action \in Stops
        /\ e.data = Stopped(producers[e.producer], e.action)
        /\ producers' = [producers EXCEPT ![e.producer] = e.data]
  /\ UNCHANGED <<log, acked, tailLost>>
Dies ==
  /\ ~up'
  /\ \/ /\ UNCHANGED <<file, tailLost>>
     \/ /\ up /\ tailLost' = tailLost
        /\ \E e : Change(e) /\ file' = FileWith(e, "whole")
     \/ tailLost' /\ file' \in Seq(Line)
  /\ log' = <<>>
  /\ UNCHANGED acked
Replays ==
  /\ ~up /\ up' /\ Replayable
  /\ log' = [i \in DOMAIN file |-> file[i].entry]
  /\ producers' = [p \in Producers |-> Replayed(p, log')]
  /\ UNCHANGED <<file, terminated, acked, tailLost>>

\* The steps are of these kinds.
LEMMA Kinds ==
  ASSUME TypeInv, [Next]_vars
  PROVE  \/ \E e : Logs(e) \/ Fails(e)
         \/ Dies
         \/ Replays
         \/ UNCHANGED vars
  <1>0. producers \in [Producers -> Data] /\ "register" \notin Stops
    BY DEF TypeInv, TypeOK, Stops
  <1>1. ASSUME NEW p \in Producers, Register(p)
        PROVE  Logs(Entry("register", p, Fresh))
    BY <1>0, <1>1, EntryFacts
       DEF Register, BeginChange, AppendLog, Logs, Change, Entry
  <1>2. ASSUME NEW p \in Producers, RegisterFails(p)
        PROVE  Fails(Entry("register", p, Fresh))
    BY <1>0, <1>2, EntryFacts
       DEF RegisterFails, BeginChange, AppendFails, Fails, Change, Entry
  <1>3. ASSUME NEW p \in Producers, NEW action \in Stops
        PROVE  LET e == Entry(action, p, Stopped(producers[p], action)) IN
               /\ e \in Logged
               /\ e.action = action /\ e.producer = p
               /\ e.data = Stopped(producers[p], action)
               /\ e.action # "register"
    BY <1>0, EntryFacts DEF Entry
  <1>4. ASSUME NEW p \in Producers, NEW action \in Stops, Stop(p, action)
        PROVE  Logs(Entry(action, p, Stopped(producers[p], action)))
    BY <1>3, <1>4
       DEF Stop, ChangeStatus, BeginChange, AppendLog, Logs, Change
  <1>5. ASSUME NEW p \in Producers, NEW action \in Stops, StopFails(p, action)
        PROVE  Fails(Entry(action, p, Stopped(producers[p], action)))
    <2> DEFINE e == Entry(action, p, Stopped(producers[p], action))
    <2>1. /\ e \in Logged /\ e.action = action /\ e.producer = p
          /\ e.data = Stopped(producers[p], action) /\ e.action # "register"
      BY <1>3
    <2>2. AppendFails(e)
      BY <1>5 DEF StopFails
    <2> HIDE DEF e
    <2>3. /\ up /\ up' /\ producers[p] # Absent
          /\ producers' = [producers EXCEPT ![p] = Stopped(producers[p], action)]
      BY <1>5 DEF StopFails, ChangeStatus, BeginChange
    <2>4. Change(e)
      BY <2>1, <2>3 DEF Change
    <2>5. Fails(e)
      BY <2>1, <2>2, <2>3, <2>4 DEF AppendFails, Fails
    <2> QED
      BY <2>5 DEF e
  <1>6. ASSUME NEW p \in Producers, CrashAfterWrite(p)
        PROVE  Dies
    <2>1. CASE producers[p] = Absent /\ file' = FileWith(Entry("register", p, Fresh), "whole")
      <3>1. Change(Entry("register", p, Fresh))
        BY <1>0, <2>1, EntryFacts DEF Change, Entry
      <3> QED
        BY <1>6, <2>1, <3>1 DEF CrashAfterWrite, LoseMemory, Dies
    <2>2. ASSUME NEW action \in Stops, producers[p] # Absent,
                 file' = FileWith(Entry(action, p, Stopped(producers[p], action)), "whole")
          PROVE  Dies
      <3>1. Change(Entry(action, p, Stopped(producers[p], action)))
        BY <1>3, <2>2 DEF Change
      <3> QED
        BY <1>6, <2>2, <3>1 DEF CrashAfterWrite, LoseMemory, Dies
    <2> QED
      BY <1>6, <2>1, <2>2 DEF CrashAfterWrite
  <1>7. Crash => Dies
    BY DEF Crash, LoseMemory, Dies
  <1>8. HostCrash => Dies
    BY HostCrashFile DEF HostCrash, LoseMemory, Dies
  <1>9. Restart => Replays
    BY DEF Restart, Replays
  <1>10. RefuseStart \/ Query => UNCHANGED vars
    BY DEF RefuseStart, Query
  <1>11. CASE \E p \in Producers : Register(p) \/ RegisterFails(p) \/ CrashAfterWrite(p)
    BY <1>1, <1>2, <1>6, <1>11
  <1>12. CASE \E p \in Producers, action \in Stops : Stop(p, action) \/ StopFails(p, action)
    BY <1>4, <1>5, <1>12
  <1> QED
    BY <1>7, <1>8, <1>9, <1>10, <1>11, <1>12, Zenon DEF Next

\* The type invariant holds at the start.
LEMMA InitType == Init => TypeInv
  <1> SUFFICES ASSUME Init PROVE TypeInv
    OBVIOUS
  <1>1. /\ <<>> \in Seq(Line) /\ <<>> \in Seq(Logged) /\ <<>> \in Seq(Stops)
        /\ <<>> \in Seq(Entries) /\ <<>> \in Seq([entry : Entries, text : Texts])
    OBVIOUS
  <1>2. Absent \in Data
    BY <1>1 DEF Absent, Data
  <1> QED
    BY <1>1, <1>2 DEF Init, TypeInv, TypeOK

\* Every step keeps the types of the file and of the log.
LEMMA NextLogType ==
  ASSUME TypeInv, [Next]_vars
  PROVE  /\ file' \in Seq(Line)
         /\ log' \in Seq(Logged)
  <1>0. file \in Seq(Line) /\ log \in Seq(Logged)
    BY DEF TypeInv
  <1>1. ASSUME NEW e, Logs(e)
        PROVE  file' \in Seq(Line) /\ log' \in Seq(Logged)
    <2>1. e \in Logged
      BY <1>1 DEF Logs, Change
    <2> QED
      BY <1>0, <1>1, <2>1, FileWithFacts, AppendFacts DEF Logs
  <1>2. ASSUME NEW e, Fails(e)
        PROVE  file' \in Seq(Line) /\ log' \in Seq(Logged)
    <2>1. e \in Logged
      BY <1>2 DEF Fails, Change
    <2> QED
      BY <1>0, <1>2, <2>1, FileWithFacts DEF Fails
  <1>3. CASE Dies
    <2>1. ASSUME NEW e, Change(e), file' = FileWith(e, "whole")
          PROVE  file' \in Seq(Line)
      BY <2>1, FileWithFacts DEF Change
    <2>2. log' \in Seq(Logged)
      BY <1>3 DEF Dies
    <2> QED
      BY <1>0, <1>3, <2>1, <2>2 DEF Dies
  <1>4. CASE Replays
    BY <1>0, <1>4, EntriesSeq DEF Replays
  <1>5. CASE UNCHANGED vars
    BY <1>0, <1>5 DEF vars
  <1> QED
    BY <1>1, <1>2, <1>3, <1>4, <1>5, Kinds

\* What a producer is after a replay.
LEMMA ReplayedType ==
  ASSUME NEW s \in Seq(Logged), NEW p
  PROVE  /\ Replayed(p, s) \in Data
         /\ EntriesOf(p, s) # {} =>
              /\ LastOf(p, s) \in DOMAIN s
              /\ s[LastOf(p, s)] \in Logged
  <1>1. CASE EntriesOf(p, s) = {}
    <2>1. <<>> \in Seq(Stops)
      OBVIOUS
    <2> QED
      BY <1>1, <2>1 DEF Replayed, Absent, Data
  <1>2. CASE EntriesOf(p, s) # {}
    <2>1. LastOf(p, s) \in DOMAIN s
      BY <1>2, LastExists DEF EntriesOf
    <2>2. s[LastOf(p, s)] \in Logged
      BY <2>1
    <2> QED
      BY <1>2, <2>1, <2>2 DEF Replayed, Logged, Entries
  <1> QED
    BY <1>1, <1>2

\* Every step keeps the type.
LEMMA NextType == TypeInv /\ [Next]_vars => TypeInv'
  <1> SUFFICES ASSUME TypeInv, [Next]_vars
               PROVE  TypeOK'
    BY NextLogType DEF TypeInv
  <1>0. TypeOK /\ file \in Seq(Line) /\ log \in Seq(Logged)
    BY DEF TypeInv
  <1>1. /\ file' \in Seq([entry : Entries, text : Texts])
        /\ log' \in Seq(Entries)
    <2>1. file' \in Seq(Line) /\ log' \in Seq(Logged)
      BY NextLogType
    <2> QED
      BY <2>1, LineTypes, SeqSub
  <1> DEFINE Rest == /\ terminated' \in BOOLEAN
                     /\ ~terminated' => file' # <<>>
                     /\ up' \in BOOLEAN
                     /\ producers' \in [Producers -> Data]
                     /\ edited' \subseteq DOMAIN log'
                     /\ shared' \in [Producers -> DOMAIN log' \union {0}]
                     /\ acked' \subseteq Entries
                     /\ hashes' \in Nat
                     /\ restarts' \in Nat
                     /\ tailLost' \in BOOLEAN
  <1>2. \A e \in Logged :
          /\ e \in Entries
          /\ DOMAIN log \subseteq DOMAIN Append(log, e)
          /\ \A text \in {"whole", "part"} : FileWith(e, text) # <<>>
    <2> TAKE e \in Logged
    <2>1. DOMAIN log = 1 .. Len(log) /\ Len(log) \in Nat
          /\ DOMAIN Append(log, e) = 1 .. Len(log) + 1
      BY <1>0, AppendFacts
    <2>2. DOMAIN log \subseteq DOMAIN Append(log, e)
      BY <2>1
    <2>3. \A text \in {"whole", "part"} : FileWith(e, text) # <<>>
      BY FileWithFacts
    <2> QED
      BY <2>2, <2>3, LineTypes
  <1>2a. ASSUME NEW e \in Logged, AppendFails(e)
         PROVE  /\ terminated' \in BOOLEAN
                /\ ~terminated' => file' # <<>>
                /\ log' = log
                /\ acked' = acked
                /\ restarts' = restarts
                /\ tailLost' = tailLost
    <2>1. CASE UNCHANGED <<file, terminated>>
      BY <1>0, <1>2a, <2>1 DEF TypeOK, AppendFails
    <2>2. ASSUME NEW text \in {"whole", "part"}, file' = FileWith(e, text), terminated' = FALSE
          PROVE  terminated' \in BOOLEAN /\ (~terminated' => file' # <<>>)
      BY <1>2, <2>2
    <2> QED
      BY <1>2a, <2>1, <2>2 DEF AppendFails
  <1>3. ASSUME NEW p \in Producers, Register(p)
        PROVE  Rest
    <2> DEFINE e == Entry("register", p, Fresh)
    <2>1. e \in Logged /\ Fresh \in Data
      <3>1. <<>> \in Seq(Stops)
        OBVIOUS
      <3> QED
        BY <3>1, EntryFacts DEF Fresh, Data
    <2> HIDE DEF e
    <2>2. AppendLog(e) /\ acked' = acked \union {e}
      BY <1>3 DEF Register, e
    <2> QED
      BY <1>0, <1>2, <1>3, <2>1, <2>2 DEF TypeOK, Register, BeginChange, AppendLog
  <1>4. ASSUME NEW p \in Producers, RegisterFails(p)
        PROVE  Rest
    <2> DEFINE e == Entry("register", p, Fresh)
    <2>1. e \in Logged
      BY EntryFacts
    <2> HIDE DEF e
    <2>2. AppendFails(e)
      BY <1>4 DEF RegisterFails, e
    <2> QED
      BY <1>0, <1>4, <1>2a, <2>1, <2>2 DEF TypeOK, RegisterFails, BeginChange
  <1>5. ASSUME NEW p \in Producers, NEW action \in Stops, ChangeStatus(p, action)
        PROVE  /\ up' \in BOOLEAN
               /\ hashes' \in Nat
               /\ producers' \in [Producers -> Data]
               /\ edited' \subseteq DOMAIN log
               /\ shared' = shared
    <2>1. Stopped(producers[p], action) \in Data
      BY EntryFacts
    <2> QED
      BY <1>0, <1>5, <2>1 DEF TypeOK, ChangeStatus, BeginChange
  <1>6. ASSUME NEW p \in Producers, NEW action \in Stops, Stop(p, action)
        PROVE  Rest
    <2> DEFINE e == Entry(action, p, Stopped(producers[p], action))
    <2>1. e \in Logged
      BY EntryFacts
    <2> HIDE DEF e
    <2>2. AppendLog(e) /\ acked' = acked \union {e} /\ ChangeStatus(p, action)
      BY <1>6 DEF Stop, e
    <2> QED
      BY <1>0, <1>2, <1>5, <2>1, <2>2 DEF TypeOK, AppendLog
  <1>7. ASSUME NEW p \in Producers, NEW action \in Stops, StopFails(p, action)
        PROVE  Rest
    <2> DEFINE e == Entry(action, p, Stopped(producers[p], action))
    <2>1. e \in Logged
      BY EntryFacts
    <2> HIDE DEF e
    <2>2. AppendFails(e) /\ ChangeStatus(p, action)
      BY <1>7 DEF StopFails, e
    <2> QED
      BY <1>0, <1>5, <1>2a, <2>1, <2>2 DEF TypeOK
  <1>8. ASSUME LoseMemory
        PROVE  /\ up' \in BOOLEAN
               /\ restarts' \in Nat
               /\ producers' \in [Producers -> Data]
               /\ edited' \subseteq DOMAIN log'
               /\ shared' \in [Producers -> DOMAIN log' \union {0}]
               /\ acked' \subseteq Entries
    <2>1. <<>> \in Seq(Stops)
      OBVIOUS
    <2>2. Absent \in Data
      BY <2>1 DEF Absent, Data
    <2>3. /\ producers' = [p \in Producers |-> Absent]
          /\ shared' = [p \in Producers |-> 0]
          /\ edited' = {} /\ up' = FALSE /\ restarts' = restarts + 1
          /\ acked' = acked
      BY <1>8 DEF LoseMemory
    <2>4. producers' \in [Producers -> Data]
      BY <2>2, <2>3
    <2>5. shared' \in [Producers -> DOMAIN log' \union {0}]
      BY <2>3
    <2>6. restarts' \in Nat /\ acked' \subseteq Entries
      BY <1>0, <2>3 DEF TypeOK
    <2>7. edited' \subseteq DOMAIN log' /\ up' \in BOOLEAN
      BY <2>3, Zenon
    <2> QED
      BY <2>4, <2>5, <2>6, <2>7
  <1>9. ASSUME NEW p \in Producers, CrashAfterWrite(p)
        PROVE  Rest
    BY <1>0, <1>8, <1>9 DEF TypeOK, CrashAfterWrite
  <1>10. ASSUME Crash PROVE Rest
    BY <1>0, <1>8, <1>10 DEF TypeOK, Crash
  <1>11. ASSUME HostCrash PROVE Rest
    <2>1. ~terminated' => file' # <<>>
      BY <1>11, HostCrashFile
    <2> QED
      BY <1>0, <1>8, <1>11, <2>1 DEF TypeOK, HostCrash
  <1>12. ASSUME Restart PROVE Rest
    <2>1. log' \in Seq(Logged)
      BY NextLogType
    <2>2. producers' = [p \in Producers |-> Replayed(p, log')]
      BY <1>12 DEF Restart
    <2>3. shared' = [p \in Producers |-> IF EntriesOf(p, log') = {} THEN 0 ELSE LastOf(p, log')]
      BY <1>12 DEF Restart
    <2>4. /\ producers' \in [Producers -> Data]
          /\ shared' \in [Producers -> DOMAIN log' \union {0}]
      <3> HIDE DEF Rest
      <3>1. \A p \in Producers : Replayed(p, log') \in Data
        BY <2>1, ReplayedType
      <3>2. \A p \in Producers : EntriesOf(p, log') # {} => LastOf(p, log') \in DOMAIN log'
        BY <2>1, ReplayedType
      <3>3. producers' \in [Producers -> Data]
        BY <2>2, <3>1
      <3>4. shared' \in [Producers -> DOMAIN log' \union {0}]
        BY <2>3, <3>2
      <3> QED
        BY <3>3, <3>4
    <2> QED
      BY <1>0, <1>12, <2>4 DEF TypeOK, Restart
  <1>13. ASSUME UNCHANGED vars PROVE Rest
    BY <1>0, <1>13 DEF TypeOK, vars
  <1>14. Rest
    <2>1. CASE \E p \in Producers : Register(p) \/ RegisterFails(p) \/ CrashAfterWrite(p)
      BY <1>3, <1>4, <1>9, <2>1
    <2>2. CASE \E p \in Producers, action \in Stops : Stop(p, action) \/ StopFails(p, action)
      BY <1>6, <1>7, <2>2
    <2>3. RefuseStart \/ Query => UNCHANGED vars
      BY DEF RefuseStart, Query
    <2> HIDE DEF Rest
    <2> QED
      BY <1>10, <1>11, <1>12, <1>13, <2>1, <2>2, <2>3, Zenon DEF Next
  <1> QED
    BY <1>1, <1>14 DEF TypeOK

\* Every variable keeps its shape, and the entries of the log and of the file
\* say of a stopped producer that it was stopped.
THEOREM TypeCorrect == Spec => []TypeOK
  <1>1. TypeInv => TypeOK
    BY DEF TypeInv
  <1> QED
    BY <1>1, InitType, NextType, PTL DEF Spec

-----------------------------------------------------------------------------
(***************************************************************************)
(* The file and the log.                                                   *)
(***************************************************************************)

\* A write leaves a file that parses only on a file that parsed, as a line.
LEMMA ReadableAppend ==
  ASSUME TypeInv, NEW e \in Logged, NEW text \in {"whole", "part"},
         NEW f, f = FileWith(e, text), AllReadable(f)
  PROVE  /\ terminated /\ AllReadable(file)
         /\ Len(file) \in Nat /\ DOMAIN file = 1 .. Len(file)
         /\ Len(f) = Len(file) + 1 /\ DOMAIN f = 1 .. Len(file) + 1
         /\ \A i \in 1 .. Len(file) : f[i] = file[i]
         /\ f[Len(file) + 1].entry = e
  <1> DEFINE line == [entry |-> e, text |-> text]
  <1>1. file \in Seq(Line) /\ line \in Line /\ line.entry = e
    BY DEF TypeInv, Line, Texts
  <1> HIDE DEF line
  <1>2. terminated /\ f = Append(file, line)
    BY FileWithFacts DEF line
  <1>3. /\ Len(file) \in Nat /\ DOMAIN file = 1 .. Len(file)
        /\ Len(f) = Len(file) + 1 /\ DOMAIN f = 1 .. Len(file) + 1
        /\ \A i \in 1 .. Len(file) : f[i] = file[i]
        /\ f[Len(file) + 1] = line
    BY <1>1, <1>2, AppendFacts
  <1>4. AllReadable(file)
    BY <1>3 DEF AllReadable
  <1> QED
    BY <1>1, <1>2, <1>3, <1>4

\* A replay starts from a file that parses.
LEMMA ReplayableReads == Replayable => AllReadable(file)
  BY DEF Replayable, AllReadable

\* Every step keeps what was answered in a file that parses.
LEMMA NextAckedInFile ==
  ASSUME TypeInv, AckedInFile, [Next]_vars
  PROVE  AckedInFile'
  <1> SUFFICES ASSUME ~tailLost', AllReadable(file'), NEW x \in acked'
               PROVE  \E i \in DOMAIN file' : file'[i].entry = x
    BY DEF AckedInFile
  <1>1. ASSUME NEW e \in Logged, NEW text \in {"whole", "part"}, file' = FileWith(e, text),
               acked' \subseteq acked \union {e}, tailLost' = tailLost
        PROVE  \E i \in DOMAIN file' : file'[i].entry = x
    <2>1. /\ AllReadable(file)
          /\ Len(file) \in Nat /\ DOMAIN file = 1 .. Len(file)
          /\ DOMAIN file' = 1 .. Len(file) + 1
          /\ \A i \in 1 .. Len(file) : file'[i] = file[i]
          /\ file'[Len(file) + 1].entry = e
      BY <1>1, ReadableAppend
    <2>2. CASE x = e
      BY <2>1, <2>2
    <2>3. CASE x \in acked
      <3>1. PICK i \in DOMAIN file : file[i].entry = x
        BY <1>1, <2>1, <2>3 DEF AckedInFile
      <3> QED
        BY <2>1, <3>1
    <2> QED
      BY <1>1, <2>2, <2>3
  <1>2. ASSUME UNCHANGED <<file, acked, tailLost>>
        PROVE  \E i \in DOMAIN file' : file'[i].entry = x
    BY <1>2 DEF AckedInFile
  <1>3. ASSUME NEW e, Logs(e)
        PROVE  \E i \in DOMAIN file' : file'[i].entry = x
    BY <1>1, <1>3 DEF Logs, Change
  <1>4. ASSUME NEW e, Fails(e)
        PROVE  \E i \in DOMAIN file' : file'[i].entry = x
    BY <1>1, <1>2, <1>4 DEF Fails, Change
  <1>5. ASSUME Dies
        PROVE  \E i \in DOMAIN file' : file'[i].entry = x
    BY <1>1, <1>2, <1>5 DEF Dies, Change
  <1>6. ASSUME Replays \/ UNCHANGED vars
        PROVE  \E i \in DOMAIN file' : file'[i].entry = x
    BY <1>2, <1>6 DEF Replays, vars
  <1> QED
    BY <1>3, <1>4, <1>5, <1>6, Kinds

\* Every step keeps what was answered in the log of a registry that serves.
LEMMA NextAckedInLog ==
  ASSUME TypeInv, AckedInFile, AckedInLog, [Next]_vars
  PROVE  AckedInLog'
  <1> SUFFICES ASSUME up', ~tailLost', NEW x \in acked'
               PROVE  \E i \in DOMAIN log' : log'[i] = x
    BY DEF AckedInLog
  <1>1. ASSUME NEW e, Logs(e)
        PROVE  \E i \in DOMAIN log' : log'[i] = x
    <2>1. /\ Len(log) \in Nat /\ DOMAIN log = 1 .. Len(log)
          /\ DOMAIN log' = 1 .. Len(log) + 1
          /\ \A i \in 1 .. Len(log) : log'[i] = log[i]
          /\ log'[Len(log) + 1] = e
      BY <1>1, AppendFacts DEF Logs, Change, TypeInv
    <2>2. CASE x = e
      BY <2>1, <2>2
    <2>3. CASE x \in acked
      <3>1. PICK i \in DOMAIN log : log[i] = x
        BY <1>1, <2>3 DEF AckedInLog, Logs
      <3> QED
        BY <2>1, <3>1
    <2> QED
      BY <1>1, <2>2, <2>3 DEF Logs
  <1>2. ASSUME NEW e, Fails(e)
        PROVE  \E i \in DOMAIN log' : log'[i] = x
    BY <1>2 DEF Fails, AckedInLog
  <1>3. ASSUME Replays
        PROVE  \E i \in DOMAIN log' : log'[i] = x
    <2>1. PICK i \in DOMAIN file : file[i].entry = x
      BY <1>3, ReplayableReads DEF Replays, AckedInFile
    <2>2. log'[i] = x /\ i \in DOMAIN log'
      BY <1>3, <2>1 DEF Replays
    <2> QED
      BY <2>2
  <1>4. ASSUME UNCHANGED vars
        PROVE  \E i \in DOMAIN log' : log'[i] = x
    BY <1>4 DEF vars, AckedInLog
  <1>5. ~Dies
    BY DEF Dies
  <1> QED
    BY <1>1, <1>2, <1>3, <1>4, <1>5, Kinds

\* Every step keeps the log in a file that parses.
LEMMA NextFileHoldsLog ==
  ASSUME TypeInv, FileHoldsLog, [Next]_vars
  PROVE  FileHoldsLog'
  <1> DEFINE Holds(f, l, closed) == /\ Len(l) <= Len(f)
                                    /\ \A i \in DOMAIN l : f[i].entry = l[i]
                                    /\ closed => Len(f) = Len(l)
  <1> SUFFICES ASSUME up', AllReadable(file')
               PROVE  Holds(file', log', terminated')
    BY DEF FileHoldsLog
  <1>0. log \in Seq(Logged) /\ Len(log) \in Nat /\ DOMAIN log = 1 .. Len(log)
        /\ file \in Seq(Line)
    BY DEF TypeInv
  <1>1. ASSUME NEW e \in Logged, NEW text \in {"whole", "part"}, file' = FileWith(e, text), up
        PROVE  /\ Len(file) = Len(log)
               /\ Len(file') = Len(log) + 1
               /\ \A i \in 1 .. Len(log) : file'[i].entry = log[i]
               /\ file'[Len(log) + 1].entry = e
    BY <1>0, <1>1, ReadableAppend DEF FileHoldsLog
  <1>2. ASSUME NEW e, Logs(e)
        PROVE  Holds(file', log', terminated')
    <2>1. e \in Logged
      BY <1>2 DEF Logs, Change
    <2>2. /\ Len(log') = Len(log) + 1
          /\ DOMAIN log' = 1 .. Len(log) + 1
          /\ \A i \in 1 .. Len(log) : log'[i] = log[i]
          /\ log'[Len(log) + 1] = e
      BY <1>0, <1>2, <2>1, AppendFacts DEF Logs
    <2>3. /\ Len(file') = Len(log) + 1
          /\ \A i \in 1 .. Len(log) : file'[i].entry = log[i]
          /\ file'[Len(log) + 1].entry = e
      BY <1>1, <1>2, <2>1 DEF Logs
    <2>4. ASSUME NEW i \in DOMAIN log'
          PROVE  file'[i].entry = log'[i]
      <3>1. i \in 1 .. Len(log) \/ i = Len(log) + 1
        BY <1>0, <2>2, <2>4
      <3> QED
        BY <2>2, <2>3, <3>1
    <2> QED
      BY <1>0, <2>2, <2>3, <2>4
  <1>3. ASSUME NEW e, Fails(e)
        PROVE  Holds(file', log', terminated')
    <2>1. CASE UNCHANGED <<file, terminated>>
      BY <1>3, <2>1 DEF Fails, FileHoldsLog
    <2>2. ASSUME NEW text \in {"whole", "part"}, file' = FileWith(e, text), ~terminated'
          PROVE  Holds(file', log', terminated')
      <3>1. e \in Logged /\ up /\ log' = log
        BY <1>3 DEF Fails, Change
      <3> QED
        BY <1>0, <1>1, <2>2, <3>1
    <2> QED
      BY <1>3, <2>1, <2>2 DEF Fails
  <1>4. ASSUME Replays
        PROVE  Holds(file', log', terminated')
    <2>1. file' = file /\ log' = [i \in DOMAIN file |-> file[i].entry]
      BY <1>4 DEF Replays
    <2>2. Len(log') = Len(file') /\ DOMAIN log' = DOMAIN file
      BY <1>0, <2>1, EntriesSeq
    <2>3. Len(file') \in Nat
      BY <1>0, <2>1
    <2> QED
      BY <2>1, <2>2, <2>3
  <1>5. ASSUME UNCHANGED vars
        PROVE  Holds(file', log', terminated')
    BY <1>5 DEF vars, FileHoldsLog
  <1>6. ~Dies
    BY DEF Dies
  <1> QED
    BY <1>2, <1>3, <1>4, <1>5, <1>6, Kinds

-----------------------------------------------------------------------------
(***************************************************************************)
(* The dictionary.                                                         *)
(***************************************************************************)

\* A producer that is not in the dictionary is not in the log.
LEMMA AbsentNotLogged ==
  ASSUME TypeInv, MemoryMatchesLog, up, NEW p \in Producers, producers[p] = Absent
  PROVE  EntriesOf(p, log) = {}
  <1> SUFFICES ASSUME EntriesOf(p, log) # {}
               PROVE  FALSE
    OBVIOUS
  <1>1. log[LastOf(p, log)] \in Logged
    BY ReplayedType DEF TypeInv
  <1>2. log[LastOf(p, log)].data.status # "absent"
    BY <1>1 DEF Logged
  <1> QED
    BY <1>2 DEF MemoryMatchesLog, Absent

\* Every step keeps behind a stop only stops of its producer.
LEMMA NextStopsStay ==
  ASSUME TypeInv, FileHoldsLog, MemoryMatchesLog, StopsStay, [Next]_vars
  PROVE  StopsStay'
  <1> SUFFICES ASSUME ~tailLost', AllReadable(file')
               PROVE  StopsStayIn(file')
    BY DEF StopsStay, StopsStayIn
  <1>1. ASSUME NEW e, NEW text \in {"whole", "part"}, up, Change(e),
               file' = FileWith(e, text), tailLost' = tailLost
        PROVE  StopsStayIn(file')
    <2>1. e \in Logged /\ e.producer \in Producers /\ e.action \in {"register"} \union Stops
      BY <1>1 DEF Change, Logged, Entries
    <2>2. /\ terminated /\ AllReadable(file)
          /\ Len(file) \in Nat /\ DOMAIN file = 1 .. Len(file)
          /\ DOMAIN file' = 1 .. Len(file) + 1
          /\ \A i \in 1 .. Len(file) : file'[i] = file[i]
          /\ file'[Len(file) + 1].entry = e
      BY <1>1, <2>1, ReadableAppend
    <2>3. StopsStayIn(file)
      BY <1>1, <2>2 DEF StopsStay
    <2>4. \A i \in 1 .. Len(file) : i \in DOMAIN log /\ file[i].entry = log[i]
      BY <1>1, <2>2 DEF FileHoldsLog, TypeInv
    <2> SUFFICES ASSUME NEW i \in DOMAIN file', NEW j \in DOMAIN file', i <= j,
                        file'[i].entry.producer = file'[j].entry.producer,
                        file'[i].entry.action \in Stops
                 PROVE  file'[j].entry.action \in Stops
      BY Zenon DEF StopsStayIn
    <2>5. CASE j \in 1 .. Len(file)
      <3>1. i \in 1 .. Len(file)
        BY <2>2, <2>5
      <3> QED
        BY <2>2, <2>3, <2>5, <3>1 DEF StopsStayIn
    <2>6. CASE j = Len(file) + 1 /\ i = j
      BY <2>6
    <2>7. CASE j = Len(file) + 1 /\ i \in 1 .. Len(file)
      <3>1. i \in EntriesOf(e.producer, log)
        BY <2>2, <2>4, <2>7 DEF EntriesOf
      <3>2. producers[e.producer] # Absent
        BY <1>1, <2>1, <3>1, AbsentNotLogged
      <3>3. e.action \in Stops
        BY <1>1, <2>1, <3>2 DEF Change
      <3> QED
        BY <2>2, <2>7, <3>3
    <2> QED
      BY <2>2, <2>5, <2>6, <2>7
  <1>2. ASSUME UNCHANGED <<file, tailLost>>
        PROVE  StopsStayIn(file')
    BY <1>2 DEF StopsStay
  <1>3. ASSUME NEW e, Logs(e)
        PROVE  StopsStayIn(file')
    BY <1>1, <1>3 DEF Logs
  <1>4. ASSUME NEW e, Fails(e)
        PROVE  StopsStayIn(file')
    BY <1>1, <1>2, <1>4 DEF Fails
  <1>5. ASSUME Dies
        PROVE  StopsStayIn(file')
    BY <1>1, <1>2, <1>5 DEF Dies
  <1>6. ASSUME Replays \/ UNCHANGED vars
        PROVE  StopsStayIn(file')
    BY <1>2, <1>6 DEF Replays, vars
  <1> QED
    BY <1>3, <1>4, <1>5, <1>6, Kinds

\* Every step keeps the dictionary at what the log says, or stops ahead of it.
LEMMA NextMemoryMatchesLog ==
  ASSUME TypeInv, MemoryMatchesLog, [Next]_vars
  PROVE  MemoryMatchesLog'
  <1> DEFINE Matches(p, m, l) ==
               IF EntriesOf(p, l) = {} THEN m[p] = Absent
               ELSE LET d == l[LastOf(p, l)].data IN
                 \/ m[p] = d
                 \/ /\ IsStrictPrefix(d.history, m[p].history)
                    /\ m[p].status \in {"suspended", "revoked"}
  <1> SUFFICES ASSUME up', NEW p \in Producers
               PROVE  Matches(p, producers', log')
    BY DEF MemoryMatchesLog
  <1>0. log \in Seq(Logged) /\ producers \in [Producers -> Data]
    BY DEF TypeInv, TypeOK
  <1>1. up => Matches(p, producers, log)
    BY DEF MemoryMatchesLog
  <1>2. ASSUME NEW e, Logs(e)
        PROVE  Matches(p, producers', log')
    <2>1. e \in Logged /\ up /\ Extends(log, e, log')
          /\ producers' = [producers EXCEPT ![e.producer] = e.data]
      BY <1>2 DEF Logs, Change, Extends
    <2>2. CASE e.producer = p
      <3>1. EntriesOf(p, log') # {} /\ log'[LastOf(p, log')] = e
        BY <1>0, <2>1, <2>2, LastAfterAppend
      <3> QED
        BY <1>0, <2>1, <2>2, <3>1
    <2>3. CASE e.producer # p
      <3>1. /\ EntriesOf(p, log') = EntriesOf(p, log)
            /\ EntriesOf(p, log) # {} => log'[LastOf(p, log')] = log[LastOf(p, log)]
        BY <1>0, <2>1, <2>3, LastAfterAppend
      <3>2. producers'[p] = producers[p]
        BY <1>0, <2>1, <2>3
      <3> QED
        BY <1>1, <2>1, <3>1, <3>2
    <2> QED
      BY <2>2, <2>3
  <1>3. ASSUME NEW e, Fails(e)
        PROVE  Matches(p, producers', log')
    <2>1. up /\ log' = log /\ Change(e)
      BY <1>3 DEF Fails
    <2>2. CASE producers'[p] = producers[p]
      BY <1>1, <2>1, <2>2
    <2>3. ASSUME e.producer = p, e.action \in Stops,
                 producers'[p] = Stopped(producers[p], e.action)
          PROVE  Matches(p, producers', log')
      <3> DEFINE d == log[LastOf(p, log)].data
      <3>1. producers[p] # Absent
        BY <2>1, <2>3 DEF Change
      <3>2. EntriesOf(p, log) # {}
        BY <1>1, <2>1, <3>1
      <3>3. d \in Data
        BY <1>0, <3>2, ReplayedType DEF Logged, Entries
      <3>4. d.history = producers[p].history \/ IsStrictPrefix(d.history, producers[p].history)
        BY <1>1, <2>1, <3>2
      <3>5. d.history \in Seq(Stops) /\ producers[p].history \in Seq(Stops)
        BY <1>0, <3>3 DEF Data
      <3>6. IsStrictPrefix(d.history, Append(producers[p].history, e.action))
        BY <2>3, <3>4, <3>5, StoppedExtends
      <3>7. producers'[p].history = Append(producers[p].history, e.action)
            /\ producers'[p].status \in {"suspended", "revoked"}
        BY <2>3 DEF Stopped, Status
      <3> QED
        BY <2>1, <3>2, <3>6, <3>7
    <2>4. CASE \/ producers' = producers
               \/ e.producer # p /\ producers' = [producers EXCEPT ![e.producer] = e.data]
      BY <1>0, <2>2, <2>4
    <2> QED
      BY <1>0, <1>3, <2>3, <2>4 DEF Fails
  <1>4. ASSUME Replays
        PROVE  Matches(p, producers', log')
    BY <1>4 DEF Replays, Replayed
  <1>5. ASSUME UNCHANGED vars
        PROVE  Matches(p, producers', log')
    BY <1>1, <1>5 DEF vars
  <1>6. ~Dies
    BY DEF Dies
  <1> QED
    BY <1>2, <1>3, <1>4, <1>5, <1>6, Kinds

\* Every step keeps the stops that were answered in the dictionary.
LEMMA NextStopsHeld ==
  ASSUME Inv, [Next]_vars
  PROVE  StopsHeld'
  <1> SUFFICES ASSUME up', ~tailLost', NEW x \in acked', x.action \in Stops
               PROVE  producers'[x.producer].status \in Ended
    BY DEF StopsHeld
  <1>0. /\ TypeInv /\ AckedInFile /\ StopsStay /\ StopsHeld
        /\ producers \in [Producers -> Data]
        /\ acked \subseteq Entries
    BY DEF Inv, TypeInv, TypeOK
  <1>1. ASSUME NEW e, Change(e), up, ~tailLost, x \in acked,
               \/ producers' = producers
               \/ producers' = [producers EXCEPT ![e.producer] = e.data]
        PROVE  producers'[x.producer].status \in Ended
    <2>1. producers[x.producer].status \in Ended /\ x.producer \in Producers
      BY <1>0, <1>1 DEF StopsHeld, Entries
    <2>2. CASE producers'[x.producer] = producers[x.producer]
      BY <2>1, <2>2
    <2>3. ASSUME e.producer = x.producer, producers'[x.producer] = e.data
          PROVE  producers'[x.producer].status \in Ended
      <3>1. producers[e.producer] # Absent
        BY <2>1, <2>3 DEF Absent, Ended
      <3>2. e \in Logged /\ e.action \in Stops
        BY <1>1, <3>1 DEF Change, Logged, Entries
      <3> QED
        BY <2>3, <3>2 DEF Logged
    <2> QED
      BY <1>0, <1>1, <2>1, <2>2, <2>3
  <1>2. ASSUME NEW e, Logs(e)
        PROVE  producers'[x.producer].status \in Ended
    <2>1. CASE x \in acked
      BY <1>1, <1>2, <2>1 DEF Logs
    <2>2. CASE x = e
      <3>1. x.producer \in Producers /\ x.data.status \in Ended
        BY <1>2, <2>2 DEF Logs, Change, Logged, Entries
      <3> QED
        BY <1>0, <1>2, <2>2, <3>1 DEF Logs
    <2> QED
      BY <1>2, <2>1, <2>2 DEF Logs
  <1>3. ASSUME NEW e, Fails(e)
        PROVE  producers'[x.producer].status \in Ended
    BY <1>1, <1>3 DEF Fails
  <1>4. ASSUME Replays
        PROVE  producers'[x.producer].status \in Ended
    <2> DEFINE q == x.producer
               l == LastOf(q, log')
    <2>1. /\ file \in Seq(Line) /\ ~tailLost /\ x \in acked /\ q \in Producers
          /\ log' = [i \in DOMAIN file |-> file[i].entry]
          /\ producers'[q] = Replayed(q, log')
      BY <1>0, <1>4 DEF Replays, TypeInv, Entries
    <2>2. AllReadable(file)
      BY <1>4, ReplayableReads DEF Replays
    <2>3. PICK i \in DOMAIN file : file[i].entry = x
      BY <1>0, <2>1, <2>2 DEF AckedInFile
    <2>4. log' \in Seq(Logged) /\ DOMAIN log' = DOMAIN file
      BY <2>1, EntriesSeq
    <2>5. i \in EntriesOf(q, log')
      BY <2>1, <2>3, <2>4 DEF EntriesOf
    <2> HIDE DEF q
    <2>6. l \in EntriesOf(q, log') /\ i <= l
      BY <2>4, <2>5, LastExists
    <2>7. l \in DOMAIN file /\ file[l].entry = log'[l] /\ log'[l].producer = q
      BY <2>1, <2>4, <2>6 DEF EntriesOf
    <2>8. log'[l].action \in Stops
      BY <1>0, <2>1, <2>2, <2>3, <2>6, <2>7 DEF StopsStay, StopsStayIn, q
    <2>9. log'[l] \in Logged
      BY <2>4, <2>7
    <2> QED
      BY <2>1, <2>5, <2>8, <2>9 DEF Replayed, Logged, q
  <1>5. ASSUME UNCHANGED vars
        PROVE  producers'[x.producer].status \in Ended
    BY <1>0, <1>5 DEF vars, StopsHeld
  <1>6. ~Dies
    BY DEF Dies
  <1> QED
    BY <1>0, <1>2, <1>3, <1>4, <1>5, <1>6, Kinds

-----------------------------------------------------------------------------
(***************************************************************************)
(* The theorems.                                                           *)
(***************************************************************************)

\* An empty registry keeps every promise.
LEMMA InitInv == Init => Inv
  <1> SUFFICES ASSUME Init PROVE Inv
    OBVIOUS
  <1>1. acked = {} /\ file = <<>> /\ log = <<>> /\ DOMAIN log = {} /\ DOMAIN file = {}
    BY DEF Init
  <1>2. MemoryMatchesLog
    BY <1>1 DEF Init, MemoryMatchesLog, EntriesOf
  <1>3. AckedInFile /\ AckedInLog /\ StopsHeld
    BY <1>1 DEF AckedInFile, AckedInLog, StopsHeld
  <1>4. FileHoldsLog /\ StopsStay
    BY <1>1 DEF FileHoldsLog, StopsStay, StopsStayIn
  <1> QED
    BY <1>2, <1>3, <1>4, InitType DEF Inv

LEMMA NextInv == Inv /\ [Next]_vars => Inv'
  <1> SUFFICES ASSUME Inv, [Next]_vars PROVE Inv'
    OBVIOUS
  <1>1. /\ TypeInv /\ AckedInFile /\ AckedInLog /\ FileHoldsLog
        /\ MemoryMatchesLog /\ StopsStay /\ StopsHeld
    BY DEF Inv
  <1>2. TypeInv'
    BY <1>1, NextType
  <1>3. AckedInFile' /\ AckedInLog'
    BY <1>1, NextAckedInFile, NextAckedInLog
  <1>4. FileHoldsLog' /\ StopsStay'
    BY <1>1, NextFileHoldsLog, NextStopsStay
  <1>5. MemoryMatchesLog' /\ StopsHeld'
    BY <1>1, NextMemoryMatchesLog, NextStopsHeld
  <1> QED
    BY <1>2, <1>3, <1>4, <1>5 DEF Inv

LEMMA Invariant == Spec => []Inv
  BY InitInv, NextInv, PTL DEF Spec

\* The dictionary never trusts a producer more than the log does.
THEOREM MemoryFollowsLog == Spec => []MemoryMatchesLog
  <1>1. Inv => MemoryMatchesLog
    BY DEF Inv
  <1> QED
    BY <1>1, Invariant, PTL

\* A registry that serves holds every change that was answered.
THEOREM AnsweredStaysInLog == Spec => []AckedInLog
  <1>1. Inv => AckedInLog
    BY DEF Inv
  <1> QED
    BY <1>1, Invariant, PTL

\* Once a suspension or a revocation returned, the gate ignores the producer,
\* through any change, failed write, crash and replay that keeps the file.
THEOREM StopsAreFinal == Spec => []StoppedProducersIgnored
  <1>1. Inv => StoppedProducersIgnored
    <2> SUFFICES ASSUME StopsHeld, up, ~tailLost, NEW e \in acked, e.action \in Stops,
                        NEW s \in Step, s.producer = e.producer
                 PROVE  Outcome(s) = "log_only"
      BY DEF Inv, StoppedProducersIgnored
    <2>1. producers[s.producer].status # "active"
      BY DEF StopsHeld, Ended
    <2> QED
      BY <2>1 DEF Outcome, Admissible
  <1> QED
    BY <1>1, Invariant, PTL

\* More divergence, a higher impact or a regulated sector never gives an
\* admissible envelope of the same class a weaker signal.
THEOREM SignalsAreMonotone == MoreDivergenceNeverWeaker
  <1> SUFFICES ASSUME NEW s \in Step, NEW t \in Step,
                      Admissible(s), Admissible(t), s.klass = t.klass,
                      Order[s.bound] <= Order[t.bound],
                      s.impact <= t.impact, s.regulated => t.regulated
               PROVE  /\ SignalOf(s).floor <= SignalOf(t).floor
                      /\ SignalOf(s).weight <= SignalOf(t).weight
    BY DEF MoreDivergenceNeverWeaker
  <1>1. /\ s.bound \in Bounds /\ t.bound \in Bounds
        /\ s.impact \in 1 .. 5 /\ t.impact \in 1 .. 5
        /\ s.regulated \in BOOLEAN /\ t.regulated \in BOOLEAN
    BY DEF Step
  <1>2. Order[LowerBound(s)] <= Order[LowerBound(t)]
    BY <1>1 DEF LowerBound, Order, Bounds
  <1>3. OverThreshold(s) => OverThreshold(t)
    BY <1>1 DEF OverThreshold, LowerBound, Order, Bounds
  <1>4. Outcome(s) = "force_hil" => Outcome(t) = "force_hil"
    BY <1>1, <1>3 DEF Outcome
  <1>5. Outcome(s) \in {"force_hil", "weighted"} /\ Outcome(t) \in {"force_hil", "weighted"}
    BY DEF Outcome
  <1>6. Order[LowerBound(s)] \in 0 .. 3 /\ Order[LowerBound(t)] \in 0 .. 3
    BY <1>1 DEF LowerBound, Order, Bounds
  <1> QED
    BY <1>2, <1>4, <1>5, <1>6 DEF SignalOf, Signal
=============================================================================
