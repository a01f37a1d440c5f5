---------------------------- MODULE JtiStoreProofs ----------------------------
(***************************************************************************)
(* What holds of the gateway's in-memory registry for every set of token   *)
(* identifiers, every largest ttl and queues of any length.                *)
(***************************************************************************)
EXTENDS JtiStore, SequenceTheorems, TLAPS

USE JtiStoreConstants

\* An entry expires between one second and the largest ttl from now.
LEMMA UntilBounds ==
  ASSUME TypeOK, NEW ttl \in Ttls
  PROVE  /\ now + AtLeastOne(ttl) \in Nat
         /\ now + AtLeastOne(ttl) > now
         /\ now + AtLeastOne(ttl) <= now + MaxTtl
  BY DEF TypeOK, Ttls, AtLeastOne

\* The items that a purge leaves are those behind the ones it removes.
LEMMA RemainingItems ==
  ASSUME TypeOK, NEW r \in Registries, NEW n \in 0 .. Len(queue[r])
  PROVE  /\ Remaining(r, n) \in Seq(Item)
         /\ Len(Remaining(r, n)) = Len(queue[r]) - n
         /\ \A i \in 1 .. Len(queue[r]) - n : Remaining(r, n)[i] = queue[r][n + i]
  <1>1. queue[r] \in Seq(Item)
    BY DEF TypeOK
  <1>2. \A i \in n + 1 .. Len(queue[r]) : queue[r][i] \in Item
    BY <1>1
  <1>3. /\ SubSeq(queue[r], n + 1, Len(queue[r])) \in Seq(Item)
        /\ Len(SubSeq(queue[r], n + 1, Len(queue[r]))) =
             IF n + 1 <= Len(queue[r]) THEN Len(queue[r]) - (n + 1) + 1 ELSE 0
        /\ \A i \in 1 .. Len(queue[r]) - (n + 1) + 1 :
             SubSeq(queue[r], n + 1, Len(queue[r]))[i] = queue[r][(n + 1) + i - 1]
    BY <1>1, <1>2, SubSeqProperties
  <1> QED
    BY <1>1, <1>3 DEF Remaining

\* What a purge leaves of a register has the register's type.
LEMMA PurgedType ==
  ASSUME TypeOK, NEW r \in Registries, NEW n \in Nat
  PROVE  /\ Purged(r, n) \in [Jtis -> Nat]
         /\ \A j \in Jtis : Purged(r, n)[j] \in {Absent, expiry[r][j]}
  BY DEF TypeOK, Purged, Absent

\* The items that MarkSeen and Revoke queue.
LEMMA QueuedItem ==
  ASSUME TypeOK, NEW q \in Seq(Item), NEW j \in Jtis, NEW ttl \in Ttls
  PROVE  LET item == [exp |-> now + AtLeastOne(ttl), jti |-> j] IN
         /\ Append(q, item) \in Seq(Item)
         /\ Len(Append(q, item)) = Len(q) + 1
         /\ \A i \in 1 .. Len(q) : Append(q, item)[i] = q[i]
         /\ Append(q, item)[Len(q) + 1] = item
  <1> DEFINE item == [exp |-> now + AtLeastOne(ttl), jti |-> j]
  <1>1. item \in Item
    BY UntilBounds DEF Item
  <1> HIDE DEF item
  <1>2. /\ Append(q, item) \in Seq(Item)
        /\ Len(Append(q, item)) = Len(q) + 1
        /\ \A i \in 1 .. Len(q) : Append(q, item)[i] = q[i]
        /\ Append(q, item)[Len(q) + 1] = item
    BY <1>1
  <1> QED
    BY <1>2 DEF item
-----------------------------------------------------------------------------
(***************************************************************************)
(* The type invariant.                                                     *)
(***************************************************************************)

LEMMA TypeStep == TypeOK /\ [Next]_jtiVars => TypeOK'
  <1> SUFFICES ASSUME TypeOK, [Next]_jtiVars
               PROVE  TypeOK'
    OBVIOUS
  <1>1. CASE Tick
    BY <1>1 DEF TypeOK, Tick
  <1>2. ASSUME NEW j \in Jtis, NEW ttl \in Ttls, NEW stored \in BOOLEAN,
               MarkSeen(j, ttl, stored)
        PROVE  TypeOK'
    <2> DEFINE until == now + AtLeastOne(ttl)
               item == [exp |-> until, jti |-> j]
    <2>1. PICK n \in 0 .. Len(queue["seen"]) :
            IF stored
              THEN /\ expiry' = [expiry EXCEPT !["seen"] = [Purged("seen", n) EXCEPT ![j] = until]]
                   /\ queue' = [queue EXCEPT !["seen"] = Append(Remaining("seen", n), item)]
                   /\ promised' = [promised EXCEPT !["seen"][j] = until]
              ELSE /\ expiry' = [expiry EXCEPT !["seen"] = Purged("seen", n)]
                   /\ queue' = [queue EXCEPT !["seen"] = Remaining("seen", n)]
                   /\ UNCHANGED promised
      BY <1>2 DEF MarkSeen
    <2>2. until \in Nat
      BY UntilBounds
    <2>3. Remaining("seen", n) \in Seq(Item) /\ Purged("seen", n) \in [Jtis -> Nat]
      <3>1. "seen" \in Registries /\ n \in Nat
        BY DEF Registries, TypeOK
      <3> QED
        BY <3>1, RemainingItems, PurgedType
    <2>4. Append(Remaining("seen", n), item) \in Seq(Item)
      BY <2>3, QueuedItem
    <2>5. now' = now
      BY <1>2 DEF MarkSeen
    <2> HIDE DEF until, item
    <2>6. CASE stored
      <3>1. expiry' \in [Registries -> [Jtis -> Nat]]
        <4>1. expiry' = [expiry EXCEPT !["seen"] = [Purged("seen", n) EXCEPT ![j] = until]]
          BY <2>1, <2>6
        <4>2. [Purged("seen", n) EXCEPT ![j] = until] \in [Jtis -> Nat]
          BY <2>2, <2>3
        <4> QED
          BY <4>1, <4>2 DEF TypeOK
      <3>2. queue' \in [Registries -> Seq(Item)]
        BY <2>1, <2>4, <2>6 DEF TypeOK
      <3>3. promised' \in [Registries -> [Jtis -> Nat]]
        <4>1. promised' = [promised EXCEPT !["seen"][j] = until]
          BY <2>1, <2>6
        <4> QED
          BY <2>2, <4>1 DEF TypeOK
      <3> QED
        BY <2>5, <3>1, <3>2, <3>3 DEF TypeOK
    <2>7. CASE ~stored
      BY <2>1, <2>3, <2>5, <2>7 DEF TypeOK
    <2> QED
      BY <2>6, <2>7
  <1>3. ASSUME NEW j \in Jtis, NEW answer \in BOOLEAN, IsRevoked(j, answer)
        PROVE  TypeOK'
    <2>1. PICK n \in 0 .. Len(queue["revoked"]) :
            /\ expiry' = [expiry EXCEPT !["revoked"] = Purged("revoked", n)]
            /\ queue' = [queue EXCEPT !["revoked"] = Remaining("revoked", n)]
            /\ UNCHANGED <<now, promised>>
      BY <1>3 DEF IsRevoked
    <2>2. Remaining("revoked", n) \in Seq(Item) /\ Purged("revoked", n) \in [Jtis -> Nat]
      <3>1. "revoked" \in Registries /\ n \in Nat
        BY DEF Registries, TypeOK
      <3> QED
        BY <3>1, RemainingItems, PurgedType
    <2> QED
      BY <2>1, <2>2 DEF TypeOK
  <1>4. ASSUME NEW j \in Jtis, NEW ttl \in Ttls, Revoke(j, ttl)
        PROVE  TypeOK'
    <2>1. queue["revoked"] \in Seq(Item)
      BY DEF TypeOK, Registries
    <2>2. Append(queue["revoked"], [exp |-> now + AtLeastOne(ttl), jti |-> j]) \in Seq(Item)
      BY <2>1, QueuedItem
    <2> QED
      BY <1>4, <2>2, UntilBounds DEF TypeOK, Revoke
  <1>5. CASE UNCHANGED jtiVars
    BY <1>5 DEF TypeOK, jtiVars
  <1> QED
    BY <1>1, <1>2, <1>3, <1>4, <1>5 DEF Next

\* Every reachable state is well typed.
THEOREM TypeCorrect == Spec => []TypeOK
  <1>1. Init => TypeOK
    BY DEF Init, TypeOK, Absent
  <1> QED
    BY <1>1, TypeStep, PTL DEF Spec
-----------------------------------------------------------------------------
(***************************************************************************)
(* NothingForgotten.  It only says that something is registered; a purge   *)
(* of an older item with the same expiry is ruled out by knowing what: the *)
(* very expiry that was promised.                                          *)
(***************************************************************************)

PromisesKept ==
  \A r \in Registries, j \in Jtis :
    now <= promised[r][j] /\ promised[r][j] > 0 => expiry[r][j] = promised[r][j]

PromiseInv == TypeOK /\ PromisesKept

\* A purge removes no jti whose promise is not over.
LEMMA PurgeKeepsPromises ==
  ASSUME PromiseInv, NEW r \in Registries, NEW n \in 0 .. Len(queue[r]), Purges(r, n)
  PROVE  \A j \in Jtis :
           now <= promised[r][j] /\ promised[r][j] > 0 => Purged(r, n)[j] = promised[r][j]
  <1> SUFFICES ASSUME NEW j \in Jtis, now <= promised[r][j], promised[r][j] > 0
               PROVE  Purged(r, n)[j] = promised[r][j]
    OBVIOUS
  <1>1. expiry[r][j] = promised[r][j]
    BY DEF PromiseInv, PromisesKept
  <1>2. now \in Nat /\ promised[r][j] \in Nat
    BY DEF PromiseInv, TypeOK
  <1>3. \A i \in 1 .. n : queue[r][i] # [exp |-> expiry[r][j], jti |-> j]
    <2> SUFFICES ASSUME NEW i \in 1 .. n, queue[r][i] = [exp |-> expiry[r][j], jti |-> j]
                 PROVE  FALSE
      OBVIOUS
    <2>1. queue[r][i].exp < now
      BY DEF Purges
    <2>2. queue[r][i].exp = promised[r][j]
      BY <1>1
    <2> QED
      BY <1>2, <2>1, <2>2
  <1> QED
    BY <1>1, <1>3 DEF Purged

LEMMA PromiseStep == PromiseInv /\ [Next]_jtiVars => PromiseInv'
  <1> SUFFICES ASSUME PromiseInv, [Next]_jtiVars
               PROVE  PromisesKept'
    BY TypeStep DEF PromiseInv
  <1>0. TypeOK
    BY DEF PromiseInv
  <1>1. CASE Tick
    <2>1. now' = now + 1 /\ UNCHANGED <<expiry, promised>>
      BY <1>1 DEF Tick
    <2> QED
      BY <1>0, <2>1 DEF PromiseInv, PromisesKept, TypeOK
  <1>2. ASSUME NEW j \in Jtis, NEW ttl \in Ttls, NEW stored \in BOOLEAN,
               MarkSeen(j, ttl, stored)
        PROVE  PromisesKept'
    <2> DEFINE until == now + AtLeastOne(ttl)
    <2>1. PICK n \in 0 .. Len(queue["seen"]) :
            /\ Purges("seen", n)
            /\ IF stored
                 THEN /\ expiry' = [expiry EXCEPT !["seen"] = [Purged("seen", n) EXCEPT ![j] = until]]
                      /\ promised' = [promised EXCEPT !["seen"][j] = until]
                 ELSE /\ expiry' = [expiry EXCEPT !["seen"] = Purged("seen", n)]
                      /\ UNCHANGED promised
      BY <1>2 DEF MarkSeen
    <2>2. now' = now /\ "seen" \in Registries /\ n \in Nat
      BY <1>2, <1>0 DEF MarkSeen, Registries, TypeOK
    <2>3. Purged("seen", n) \in [Jtis -> Nat]
      BY <1>0, <2>2, PurgedType
    <2>4. \A k \in Jtis :
            now <= promised["seen"][k] /\ promised["seen"][k] > 0
              => Purged("seen", n)[k] = promised["seen"][k]
      BY <2>1, <2>2, PurgeKeepsPromises
    <2> HIDE DEF until
    <2>5. CASE stored
      <3>1. expiry' = [expiry EXCEPT !["seen"] = [Purged("seen", n) EXCEPT ![j] = until]]
        BY <2>1, <2>5
      <3>2. promised' = [promised EXCEPT !["seen"][j] = until]
        BY <2>1, <2>5
      <3> QED
        BY <1>0, <2>2, <2>3, <2>4, <3>1, <3>2 DEF PromiseInv, PromisesKept, TypeOK
    <2>6. CASE ~stored
      <3>1. expiry' = [expiry EXCEPT !["seen"] = Purged("seen", n)] /\ UNCHANGED promised
        BY <2>1, <2>6
      <3> QED
        BY <1>0, <2>2, <2>3, <2>4, <3>1 DEF PromiseInv, PromisesKept, TypeOK
    <2> QED
      BY <2>5, <2>6
  <1>3. ASSUME NEW j \in Jtis, NEW answer \in BOOLEAN, IsRevoked(j, answer)
        PROVE  PromisesKept'
    <2>1. PICK n \in 0 .. Len(queue["revoked"]) :
            /\ Purges("revoked", n)
            /\ expiry' = [expiry EXCEPT !["revoked"] = Purged("revoked", n)]
            /\ UNCHANGED <<now, promised>>
      BY <1>3 DEF IsRevoked
    <2>2. "revoked" \in Registries
      BY DEF Registries
    <2>3. \A k \in Jtis :
            now <= promised["revoked"][k] /\ promised["revoked"][k] > 0
              => Purged("revoked", n)[k] = promised["revoked"][k]
      BY <2>1, <2>2, PurgeKeepsPromises
    <2> QED
      BY <1>0, <2>1, <2>2, <2>3 DEF PromiseInv, PromisesKept, TypeOK
  <1>4. ASSUME NEW j \in Jtis, NEW ttl \in Ttls, Revoke(j, ttl)
        PROVE  PromisesKept'
    BY <1>0, <1>4 DEF PromiseInv, PromisesKept, TypeOK, Revoke
  <1>5. CASE UNCHANGED jtiVars
    BY <1>5 DEF PromiseInv, PromisesKept, jtiVars
  <1> QED
    BY <1>1, <1>2, <1>3, <1>4, <1>5 DEF Next

\* A jti that was used or revoked is registered for as long as the last call
\* promised, whatever older items of it the queue still holds.
THEOREM NothingIsForgotten == Spec => []NothingForgotten
  <1>1. Init => PromiseInv
    BY DEF Init, PromiseInv, PromisesKept, TypeOK, Absent
  <1>2. PromiseInv => NothingForgotten
    BY DEF PromiseInv, PromisesKept, NothingForgotten, TypeOK, Absent
  <1> QED
    BY <1>1, <1>2, PromiseStep, PTL DEF Spec
-----------------------------------------------------------------------------
(***************************************************************************)
(* EveryEntryQueued is inductive: a purge that removes the item of a jti   *)
(* removes the jti, and what it leaves keeps its item.                     *)
(***************************************************************************)

HasItem(q, exp, jti) == \E i \in DOMAIN q : q[i] = [exp |-> exp, jti |-> jti]

QueuedInv == TypeOK /\ EveryEntryQueued

LEMMA PurgeKeepsItems ==
  ASSUME QueuedInv, NEW r \in Registries, NEW n \in 0 .. Len(queue[r])
  PROVE  \A j \in Jtis :
           Purged(r, n)[j] # Absent => HasItem(Remaining(r, n), Purged(r, n)[j], j)
  <1> SUFFICES ASSUME NEW j \in Jtis, Purged(r, n)[j] # Absent
               PROVE  HasItem(Remaining(r, n), expiry[r][j], j)
    BY DEF Purged
  <1>0. queue[r] \in Seq(Item) /\ TypeOK
    BY DEF QueuedInv, TypeOK
  <1>1. /\ expiry[r][j] # Absent
        /\ ~ \E i \in 1 .. n : queue[r][i] = [exp |-> expiry[r][j], jti |-> j]
    BY DEF Purged
  <1>2. PICK i \in DOMAIN queue[r] : queue[r][i] = [exp |-> expiry[r][j], jti |-> j]
    BY <1>1 DEF QueuedInv, EveryEntryQueued
  <1>3. i \in n + 1 .. Len(queue[r])
    BY <1>0, <1>1, <1>2
  <1>4. /\ Remaining(r, n) \in Seq(Item)
        /\ i - n \in 1 .. Len(Remaining(r, n))
        /\ Remaining(r, n)[i - n] = queue[r][n + (i - n)]
    <2>1. /\ Remaining(r, n) \in Seq(Item)
          /\ Len(Remaining(r, n)) = Len(queue[r]) - n
          /\ \A k \in 1 .. Len(queue[r]) - n : Remaining(r, n)[k] = queue[r][n + k]
      BY <1>0, RemainingItems
    <2>2. i - n \in 1 .. Len(queue[r]) - n
      BY <1>0, <1>3
    <2> QED
      BY <2>1, <2>2
  <1>5. n + (i - n) = i /\ i - n \in DOMAIN Remaining(r, n)
    BY <1>3, <1>4
  <1> QED
    BY <1>2, <1>4, <1>5 DEF HasItem

\* Queueing an item keeps those that are there.
LEMMA AppendKeepsItems ==
  ASSUME TypeOK, NEW q \in Seq(Item), NEW j \in Jtis, NEW ttl \in Ttls
  PROVE  LET until == now + AtLeastOne(ttl)
             longer == Append(q, [exp |-> until, jti |-> j])
         IN /\ HasItem(longer, until, j)
            /\ \A e \in Nat, k \in Jtis : HasItem(q, e, k) => HasItem(longer, e, k)
  <1> DEFINE until == now + AtLeastOne(ttl)
             longer == Append(q, [exp |-> until, jti |-> j])
  <1>1. /\ longer \in Seq(Item)
        /\ Len(longer) = Len(q) + 1
        /\ \A i \in 1 .. Len(q) : longer[i] = q[i]
        /\ longer[Len(q) + 1] = [exp |-> until, jti |-> j]
    BY QueuedItem
  <1> HIDE DEF until, longer
  <1>2. DOMAIN longer = 1 .. Len(q) + 1 /\ DOMAIN q = 1 .. Len(q)
    BY <1>1
  <1> QED
    BY <1>1, <1>2 DEF HasItem, until, longer

LEMMA QueuedStep == QueuedInv /\ [Next]_jtiVars => QueuedInv'
  <1> SUFFICES ASSUME QueuedInv, [Next]_jtiVars
               PROVE  EveryEntryQueued'
    BY TypeStep DEF QueuedInv
  <1>0. TypeOK /\ {"seen", "revoked"} = Registries
    BY DEF QueuedInv, Registries
  <1>a. \A r \in Registries, j \in Jtis :
          expiry[r][j] # Absent => HasItem(queue[r], expiry[r][j], j)
    BY DEF QueuedInv, EveryEntryQueued, HasItem
  <1>b. SUFFICES \A r \in Registries, j \in Jtis :
          expiry'[r][j] # Absent => HasItem(queue'[r], expiry'[r][j], j)
    BY DEF EveryEntryQueued, HasItem
  <1>1. CASE Tick
    BY <1>1, <1>a DEF Tick
  <1>2. ASSUME NEW j \in Jtis, NEW ttl \in Ttls, NEW stored \in BOOLEAN,
               MarkSeen(j, ttl, stored)
        PROVE  \A r \in Registries, k \in Jtis :
                 expiry'[r][k] # Absent => HasItem(queue'[r], expiry'[r][k], k)
    <2> DEFINE until == now + AtLeastOne(ttl)
    <2>1. PICK n \in 0 .. Len(queue["seen"]) :
            IF stored
              THEN /\ expiry' = [expiry EXCEPT !["seen"] = [Purged("seen", n) EXCEPT ![j] = until]]
                   /\ queue' = [queue EXCEPT !["seen"] =
                                  Append(Remaining("seen", n), [exp |-> until, jti |-> j])]
              ELSE /\ expiry' = [expiry EXCEPT !["seen"] = Purged("seen", n)]
                   /\ queue' = [queue EXCEPT !["seen"] = Remaining("seen", n)]
      BY <1>2 DEF MarkSeen
    <2>2. "seen" \in Registries /\ n \in Nat
      BY DEF Registries
    <2>3. Remaining("seen", n) \in Seq(Item) /\ Purged("seen", n) \in [Jtis -> Nat]
      BY <1>0, <2>2, RemainingItems, PurgedType
    <2>4. \A k \in Jtis : Purged("seen", n)[k] # Absent
                            => HasItem(Remaining("seen", n), Purged("seen", n)[k], k)
      BY <2>2, PurgeKeepsItems
    <2>5. CASE stored
      <3> DEFINE longer == Append(Remaining("seen", n), [exp |-> until, jti |-> j])
      <3>1. /\ HasItem(longer, until, j)
            /\ \A e \in Nat, k \in Jtis : HasItem(Remaining("seen", n), e, k) => HasItem(longer, e, k)
        BY <1>0, <2>3, AppendKeepsItems
      <3>2. expiry' = [expiry EXCEPT !["seen"] = [Purged("seen", n) EXCEPT ![j] = until]]
        BY <2>1, <2>5
      <3>3. queue' = [queue EXCEPT !["seen"] = longer]
        BY <2>1, <2>5
      <3> HIDE DEF until, longer
      <3> QED
        BY <1>0, <1>a, <2>2, <2>3, <2>4, <3>1, <3>2, <3>3 DEF TypeOK
    <2>6. CASE ~stored
      <3>1. /\ expiry' = [expiry EXCEPT !["seen"] = Purged("seen", n)]
            /\ queue' = [queue EXCEPT !["seen"] = Remaining("seen", n)]
        BY <2>1, <2>6
      <3> QED
        BY <1>0, <1>a, <2>2, <2>4, <3>1 DEF TypeOK
    <2> QED
      BY <2>5, <2>6
  <1>3. ASSUME NEW j \in Jtis, NEW answer \in BOOLEAN, IsRevoked(j, answer)
        PROVE  \A r \in Registries, k \in Jtis :
                 expiry'[r][k] # Absent => HasItem(queue'[r], expiry'[r][k], k)
    <2>1. PICK n \in 0 .. Len(queue["revoked"]) :
            /\ expiry' = [expiry EXCEPT !["revoked"] = Purged("revoked", n)]
            /\ queue' = [queue EXCEPT !["revoked"] = Remaining("revoked", n)]
      BY <1>3 DEF IsRevoked
    <2>2. "revoked" \in Registries
      BY DEF Registries
    <2>3. \A k \in Jtis : Purged("revoked", n)[k] # Absent
                            => HasItem(Remaining("revoked", n), Purged("revoked", n)[k], k)
      BY <2>2, PurgeKeepsItems
    <2> QED
      BY <1>0, <1>a, <2>1, <2>2, <2>3 DEF TypeOK
  <1>4. ASSUME NEW j \in Jtis, NEW ttl \in Ttls, Revoke(j, ttl)
        PROVE  \A r \in Registries, k \in Jtis :
                 expiry'[r][k] # Absent => HasItem(queue'[r], expiry'[r][k], k)
    <2> DEFINE until == now + AtLeastOne(ttl)
               longer == Append(queue["revoked"], [exp |-> until, jti |-> j])
    <2>1. queue["revoked"] \in Seq(Item) /\ "revoked" \in Registries
      BY <1>0 DEF TypeOK
    <2>2. /\ HasItem(longer, until, j)
          /\ \A e \in Nat, k \in Jtis : HasItem(queue["revoked"], e, k) => HasItem(longer, e, k)
      BY <1>0, <2>1, AppendKeepsItems
    <2>3. /\ expiry' = [expiry EXCEPT !["revoked"][j] = until]
          /\ queue' = [queue EXCEPT !["revoked"] = longer]
      BY <1>4 DEF Revoke
    <2> HIDE DEF until, longer
    <2> QED
      BY <1>0, <1>a, <2>1, <2>2, <2>3 DEF TypeOK
  <1>5. CASE UNCHANGED jtiVars
    BY <1>5, <1>a DEF jtiVars
  <1> QED
    BY <1>1, <1>2, <1>3, <1>4, <1>5 DEF Next

\* Every registered jti waits in the queue for its purge: nothing leaks.
THEOREM EntriesAreQueued == Spec => []EveryEntryQueued
  <1>1. Init => QueuedInv
    BY DEF Init, QueuedInv, EveryEntryQueued, TypeOK, Absent
  <1>2. QueuedInv => EveryEntryQueued
    BY DEF QueuedInv
  <1> QED
    BY <1>1, <1>2, QueuedStep, PTL DEF Spec
-----------------------------------------------------------------------------
(***************************************************************************)
(* The queues are sorted but for less than MaxTtl.  What makes this        *)
(* inductive is that no item expires later than MaxTtl from now, and every *)
(* new one after now.                                                      *)
(***************************************************************************)

QueueNearlySorted ==
  \A r \in Registries : \A i, k \in DOMAIN queue[r] :
    i < k => queue[r][i].exp < queue[r][k].exp + MaxTtl

NearlySorted(q) == \A i, k \in DOMAIN q : i < k => q[i].exp < q[k].exp + MaxTtl
ExpiresBy(q, last) == \A i \in DOMAIN q : q[i].exp <= last

SortedInv ==
  /\ TypeOK
  /\ \A r \in Registries : NearlySorted(queue[r]) /\ ExpiresBy(queue[r], now + MaxTtl)

LEMMA ItemExpiries ==
  ASSUME NEW q \in Seq(Item)
  PROVE  \A i \in DOMAIN q : i \in 1 .. Len(q) /\ q[i].exp \in Nat
  <1>1. \A item \in Item : item.exp \in Nat
    BY DEF Item
  <1>2. \A i \in DOMAIN q : i \in 1 .. Len(q) /\ q[i] \in Item
    OBVIOUS
  <1> QED
    BY <1>1, <1>2

LEMMA RemainingSorted ==
  ASSUME SortedInv, NEW r \in Registries, NEW n \in 0 .. Len(queue[r])
  PROVE  NearlySorted(Remaining(r, n)) /\ ExpiresBy(Remaining(r, n), now + MaxTtl)
  <1>1. /\ Remaining(r, n) \in Seq(Item)
        /\ Len(Remaining(r, n)) = Len(queue[r]) - n
        /\ \A i \in 1 .. Len(queue[r]) - n : Remaining(r, n)[i] = queue[r][n + i]
    BY RemainingItems DEF SortedInv
  <1>2. queue[r] \in Seq(Item)
    BY DEF SortedInv, TypeOK
  <1>3. DOMAIN Remaining(r, n) = 1 .. Len(queue[r]) - n /\ DOMAIN queue[r] = 1 .. Len(queue[r])
    BY <1>1, <1>2
  <1>4. \A i \in DOMAIN Remaining(r, n) : n + i \in DOMAIN queue[r]
    BY <1>2, <1>3
  <1>5. \A i, k \in DOMAIN Remaining(r, n) : i < k => n + i < n + k
    BY <1>2, <1>3
  <1>6. NearlySorted(queue[r]) /\ ExpiresBy(queue[r], now + MaxTtl)
    BY DEF SortedInv
  <1>7. \A i \in DOMAIN Remaining(r, n) : Remaining(r, n)[i] = queue[r][n + i]
    BY <1>1, <1>3
  <1> QED
    BY <1>4, <1>5, <1>6, <1>7 DEF NearlySorted, ExpiresBy

LEMMA AppendSorted ==
  ASSUME TypeOK, NEW q \in Seq(Item), NEW j \in Jtis, NEW ttl \in Ttls,
         NearlySorted(q), ExpiresBy(q, now + MaxTtl)
  PROVE  LET longer == Append(q, [exp |-> now + AtLeastOne(ttl), jti |-> j])
         IN  NearlySorted(longer) /\ ExpiresBy(longer, now + MaxTtl)
  <1> DEFINE until == now + AtLeastOne(ttl)
             longer == Append(q, [exp |-> until, jti |-> j])
  <1>1. /\ longer \in Seq(Item)
        /\ Len(longer) = Len(q) + 1
        /\ \A i \in 1 .. Len(q) : longer[i] = q[i]
        /\ longer[Len(q) + 1] = [exp |-> until, jti |-> j]
    BY QueuedItem
  <1>2. until \in Nat /\ until > now /\ until <= now + MaxTtl /\ now \in Nat
    BY UntilBounds DEF TypeOK
  <1>3. \A i \in 1 .. Len(q) : q[i].exp \in Nat
    BY ItemExpiries
  <1> HIDE DEF until, longer
  <1>4. DOMAIN longer = 1 .. Len(q) + 1 /\ DOMAIN q = 1 .. Len(q)
    BY <1>1
  <1>5. longer[Len(q) + 1].exp = until
    BY <1>1
  <1>6. ExpiresBy(longer, now + MaxTtl)
    BY <1>1, <1>2, <1>4, <1>5 DEF ExpiresBy
  <1>7. ASSUME NEW i \in DOMAIN longer, NEW k \in DOMAIN longer, i < k
        PROVE  longer[i].exp < longer[k].exp + MaxTtl
    <2>1. i \in 1 .. Len(q) /\ longer[i] = q[i]
      BY <1>1, <1>4, <1>7
    <2>2. CASE k \in 1 .. Len(q)
      BY <1>1, <1>4, <1>7, <2>1, <2>2 DEF NearlySorted
    <2>3. CASE k = Len(q) + 1
      <3>1. q[i].exp <= now + MaxTtl
        BY <1>4, <2>1 DEF ExpiresBy
      <3> QED
        BY <1>2, <1>3, <1>5, <2>1, <2>3, <3>1
    <2> QED
      BY <1>4, <2>2, <2>3
  <1>8. NearlySorted(longer)
    BY <1>7 DEF NearlySorted
  <1> QED
    BY <1>6, <1>8 DEF until, longer

LEMMA SortedStep == SortedInv /\ [Next]_jtiVars => SortedInv'
  <1> SUFFICES ASSUME SortedInv, [Next]_jtiVars
               PROVE  \A r \in Registries :
                        NearlySorted(queue'[r]) /\ ExpiresBy(queue'[r], now' + MaxTtl)
    BY TypeStep DEF SortedInv, NearlySorted, ExpiresBy
  <1>0. TypeOK /\ {"seen", "revoked"} = Registries
    BY DEF SortedInv, Registries
  <1>a. \A r \in Registries : NearlySorted(queue[r]) /\ ExpiresBy(queue[r], now + MaxTtl)
    BY DEF SortedInv
  <1>1. CASE Tick
    <2>1. queue' = queue /\ now' = now + 1
      BY <1>1 DEF Tick
    <2>2. ASSUME NEW r \in Registries
          PROVE  ExpiresBy(queue[r], now + 1 + MaxTtl)
      <3>1. queue[r] \in Seq(Item) /\ now \in Nat
        BY <1>0 DEF TypeOK
      <3>2. \A i \in DOMAIN queue[r] : queue[r][i].exp \in Nat
        BY <3>1, ItemExpiries
      <3> QED
        BY <1>a, <3>1, <3>2 DEF ExpiresBy
    <2> QED
      BY <1>a, <2>1, <2>2
  <1>2. ASSUME NEW j \in Jtis, NEW ttl \in Ttls, NEW stored \in BOOLEAN,
               MarkSeen(j, ttl, stored)
        PROVE  \A r \in Registries :
                 NearlySorted(queue'[r]) /\ ExpiresBy(queue'[r], now' + MaxTtl)
    <2>1. PICK n \in 0 .. Len(queue["seen"]) :
            queue' = [queue EXCEPT !["seen"] =
                        IF stored
                          THEN Append(Remaining("seen", n),
                                      [exp |-> now + AtLeastOne(ttl), jti |-> j])
                          ELSE Remaining("seen", n)]
      BY <1>2 DEF MarkSeen
    <2>2. now' = now /\ "seen" \in Registries
      BY <1>2 DEF MarkSeen, Registries
    <2>3. Remaining("seen", n) \in Seq(Item)
      BY <1>0, <2>2, RemainingItems
    <2>4. NearlySorted(Remaining("seen", n)) /\ ExpiresBy(Remaining("seen", n), now + MaxTtl)
      BY <2>2, RemainingSorted
    <2> DEFINE longer == Append(Remaining("seen", n), [exp |-> now + AtLeastOne(ttl), jti |-> j])
    <2>5. NearlySorted(longer) /\ ExpiresBy(longer, now + MaxTtl)
      BY <1>0, <2>3, <2>4, AppendSorted
    <2>6. queue'["seen"] \in {longer, Remaining("seen", n)}
      BY <1>0, <2>1, <2>2 DEF TypeOK
    <2>7. \A r \in Registries \ {"seen"} : queue'[r] = queue[r]
      BY <1>0, <2>1 DEF TypeOK
    <2> HIDE DEF longer
    <2>8. NearlySorted(queue'["seen"]) /\ ExpiresBy(queue'["seen"], now + MaxTtl)
      BY <2>4, <2>5, <2>6
    <2> QED
      BY <1>a, <2>2, <2>7, <2>8
  <1>3. ASSUME NEW j \in Jtis, NEW answer \in BOOLEAN, IsRevoked(j, answer)
        PROVE  \A r \in Registries :
                 NearlySorted(queue'[r]) /\ ExpiresBy(queue'[r], now' + MaxTtl)
    <2>1. PICK n \in 0 .. Len(queue["revoked"]) :
            /\ queue' = [queue EXCEPT !["revoked"] = Remaining("revoked", n)]
            /\ now' = now
      BY <1>3 DEF IsRevoked
    <2>2. "revoked" \in Registries
      BY DEF Registries
    <2>3. NearlySorted(Remaining("revoked", n)) /\ ExpiresBy(Remaining("revoked", n), now + MaxTtl)
      BY <2>2, RemainingSorted
    <2> QED
      BY <1>0, <1>a, <2>1, <2>2, <2>3 DEF TypeOK
  <1>4. ASSUME NEW j \in Jtis, NEW ttl \in Ttls, Revoke(j, ttl)
        PROVE  \A r \in Registries :
                 NearlySorted(queue'[r]) /\ ExpiresBy(queue'[r], now' + MaxTtl)
    <2> DEFINE longer == Append(queue["revoked"], [exp |-> now + AtLeastOne(ttl), jti |-> j])
    <2>1. queue["revoked"] \in Seq(Item) /\ "revoked" \in Registries
      BY <1>0 DEF TypeOK
    <2>2. NearlySorted(longer) /\ ExpiresBy(longer, now + MaxTtl)
      BY <1>0, <1>a, <2>1, AppendSorted
    <2>3. queue' = [queue EXCEPT !["revoked"] = longer] /\ now' = now
      BY <1>4 DEF Revoke
    <2> HIDE DEF longer
    <2> QED
      BY <1>0, <1>a, <2>1, <2>2, <2>3 DEF TypeOK
  <1>5. CASE UNCHANGED jtiVars
    BY <1>5, <1>a DEF jtiVars
  <1> QED
    BY <1>1, <1>2, <1>3, <1>4, <1>5 DEF Next

\* An expired item waits for less than MaxTtl behind items that expire later.
THEOREM QueuesNearlySorted == Spec => []QueueNearlySorted
  <1>1. Init => SortedInv
    BY DEF Init, SortedInv, TypeOK, NearlySorted, ExpiresBy, Absent
  <1>2. SortedInv => QueueNearlySorted
    BY DEF SortedInv, NearlySorted, QueueNearlySorted
  <1> QED
    BY <1>1, <1>2, SortedStep, PTL DEF Spec
-----------------------------------------------------------------------------
(***************************************************************************)
(* ForgottenInTime.  A jti that a purge leaves has its item behind the     *)
(* purged ones, and the first of these has not expired.                    *)
(***************************************************************************)

RegisteredAsPromised ==
  \A r \in Registries, j \in Jtis : expiry[r][j] \in {Absent, promised[r][j]}

InTimeInv ==
  /\ QueuedInv
  /\ SortedInv
  /\ RegisteredAsPromised

LEMMA RegisteredStep == InTimeInv /\ [Next]_jtiVars => RegisteredAsPromised'
  <1> SUFFICES ASSUME InTimeInv, [Next]_jtiVars
               PROVE  RegisteredAsPromised'
    OBVIOUS
  <1>0. TypeOK /\ {"seen", "revoked"} = Registries
    BY DEF InTimeInv, SortedInv, Registries
  <1>a. \A r \in Registries, j \in Jtis : expiry[r][j] \in {Absent, promised[r][j]}
    BY DEF InTimeInv, RegisteredAsPromised
  <1>p. ASSUME NEW r \in Registries, NEW n \in Nat, NEW j \in Jtis
        PROVE  Purged(r, n)[j] \in {Absent, promised[r][j]}
    BY <1>0, <1>a, PurgedType
  <1>1. ASSUME NEW j \in Jtis, NEW ttl \in Ttls, NEW stored \in BOOLEAN,
               MarkSeen(j, ttl, stored)
        PROVE  RegisteredAsPromised'
    <2> DEFINE until == now + AtLeastOne(ttl)
    <2>1. PICK n \in 0 .. Len(queue["seen"]) :
            IF stored
              THEN /\ expiry' = [expiry EXCEPT !["seen"] = [Purged("seen", n) EXCEPT ![j] = until]]
                   /\ promised' = [promised EXCEPT !["seen"][j] = until]
              ELSE /\ expiry' = [expiry EXCEPT !["seen"] = Purged("seen", n)]
                   /\ UNCHANGED promised
      BY <1>1 DEF MarkSeen
    <2>2. "seen" \in Registries /\ n \in Nat
      BY <1>0 DEF TypeOK
    <2>3. Purged("seen", n) \in [Jtis -> Nat]
      BY <1>0, <2>2, PurgedType
    <2>4. \A k \in Jtis : Purged("seen", n)[k] \in {Absent, promised["seen"][k]}
      BY <1>p, <2>2
    <2> HIDE DEF until
    <2>5. CASE stored
      <3>1. expiry' = [expiry EXCEPT !["seen"] = [Purged("seen", n) EXCEPT ![j] = until]]
        BY <2>1, <2>5
      <3>2. promised' = [promised EXCEPT !["seen"][j] = until]
        BY <2>1, <2>5
      <3> QED
        BY <1>0, <1>a, <2>2, <2>3, <2>4, <3>1, <3>2 DEF RegisteredAsPromised, TypeOK
    <2>6. CASE ~stored
      <3>1. expiry' = [expiry EXCEPT !["seen"] = Purged("seen", n)] /\ UNCHANGED promised
        BY <2>1, <2>6
      <3> QED
        BY <1>0, <1>a, <2>2, <2>4, <3>1 DEF RegisteredAsPromised, TypeOK
    <2> QED
      BY <2>5, <2>6
  <1>2. ASSUME NEW j \in Jtis, NEW answer \in BOOLEAN, IsRevoked(j, answer)
        PROVE  RegisteredAsPromised'
    <2>1. PICK n \in 0 .. Len(queue["revoked"]) :
            /\ expiry' = [expiry EXCEPT !["revoked"] = Purged("revoked", n)]
            /\ UNCHANGED promised
      BY <1>2 DEF IsRevoked
    <2>2. \A k \in Jtis : Purged("revoked", n)[k] \in {Absent, promised["revoked"][k]}
      <3>1. "revoked" \in Registries /\ n \in Nat
        BY <1>0 DEF TypeOK
      <3> QED
        BY <1>p, <3>1
    <2> QED
      BY <1>0, <1>a, <2>1, <2>2 DEF RegisteredAsPromised, TypeOK
  <1>3. ASSUME NEW j \in Jtis, NEW ttl \in Ttls, Revoke(j, ttl)
        PROVE  RegisteredAsPromised'
    BY <1>0, <1>3 DEF InTimeInv, RegisteredAsPromised, TypeOK, Revoke
  <1>4. CASE Tick \/ UNCHANGED jtiVars
    BY <1>4 DEF InTimeInv, RegisteredAsPromised, Tick, jtiVars
  <1> QED
    BY <1>1, <1>2, <1>3, <1>4 DEF Next

LEMMA WaitsBehindFront ==
  ASSUME InTimeInv, NEW r \in Registries, NEW n \in 0 .. Len(queue[r]), Purges(r, n),
         NEW j \in Jtis, Purged(r, n)[j] # Absent
  PROVE  now < promised[r][j] + MaxTtl
  <1>1. TypeOK /\ queue[r] \in Seq(Item) /\ now \in Nat
    BY DEF InTimeInv, SortedInv, TypeOK
  <1>2. Purged(r, n)[j] = promised[r][j] /\ promised[r][j] \in Nat
    <2>1. n \in Nat
      BY <1>1
    <2>2. Purged(r, n)[j] = expiry[r][j]
      BY <1>1, <2>1, PurgedType
    <2> QED
      BY <1>1, <2>2 DEF InTimeInv, RegisteredAsPromised, TypeOK
  <1>3. PICK k \in DOMAIN Remaining(r, n) :
          Remaining(r, n)[k] = [exp |-> promised[r][j], jti |-> j]
    <2>1. HasItem(Remaining(r, n), Purged(r, n)[j], j)
      BY PurgeKeepsItems DEF InTimeInv
    <2> QED
      BY <1>2, <2>1 DEF HasItem
  <1>4. /\ k \in 1 .. Len(queue[r]) - n
        /\ n + k \in DOMAIN queue[r] /\ n + 1 \in DOMAIN queue[r]
        /\ queue[r][n + k].exp = promised[r][j]
    <2>1. /\ Remaining(r, n) \in Seq(Item)
          /\ Len(Remaining(r, n)) = Len(queue[r]) - n
          /\ \A i \in 1 .. Len(queue[r]) - n : Remaining(r, n)[i] = queue[r][n + i]
      BY <1>1, RemainingItems
    <2>2. k \in 1 .. Len(queue[r]) - n
      BY <2>1
    <2>3. queue[r][n + k] = [exp |-> promised[r][j], jti |-> j]
      BY <1>3, <2>1, <2>2
    <2>4. n + k \in DOMAIN queue[r] /\ n + 1 \in DOMAIN queue[r]
      BY <1>1, <2>2
    <2> QED
      BY <2>2, <2>3, <2>4
  <1>5. now <= queue[r][n + 1].exp
    <2>1. n < Len(queue[r])
      BY <1>1, <1>4
    <2>2. queue[r][n + 1].exp \in Nat
      BY <1>1, <1>4, ItemExpiries
    <2> QED
      BY <1>1, <2>1, <2>2 DEF Purges
  <1>6. queue[r][n + 1].exp < queue[r][n + k].exp + MaxTtl
    <2>1. queue[r][n + 1].exp \in Nat
      BY <1>1, <1>4, ItemExpiries
    <2>2. CASE k = 1
      BY <1>2, <1>4, <2>1, <2>2
    <2>3. CASE k # 1
      <3>1. n + 1 < n + k
        BY <1>1, <1>4, <2>3
      <3> QED
        BY <1>4, <3>1 DEF InTimeInv, SortedInv, NearlySorted
    <2> QED
      BY <2>2, <2>3
  <1>7. queue[r][n + 1].exp \in Nat /\ MaxTtl \in Nat
    BY <1>1, <1>4, ItemExpiries, JtiStoreConstants DEF JtiStoreConstants
  <1>8. queue[r][n + 1].exp < promised[r][j] + MaxTtl
    BY <1>4, <1>6
  <1>9. now \in Nat /\ promised[r][j] \in Nat
    BY <1>1, <1>2
  <1> QED
    BY <1>5, <1>7, <1>8, <1>9

\* A jti is refused for less than MaxTtl longer than the last call promised.
THEOREM RefusalsEnd == Spec => []ForgottenInTime
  <1>1. Init => InTimeInv
    BY DEF Init, InTimeInv, QueuedInv, EveryEntryQueued, SortedInv, NearlySorted, ExpiresBy,
           RegisteredAsPromised, TypeOK, Absent
  <1>2. InTimeInv /\ [Next]_jtiVars => InTimeInv'
    BY QueuedStep, SortedStep, RegisteredStep DEF InTimeInv
  <1>3. InTimeInv => ForgottenInTime
    BY WaitsBehindFront DEF ForgottenInTime
  <1> QED
    BY <1>1, <1>2, <1>3, PTL DEF Spec
=============================================================================
