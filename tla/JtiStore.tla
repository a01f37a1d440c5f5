------------------------------ MODULE JtiStore ------------------------------
(***************************************************************************)
(* The gateway's in-memory registry of token identifiers                   *)
(* (_InMemoryJtiStore in services/gateway/main.py): which jti were already *)
(* used and which were revoked, each until an expiry time, and one queue   *)
(* per registry from whose front expired items are purged.  The queues are *)
(* in order of insertion, not of expiry: an item that expires early waits  *)
(* behind one that expires late.                                           *)
(***************************************************************************)
EXTENDS Integers, Sequences

CONSTANTS
  Jtis,      \* token identifiers
  MaxTtl,    \* largest ttl_seconds a caller passes
  MaxTime,   \* bound of the model: the clock stops here
  MaxQueue   \* bound of the model: length of a queue

ASSUME JtiStoreConstants ==
  /\ MaxTtl \in Nat \ {0}
  /\ MaxTime \in Nat
  /\ MaxQueue \in Nat

VARIABLES
  now,      \* the clock, in whole seconds
  expiry,   \* expiry["seen"], expiry["revoked"]: jti -> expiry, Absent if none
  queue,    \* the two queues of items [exp, jti]
  promised  \* history: until when the last call that registered a jti
            \* promised to keep it

jtiVars == <<now, expiry, queue, promised>>

Registries == {"seen", "revoked"}
Absent == 0
Ttls == 0 .. MaxTtl
Item == [exp : Nat, jti : Jtis]

AtLeastOne(n) == IF n > 1 THEN n ELSE 1

Init ==
  /\ now = 0
  /\ expiry = [r \in Registries |-> [j \in Jtis |-> Absent]]
  /\ queue = [r \in Registries |-> <<>>]
  /\ promised = [r \in Registries |-> [j \in Jtis |-> 0]]

\* n items at the front of the queue have expired, and the one behind them
\* has not: the while loop of _purge_queue stops after n items.
Purges(r, n) ==
  /\ \A i \in 1 .. n : queue[r][i].exp < now
  /\ n < Len(queue[r]) => queue[r][n + 1].exp >= now

\* Mutant: an expired item removes its jti whatever expiry is registered.
Purged_AnyExpiry(r, n) ==
  [j \in Jtis |-> IF \E i \in 1 .. n : queue[r][i].jti = j
                    THEN Absent ELSE expiry[r][j]]

\* A purged item removes its jti if that was not registered again with
\* another expiry since.
Purged(r, n) ==
  [j \in Jtis |-> IF \E i \in 1 .. n : queue[r][i] = [exp |-> expiry[r][j], jti |-> j]
                    THEN Absent ELSE expiry[r][j]]

Remaining(r, n) == SubSeq(queue[r], n + 1, Len(queue[r]))

Tick ==
  /\ now < MaxTime
  /\ now' = now + 1
  /\ UNCHANGED <<expiry, queue, promised>>

\* mark_seen answers whether the jti was new, and registers it if it was.
MarkSeen(j, ttl, stored) ==
  /\ Len(queue["seen"]) < MaxQueue
  /\ \E n \in 0 .. Len(queue["seen"]) :
       LET until == now + AtLeastOne(ttl)
           purged == Purged("seen", n)
       IN
       /\ Purges("seen", n)
       /\ stored = (purged[j] = Absent)
       /\ IF stored
            THEN /\ expiry' = [expiry EXCEPT !["seen"] = [purged EXCEPT ![j] = until]]
                 /\ queue' = [queue EXCEPT !["seen"] =
                                Append(Remaining("seen", n), [exp |-> until, jti |-> j])]
                 /\ promised' = [promised EXCEPT !["seen"][j] = until]
            ELSE /\ expiry' = [expiry EXCEPT !["seen"] = purged]
                 /\ queue' = [queue EXCEPT !["seen"] = Remaining("seen", n)]
                 /\ UNCHANGED promised
  /\ UNCHANGED now

\* is_revoked purges first.
IsRevoked(j, answer) ==
  \E n \in 0 .. Len(queue["revoked"]) :
    /\ Purges("revoked", n)
    /\ expiry' = [expiry EXCEPT !["revoked"] = Purged("revoked", n)]
    /\ queue' = [queue EXCEPT !["revoked"] = Remaining("revoked", n)]
    /\ answer = (expiry'["revoked"][j] # Absent)
    /\ UNCHANGED <<now, promised>>

\* Mutant: a jti that is registered already gets no second item.
Revoke_NoSecondItem(j, ttl) ==
  LET until == now + AtLeastOne(ttl) IN
  /\ Len(queue["revoked"]) < MaxQueue
  /\ expiry' = [expiry EXCEPT !["revoked"][j] = until]
  /\ queue' = IF expiry["revoked"][j] = Absent
                THEN [queue EXCEPT !["revoked"] = Append(@, [exp |-> until, jti |-> j])]
                ELSE queue
  /\ promised' = [promised EXCEPT !["revoked"][j] = until]
  /\ UNCHANGED now

\* Mutant: the item is queued at the front.
Revoke_AtFront(j, ttl) ==
  LET until == now + AtLeastOne(ttl) IN
  /\ Len(queue["revoked"]) < MaxQueue
  /\ expiry' = [expiry EXCEPT !["revoked"][j] = until]
  /\ queue' = [queue EXCEPT !["revoked"] = <<[exp |-> until, jti |-> j]>> \o @]
  /\ promised' = [promised EXCEPT !["revoked"][j] = until]
  /\ UNCHANGED now

\* revoke does not purge; a second revocation overwrites the expiry, even
\* with an earlier one, and queues a second item.
Revoke(j, ttl) ==
  LET until == now + AtLeastOne(ttl) IN
  /\ Len(queue["revoked"]) < MaxQueue
  /\ expiry' = [expiry EXCEPT !["revoked"][j] = until]
  /\ queue' = [queue EXCEPT !["revoked"] = Append(@, [exp |-> until, jti |-> j])]
  /\ promised' = [promised EXCEPT !["revoked"][j] = until]
  /\ UNCHANGED now

Next ==
  \/ Tick
  \/ \E j \in Jtis, ttl \in Ttls, stored \in BOOLEAN : MarkSeen(j, ttl, stored)
  \/ \E j \in Jtis, answer \in BOOLEAN : IsRevoked(j, answer)
  \/ \E j \in Jtis, ttl \in Ttls : Revoke(j, ttl)

Spec == Init /\ [][Next]_jtiVars

-----------------------------------------------------------------------------
(***************************************************************************)
(* Properties.                                                             *)
(***************************************************************************)

\* Every variable keeps its shape.
TypeOK ==
  /\ now \in Nat
  /\ expiry \in [Registries -> [Jtis -> Nat]]
  /\ queue \in [Registries -> Seq(Item)]
  /\ promised \in [Registries -> [Jtis -> Nat]]

\* A jti that mark_seen accepted or revoke registered stays registered for
\* the whole time the last such call promised, whatever was purged since and
\* whatever older items of the same jti are still in the queue.
NothingForgotten ==
  \A r \in Registries, j \in Jtis :
    now <= promised[r][j] /\ promised[r][j] > 0 => expiry[r][j] # Absent

\* Every registered jti has its item in the queue, so that a purge will
\* remove it one day: the registries do not leak.
EveryEntryQueued ==
  \A r \in Registries, j \in Jtis :
    expiry[r][j] # Absent =>
      \E i \in DOMAIN queue[r] : queue[r][i] = [exp |-> expiry[r][j], jti |-> j]

\* Nobody is refused for long after what was promised: of what the purge of a
\* mark_seen or an is_revoked leaves, every jti expired less than MaxTtl ago,
\* although expired items wait in the queue behind items that expire later.
ForgottenInTime ==
  \A r \in Registries : \A n \in 0 .. Len(queue[r]) :
    Purges(r, n) =>
      \A j \in Jtis : Purged(r, n)[j] # Absent => now < promised[r][j] + MaxTtl

=============================================================================
