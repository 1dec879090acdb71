--------------------------- MODULE RevocationProofs ---------------------------
(***************************************************************************)
(* For any users, sessions, token life and clock, however announcements    *)
(* are lost or delayed and resyncs fail: what one publisher had refused is *)
(* refused until the token expires.                                        *)
(***************************************************************************)
EXTENDS Revocation, TLAPS

LEMMA NoEntriesTyped == NoEntries \in Entries /\ <<>> \in Seq(Event)
<1>1. NoEntries \in Entries
  BY DEF NoEntries, Entries
<1>2. <<>> \in Seq(Event)
  OBVIOUS
<1> QED
  BY <1>1, <1>2

\* Redis, the list and the announcements keep their types, whatever fails and
\* however many instances publish.
THEOREM RevocationTypes == Spec => []TypeOK
<1>1. Init => TypeOK
  <2> SUFFICES ASSUME Init PROVE TypeOK
    OBVIOUS
  <2>1. now \in Time /\ expiry \in [Ids -> 0 .. MaxTime + Life]
    BY RevocationAssumption DEF Init, Time
  <2>2. published \in 0 .. MaxPublishes /\ restarts \in 0 .. MaxRestarts
    BY RevocationAssumption DEF Init
  <2>3. queue \in Seq(Event)
    BY DEF Init
  <2> QED
    BY <2>1, <2>2, <2>3, NoEntriesTyped DEF Init, TypeOK
<1>2. TypeOK /\ [Next]_vars => TypeOK'
  <2> SUFFICES ASSUME TypeOK, [Next]_vars PROVE TypeOK'
    OBVIOUS
  <2> USE RevocationAssumption
  <2>1. ASSUME NEW p \in Publishers, NEW i \in Ids, PublishBegin(p, i) PROVE TypeOK'
    BY <2>1 DEF PublishBegin, TypeOK, Time, Event, redis, watcher
  <2>2. ASSUME NEW p \in Publishers, PublishSet(p) PROVE TypeOK'
    BY <2>2 DEF PublishSet, ExpiryOf, TypeOK, Time, Event, Entries, watcher, counters
  <2>3. ASSUME NEW p \in Publishers, PublishAnnounce(p) PROVE TypeOK'
    BY <2>3 DEF PublishAnnounce, TypeOK, redis, counters
  <2>4. ASSUME NEW p \in Publishers, PublishFails(p) PROVE TypeOK'
    BY <2>4 DEF PublishFails, TypeOK, redis, watcher, counters
  <2>5. CASE ResyncScan
    BY <2>5, NoEntriesTyped DEF ResyncScan, AfterResync, TypeOK, redis, counters
  <2>6. CASE ResyncFails
    BY <2>6 DEF ResyncFails, AfterResync, TypeOK, redis, counters
  <2>7. ASSUME NEW i \in Ids, ReadKey(i) \/ ReadKeyError(i) PROVE TypeOK'
    BY <2>7 DEF ReadKey, ReadKeyError, TypeOK, Entries, redis, counters
  <2>8. CASE Replace
    BY <2>8, NoEntriesTyped DEF Replace, Fresh, TypeOK, redis, counters
  <2>9. CASE Subscribe \/ Ticker \/ SubscriptionClosed \/ LinkLost \/ LinkRestored
    BY <2>9, NoEntriesTyped DEF Subscribe, Ticker, SubscriptionClosed, LinkLost, LinkRestored, TypeOK,
                redis, counters
  <2>10. CASE Receive
    <3>1. Head(queue) \in Event /\ Tail(queue) \in Seq(Event)
      BY <2>10 DEF Receive, TypeOK
    <3>2. Apply(list, Head(queue)) \in Entries
      BY <3>1 DEF Apply, TypeOK, Event, Entries
    <3> QED
      BY <2>10, <3>1, <3>2 DEF Receive, TypeOK, redis, counters
  <2>11. CASE Prune
    <3>1. Pruned(list) \in Entries
      BY DEF Pruned, TypeOK, Entries
    <3> QED
      BY <2>11, <3>1 DEF Prune, TypeOK, redis, counters
  <2>12. CASE Tick
    <3>1. storedAt' \in Entries
      BY <2>12 DEF Tick, TypeOK, Entries
    <3>2. now' \in Time
      BY <2>12 DEF Tick, TypeOK, Time
    <3> QED
      BY <2>12, <3>1, <3>2 DEF Tick, TypeOK, watcher, counters
  <2>13. CASE Restart
    <3>1. restarts' \in 0 .. MaxRestarts
      BY <2>13 DEF Restart, TypeOK
    <3>2. wpc' \in {"start", "tick", "closed", "read", "subscribe", "loop"}
          /\ after' \in {"subscribe", "loop"} /\ todo' \subseteq Ids
      BY <2>13 DEF Restart
    <3> QED
      BY <2>13, <3>1, <3>2, NoEntriesTyped DEF Restart, TypeOK, redis
  <2>14. CASE UNCHANGED vars
    BY <2>14 DEF vars, TypeOK
  <2> QED
    BY <2>1, <2>2, <2>3, <2>4, <2>5, <2>6, <2>7, <2>8, <2>9, <2>10, <2>11, <2>12, <2>13, <2>14
       DEF Next, Publish, Watch
<1> QED
  BY <1>1, <1>2, PTL DEF Spec

(***************************************************************************)
(* One publisher, whose announcements may be lost and whose writes may     *)
(* fail; a Get of a key that is there succeeds, and the service does not   *)
(* restart.                                                                *)
(***************************************************************************)
OnePublisher == \A p, q \in Publishers : p = q

\* A revocation of i at time t is in Redis, or one that is later, or every
\* token it refuses has expired.
Kept(i, t) == storedAt[i] >= t \/ t + Life <= now

\* A key lives as long as the tokens its entry refuses.
KeysLast ==
  \A i \in Ids : storedAt[i] # Never => /\ storedAt[i] <= now
                                        /\ storedAt[i] + Life <= expiry[i]

\* Whatever the service has heard of, or will hear, was kept.
ListKept == \A i \in Ids : Kept(i, list[i]) /\ Kept(i, got[i])
QueueKept == \A k \in 1 .. Len(queue) : Kept(queue[k].id, queue[k].at)
PubKept ==
  \A p \in Publishers : pub[p] # <<>> =>
    LET e == pub[p][2]
    IN /\ e.at <= now
       /\ pub[p][1] = "set" => storedAt[e.id] <= e.at
       /\ pub[p][1] = "announce" => Kept(e.id, e.at)

\* A resync has read of every key it is done with what the list had.
ResyncCovers ==
  wpc = "read" => \A i \in Ids \ todo : got[i] >= list[i] \/ list[i] + Life <= now

KeptInv == KeysLast /\ ListKept /\ QueueKept /\ PubKept /\ ResyncCovers

LEMMA Typed ==
  ASSUME TypeOK
  PROVE  /\ now \in Nat /\ Life \in Nat \ {0} /\ Never = -1
         /\ \A i \in Ids : /\ storedAt[i] \in Int /\ list[i] \in Int /\ got[i] \in Int
                           /\ storedAt[i] >= Never /\ list[i] >= Never /\ got[i] >= Never
                           /\ expiry[i] \in Nat
         /\ \A p \in Publishers : pub[p] # <<>> =>
              /\ pub[p][1] \in {"set", "announce"}
              /\ pub[p][2] \in Event /\ pub[p][2].id \in Ids /\ pub[p][2].at \in Nat
         /\ \A k \in 1 .. Len(queue) : queue[k].id \in Ids /\ queue[k].at \in Nat
<1>1. now \in Nat /\ Life \in Nat \ {0} /\ Never = -1
  BY RevocationAssumption DEF TypeOK, Time, Never
<1>2. ASSUME NEW i \in Ids
      PROVE  /\ storedAt[i] \in Int /\ list[i] \in Int /\ got[i] \in Int
             /\ storedAt[i] >= Never /\ list[i] >= Never /\ got[i] >= Never
             /\ expiry[i] \in Nat
  BY RevocationAssumption DEF TypeOK, Entries, Time, Never
<1>3. ASSUME NEW p \in Publishers, pub[p] # <<>>
      PROVE  /\ pub[p][1] \in {"set", "announce"}
             /\ pub[p][2] \in Event /\ pub[p][2].id \in Ids /\ pub[p][2].at \in Nat
  <2>1. pub[p] \in {"set", "announce"} \X Event
    BY <1>3 DEF TypeOK
  <2>2. pub[p][1] \in {"set", "announce"} /\ pub[p][2] \in Event
    BY <2>1
  <2> QED
    BY <2>2 DEF Event, Time
<1>4. ASSUME NEW k \in 1 .. Len(queue) PROVE queue[k].id \in Ids /\ queue[k].at \in Nat
  <2>1. queue[k] \in Event
    BY <1>4 DEF TypeOK
  <2> QED
    BY <2>1 DEF Event, Time
<1> QED
  BY <1>1, <1>2, <1>3, <1>4

\* A step in which Redis and the clock stand still keeps what is kept.
LEMMA StillKept ==
  ASSUME now' = now, storedAt' = storedAt, expiry' = expiry, KeptInv
  PROVE  /\ \A i, t : Kept(i, t) => Kept(i, t)'
         /\ KeysLast'
         /\ list' = list /\ got' = got => ListKept'
         /\ queue' = queue \/ queue' = <<>> => QueueKept'
         /\ pub' = pub => PubKept'
         /\ list' = list /\ got' = got /\ todo' = todo /\ wpc' = wpc => ResyncCovers'
<1>1. \A i, t : Kept(i, t) => Kept(i, t)'
  BY DEF Kept
<1>2. KeysLast'
  BY DEF KeptInv, KeysLast
<1>3. ASSUME list' = list, got' = got PROVE ListKept'
  BY <1>3 DEF KeptInv, ListKept, Kept
<1>4. ASSUME queue' = queue \/ queue' = <<>> PROVE QueueKept'
  <2>1. CASE queue' = queue
    BY <2>1 DEF KeptInv, QueueKept, Kept
  <2>2. CASE queue' = <<>>
    BY <2>2 DEF QueueKept
  <2> QED
    BY <1>4, <2>1, <2>2
<1>5. ASSUME pub' = pub PROVE PubKept'
  BY <1>5 DEF KeptInv, PubKept, Kept
<1>6. ASSUME list' = list, got' = got, todo' = todo, wpc' = wpc PROVE ResyncCovers'
  BY <1>6 DEF KeptInv, ResyncCovers
<1> QED
  BY <1>1, <1>2, <1>3, <1>4, <1>5, <1>6

-----------------------------------------------------------------------------
(***************************************************************************)
(* The publisher.                                                          *)
(***************************************************************************)
LEMMA BeginKeeps ==
  ASSUME TypeOK, KeptInv, NEW p \in Publishers, NEW i \in Ids, PublishBegin(p, i)
  PROVE  KeptInv'
<1>1. /\ now' = now /\ storedAt' = storedAt /\ expiry' = expiry /\ list' = list /\ got' = got
      /\ queue' = queue /\ todo' = todo /\ wpc' = wpc
      /\ pub' = [pub EXCEPT ![p] = <<"set", [id |-> i, at |-> now]>>]
  BY DEF PublishBegin, redis, watcher
<1>2. ASSUME NEW q \in Publishers, pub'[q] # <<>>
      PROVE  /\ pub'[q][2].at <= now
             /\ pub'[q][1] = "set" => storedAt[pub'[q][2].id] <= pub'[q][2].at
             /\ pub'[q][1] = "announce" => Kept(pub'[q][2].id, pub'[q][2].at)
  <2>1. CASE q = p
    <3>1. pub'[q] = <<"set", [id |-> i, at |-> now]>>
      BY <1>1, <2>1 DEF TypeOK
    <3>2. storedAt[i] <= now
      BY Typed DEF KeptInv, KeysLast
    <3> QED
      BY <3>1, <3>2, Typed
  <2>2. CASE q # p
    <3>1. pub'[q] = pub[q]
      BY <1>1, <2>2 DEF TypeOK
    <3> QED
      BY <1>2, <3>1 DEF KeptInv, PubKept
  <2> QED
    BY <2>1, <2>2
<1>3. PubKept'
  BY <1>1, <1>2 DEF PubKept, Kept
<1> QED
  BY <1>1, <1>3, StillKept DEF KeptInv

\* The one that writes is the one that announces: what it overwrites is older.
LEMMA SetKeeps ==
  ASSUME TypeOK, KeptInv, OnePublisher, NEW p \in Publishers, PublishSet(p)
  PROVE  KeptInv'
<1> DEFINE e == pub[p][2]
<1>1. /\ now' = now /\ list' = list /\ got' = got /\ queue' = queue /\ todo' = todo
      /\ wpc' = wpc /\ pub[p] # <<>> /\ pub[p][1] = "set"
      /\ storedAt' = [storedAt EXCEPT ![e.id] = e.at]
      /\ expiry' = [expiry EXCEPT ![e.id] = now + Life]
      /\ pub' = [pub EXCEPT ![p] = <<"announce", e>>]
  BY DEF PublishSet, watcher, ExpiryOf
<1>2. /\ e.id \in Ids /\ e.at \in Nat /\ e.at <= now /\ storedAt[e.id] <= e.at
  BY <1>1, Typed DEF KeptInv, PubKept
<1>3. storedAt \in [Ids -> Int] /\ expiry \in [Ids -> Nat]
  BY Typed DEF TypeOK, Entries
<1> HIDE DEF e
<1>4. \A i \in Ids : storedAt'[i] >= storedAt[i] /\ storedAt'[i] \in Int
  BY <1>1, <1>2, <1>3
<1>5. ASSUME NEW i \in Ids, NEW t \in Int, Kept(i, t) PROVE Kept(i, t)'
  BY <1>1, <1>3, <1>4, <1>5 DEF Kept
<1>6. KeysLast'
  <2> SUFFICES ASSUME NEW i \in Ids, storedAt'[i] # Never
               PROVE  storedAt'[i] <= now /\ storedAt'[i] + Life <= expiry'[i]
    BY <1>1 DEF KeysLast
  <2>1. CASE i = e.id
    BY <1>1, <1>2, <1>3, <2>1, Typed
  <2>2. CASE i # e.id
    BY <1>1, <1>2, <1>3, <2>2 DEF KeptInv, KeysLast
  <2> QED
    BY <2>1, <2>2
<1>7. ListKept'
  BY <1>1, <1>5, Typed DEF KeptInv, ListKept
<1>8. QueueKept'
  <2> SUFFICES ASSUME NEW k \in 1 .. Len(queue) PROVE Kept(queue[k].id, queue[k].at)'
    BY <1>1 DEF QueueKept
  <2>1. Kept(queue[k].id, queue[k].at)
    BY DEF KeptInv, QueueKept
  <2>2. queue[k].id \in Ids /\ queue[k].at \in Int
    BY Typed
  <2> QED
    BY <1>1, <1>3, <1>4, <2>1, <2>2 DEF Kept
<1>9. PubKept'
  <2> SUFFICES ASSUME NEW q \in Publishers
               PROVE  pub'[q] = <<"announce", e>> /\ Kept(e.id, e.at)'
    BY <1>1, <1>2 DEF PubKept, e
  <2>1. q = p
    BY DEF OnePublisher
  <2>2. pub'[q] = <<"announce", e>>
    BY <1>1, <2>1 DEF TypeOK
  <2>3. storedAt'[e.id] = e.at
    BY <1>1, <1>2, <1>3
  <2> QED
    BY <1>1, <1>2, <2>2, <2>3 DEF Kept, e
<1>10. ResyncCovers'
  BY <1>1 DEF KeptInv, ResyncCovers
<1> QED
  BY <1>6, <1>7, <1>8, <1>9, <1>10 DEF KeptInv

LEMMA AnnounceKeeps ==
  ASSUME TypeOK, KeptInv, NEW p \in Publishers, PublishAnnounce(p) \/ PublishFails(p)
  PROVE  KeptInv'
<1>1. /\ now' = now /\ storedAt' = storedAt /\ expiry' = expiry /\ list' = list /\ got' = got
      /\ todo' = todo /\ wpc' = wpc /\ pub' = [pub EXCEPT ![p] = <<>>]
  BY DEF PublishAnnounce, PublishFails, redis, watcher
<1>2. PubKept'
  <2> SUFFICES ASSUME NEW q \in Publishers, pub'[q] # <<>> PROVE pub'[q] = pub[q]
    BY <1>1 DEF PubKept, KeptInv, Kept
  <2> QED
    BY <1>1 DEF TypeOK
<1>3. QueueKept'
  <2>1. CASE queue' = queue
    BY <1>1, <2>1, StillKept
  <2>2. CASE /\ queue' = Append(queue, pub[p][2]) /\ pub[p] # <<>>
             /\ pub[p][1] = "announce"
    <3> DEFINE e == pub[p][2]
    <3>1. e \in Event /\ queue \in Seq(Event)
      BY <2>2, Typed DEF TypeOK
    <3>2. Kept(e.id, e.at)
      BY <2>2 DEF KeptInv, PubKept
    <3> HIDE DEF e
    <3>3. queue' = Append(queue, e)
      BY <2>2 DEF e
    <3> SUFFICES ASSUME NEW k \in 1 .. Len(queue') PROVE Kept(queue'[k].id, queue'[k].at)
      BY <1>1 DEF QueueKept, Kept
    <3>4. (k \in 1 .. Len(queue) /\ queue'[k] = queue[k]) \/ queue'[k] = e
      BY <3>1, <3>3
    <3> QED
      BY <3>2, <3>4 DEF KeptInv, QueueKept
  <2> QED
    BY <2>1, <2>2 DEF PublishAnnounce, PublishFails, watcher
<1> QED
  BY <1>1, <1>2, <1>3, StillKept DEF KeptInv

-----------------------------------------------------------------------------
(***************************************************************************)
(* The Watch goroutine.                                                    *)
(***************************************************************************)
LEMMA ResyncKeeps ==
  ASSUME TypeOK, KeptInv, ResyncScan PROVE KeptInv'
<1>1. /\ now' = now /\ storedAt' = storedAt /\ expiry' = expiry /\ list' = list
      /\ queue' = queue /\ pub' = pub /\ got' = NoEntries
      /\ todo' = {i \in Ids : storedAt[i] # Never}
  BY DEF ResyncScan, redis
<1>2. \A i \in Ids : Kept(i, Never)
  BY Typed DEF Kept
<1>3. ListKept'
  BY <1>1, <1>2 DEF KeptInv, ListKept, Kept, NoEntries
<1>4. ResyncCovers'
  <2> SUFFICES ASSUME NEW i \in Ids \ todo'
               PROVE  got'[i] >= list[i] \/ list[i] + Life <= now
    BY <1>1 DEF ResyncCovers
  <2>1. storedAt[i] = Never /\ got'[i] = Never
    BY <1>1 DEF NoEntries
  <2>2. Kept(i, list[i])
    BY DEF KeptInv, ListKept
  <2> QED
    BY <2>1, <2>2 DEF Kept
<1> QED
  BY <1>1, <1>3, <1>4, StillKept DEF KeptInv

LEMMA ReadKeeps ==
  ASSUME TypeOK, KeptInv, NEW i \in Ids, ReadKey(i) PROVE KeptInv'
<1>1. /\ now' = now /\ storedAt' = storedAt /\ expiry' = expiry /\ list' = list
      /\ queue' = queue /\ pub' = pub /\ wpc' = wpc
      /\ got' = [got EXCEPT ![i] = storedAt[i]] /\ todo' = todo \ {i} /\ wpc = "read"
  BY DEF ReadKey, redis
<1>2. got'[i] = storedAt[i] /\ \A j \in Ids : j # i => got'[j] = got[j]
  BY <1>1 DEF TypeOK, Entries
<1>3. ListKept'
  <2> SUFFICES ASSUME NEW j \in Ids PROVE Kept(j, list[j]) /\ Kept(j, got'[j])
    BY <1>1 DEF ListKept, Kept
  <2> QED
    BY <1>2, Typed DEF KeptInv, ListKept, Kept
<1>4. ResyncCovers'
  <2> SUFFICES ASSUME NEW j \in Ids \ (todo \ {i})
               PROVE  got'[j] >= list[j] \/ list[j] + Life <= now
    BY <1>1 DEF ResyncCovers
  <2>1. CASE j = i
    BY <1>2, <2>1 DEF KeptInv, ListKept, Kept
  <2>2. CASE j # i
    BY <1>1, <1>2, <2>2 DEF KeptInv, ResyncCovers
  <2> QED
    BY <2>1, <2>2
<1> QED
  BY <1>1, <1>3, <1>4, StillKept DEF KeptInv

LEMMA ReplaceKeeps ==
  ASSUME TypeOK, KeptInv, Replace PROVE KeptInv'
<1>1. /\ now' = now /\ storedAt' = storedAt /\ expiry' = expiry /\ list' = got
      /\ queue' = queue /\ pub' = pub /\ got' = NoEntries /\ wpc' = after
  BY DEF Replace, redis, Fresh
<1>2. ListKept'
  <2> SUFFICES ASSUME NEW i \in Ids PROVE Kept(i, got[i]) /\ Kept(i, Never)
    BY <1>1 DEF ListKept, Kept, NoEntries
  <2> QED
    BY Typed DEF KeptInv, ListKept, Kept
<1>3. ResyncCovers'
  BY <1>1 DEF ResyncCovers, TypeOK
<1> QED
  BY <1>1, <1>2, <1>3, StillKept DEF KeptInv

LEMMA ReceiveKeeps ==
  ASSUME TypeOK, KeptInv, Receive PROVE KeptInv'
<1> DEFINE e == Head(queue)
<1>1. /\ now' = now /\ storedAt' = storedAt /\ expiry' = expiry /\ got' = got
      /\ pub' = pub /\ wpc' = "loop" /\ queue # <<>>
      /\ queue' = Tail(queue) /\ list' = Apply(list, e)
  BY DEF Receive, redis
<1>2. queue \in Seq(Event) /\ 1 \in 1 .. Len(queue) /\ e = queue[1]
  BY <1>1 DEF TypeOK
<1>3. Kept(e.id, e.at) /\ e.id \in Ids
  BY <1>2, Typed DEF KeptInv, QueueKept
<1> HIDE DEF e
<1>4. ListKept'
  <2> SUFFICES ASSUME NEW i \in Ids PROVE Kept(i, list'[i]) /\ Kept(i, got[i])
    BY <1>1 DEF ListKept, Kept
  <2>1. list'[i] = list[i] \/ (i = e.id /\ list'[i] = e.at)
    BY <1>1, <1>3 DEF Apply, TypeOK, Entries
  <2> QED
    BY <1>3, <2>1 DEF KeptInv, ListKept
<1>5. QueueKept'
  <2> SUFFICES ASSUME NEW k \in 1 .. Len(queue') PROVE Kept(queue'[k].id, queue'[k].at)
    BY <1>1 DEF QueueKept, Kept
  <2>1. k + 1 \in 1 .. Len(queue) /\ queue'[k] = queue[k + 1]
    BY <1>1, <1>2
  <2> QED
    BY <2>1 DEF KeptInv, QueueKept
<1>6. ResyncCovers'
  BY <1>1 DEF ResyncCovers
<1> QED
  BY <1>1, <1>4, <1>5, <1>6, StillKept DEF KeptInv

LEMMA PruneKeeps ==
  ASSUME TypeOK, KeptInv, Prune PROVE KeptInv'
<1>1. /\ now' = now /\ storedAt' = storedAt /\ expiry' = expiry /\ got' = got
      /\ pub' = pub /\ wpc' = "loop" /\ queue' = queue /\ list' = Pruned(list)
  BY DEF Prune, redis
<1>2. ListKept'
  <2> SUFFICES ASSUME NEW i \in Ids PROVE Kept(i, list'[i]) /\ Kept(i, got[i])
    BY <1>1 DEF ListKept, Kept
  <2>1. list'[i] = list[i] \/ list'[i] = Never
    BY <1>1 DEF Pruned
  <2>2. Kept(i, Never)
    BY Typed DEF Kept
  <2> QED
    BY <2>1, <2>2 DEF KeptInv, ListKept
<1>3. ResyncCovers'
  BY <1>1 DEF ResyncCovers
<1> QED
  BY <1>1, <1>2, <1>3, StillKept DEF KeptInv

\* A key that expires has outlived the tokens.
LEMMA TickKeeps ==
  ASSUME TypeOK, KeptInv, Tick PROVE KeptInv'
<1>1. /\ now' = now + 1 /\ expiry' = expiry /\ list' = list /\ got' = got /\ queue' = queue
      /\ pub' = pub /\ todo' = todo /\ wpc' = wpc
      /\ storedAt' = [i \in Ids |-> IF expiry[i] <= now + 1 THEN Never ELSE storedAt[i]]
  BY DEF Tick, watcher
<1>2. ASSUME NEW i \in Ids PROVE storedAt'[i] \in {storedAt[i], Never} /\ storedAt'[i] <= storedAt[i]
  BY <1>1, Typed
<1>3. ASSUME NEW i \in Ids, NEW t \in Int, Kept(i, t)
      PROVE  storedAt'[i] >= t \/ t + Life <= now + 1
  <2>1. CASE t + Life <= now
    BY <2>1, <1>3, Typed
  <2>2. CASE storedAt[i] >= t /\ expiry[i] <= now + 1
    <3>1. CASE storedAt[i] = Never
      BY <1>1, <2>2, <3>1
    <3>2. CASE storedAt[i] # Never
      <4>1. storedAt[i] + Life <= expiry[i]
        BY <3>2 DEF KeptInv, KeysLast
      <4> QED
        BY <2>2, <4>1, <1>3, Typed
    <3> QED
      BY <3>1, <3>2
  <2>3. CASE storedAt[i] >= t /\ ~(expiry[i] <= now + 1)
    BY <1>1, <2>3
  <2> QED
    BY <1>3, <2>1, <2>2, <2>3 DEF Kept
<1>4. KeysLast'
  <2> SUFFICES ASSUME NEW i \in Ids, storedAt'[i] # Never
               PROVE  storedAt'[i] <= now + 1 /\ storedAt'[i] + Life <= expiry[i]
    BY <1>1 DEF KeysLast
  <2>1. storedAt'[i] = storedAt[i]
    BY <1>2
  <2> QED
    BY <2>1, Typed DEF KeptInv, KeysLast
<1>5. ListKept'
  BY <1>1, <1>3, Typed DEF KeptInv, ListKept, Kept
<1>6. QueueKept'
  <2> SUFFICES ASSUME NEW k \in 1 .. Len(queue)
               PROVE  storedAt'[queue[k].id] >= queue[k].at \/ queue[k].at + Life <= now + 1
    BY <1>1 DEF QueueKept, Kept
  <2> QED
    BY <1>3, Typed DEF KeptInv, QueueKept
<1>7. PubKept'
  <2> SUFFICES ASSUME NEW p \in Publishers, pub[p] # <<>>
               PROVE  LET e == pub[p][2]
                      IN /\ e.at <= now + 1
                         /\ pub[p][1] = "set" => storedAt'[e.id] <= e.at
                         /\ pub[p][1] = "announce" =>
                              storedAt'[e.id] >= e.at \/ e.at + Life <= now + 1
    BY <1>1 DEF PubKept, Kept
  <2> DEFINE e == pub[p][2]
  <2>1. /\ e.at <= now /\ e.id \in Ids /\ e.at \in Nat
        /\ pub[p][1] = "set" => storedAt[e.id] <= e.at
        /\ pub[p][1] = "announce" => Kept(e.id, e.at)
    BY Typed DEF KeptInv, PubKept
  <2>2. storedAt'[e.id] <= storedAt[e.id] /\ storedAt[e.id] \in Int /\ storedAt'[e.id] \in Int
    BY <1>2, <2>1, Typed
  <2> HIDE DEF e
  <2>3. pub[p][1] = "announce" => storedAt'[e.id] >= e.at \/ e.at + Life <= now + 1
    BY <1>3, <2>1
  <2>4. e.at <= now + 1 /\ (pub[p][1] = "set" => storedAt'[e.id] <= e.at)
    BY <2>1, <2>2, Typed
  <2> QED
    BY <2>3, <2>4 DEF e
<1>8. ResyncCovers'
  <2> SUFFICES ASSUME wpc = "read", NEW i \in Ids \ todo
               PROVE  got[i] >= list[i] \/ list[i] + Life <= now + 1
    BY <1>1 DEF ResyncCovers
  <2> QED
    BY Typed DEF KeptInv, ResyncCovers
<1> QED
  BY <1>4, <1>5, <1>6, <1>7, <1>8 DEF KeptInv

LEMMA KeptStep ==
  ASSUME OnePublisher, ~FlakyReads, MaxRestarts = 0, TypeOK, KeptInv, [Next]_vars
  PROVE  KeptInv'
<1>1. CASE ResyncFails \/ Subscribe \/ Ticker \/ SubscriptionClosed \/ LinkLost \/ LinkRestored
  <2>1. /\ now' = now /\ storedAt' = storedAt /\ expiry' = expiry /\ list' = list /\ got' = got
        /\ todo' = todo /\ pub' = pub /\ queue' \in {queue, <<>>}
        /\ wpc' = "read" => wpc = "read"
    BY <1>1 DEF ResyncFails, AfterResync, Subscribe, Ticker, SubscriptionClosed, LinkLost,
                LinkRestored, redis
  <2>2. ResyncCovers'
    BY <2>1 DEF KeptInv, ResyncCovers
  <2> QED
    BY <2>1, <2>2, StillKept DEF KeptInv
<1>2. CASE UNCHANGED vars
  BY <1>2, StillKept DEF vars, KeptInv
<1>3. ~Restart /\ \A i \in Ids : ~ReadKeyError(i)
  BY DEF Restart, ReadKeyError, TypeOK
<1> QED
  BY <1>1, <1>2, <1>3, BeginKeeps, SetKeeps, AnnounceKeeps, ResyncKeeps, ReadKeeps,
     ReplaceKeeps, ReceiveKeeps, PruneKeeps, TickKeeps DEF Next, Publish, Watch

-----------------------------------------------------------------------------
LEMMA IssuedBefore ==
  ASSUME NEW m \in Nat PROVE IssuedAt(m) \in Int /\ IssuedAt(m) <= m
BY RevocationAssumption DEF IssuedAt

\* A step that changes the list keeps every refusal of a token in force.
LEMMA RefusalStands ==
  ASSUME MaxRestarts = 0, TypeOK, KeptInv, [Next]_vars,
         NEW i \in Ids, NEW m \in 0 .. now,
         Revoked(list, i, m), i \in Sessions => m <= list[i], ~Expired(m, now')
  PROVE  Revoked(list', i, m)
<1>0. m \in Nat /\ now \in Nat /\ Life \in Nat
  BY Typed
<1>1. /\ IssuedAt(m) \in Int /\ IssuedAt(m) <= m /\ list[i] \in Int
  BY <1>0, Typed, IssuedBefore
<1> DEFINE t == IssuedAt(m)
<1>2. t + Life > now'
  <2>1. now' \in Int
    BY <1>0 DEF Next, vars, Publish, Watch, PublishBegin, PublishSet, PublishAnnounce,
         PublishFails, ResyncScan, ResyncFails, ReadKey, ReadKeyError, Replace, Subscribe,
         Ticker, Receive, Prune, SubscriptionClosed, LinkLost, LinkRestored, Tick, Restart
  <2> QED
    BY <1>0, <1>1, <2>1 DEF Expired
<1>3. t <= list[i]
  BY <1>0, <1>1 DEF Revoked
<1>4. \/ list' = list \/ Replace \/ Receive \/ Prune
  <2>1. ~Restart
    BY DEF Restart, TypeOK
  <2> QED
    BY <2>1 DEF Next, vars, Publish, Watch, PublishBegin, PublishSet, PublishAnnounce,
         PublishFails, ResyncScan, ResyncFails, ReadKey, ReadKeyError, Subscribe,
         Ticker, SubscriptionClosed, LinkLost, LinkRestored, Tick, watcher
<1>5. CASE list' = list
  BY <1>5
<1> HIDE DEF t
<1>6. CASE Replace
  <2>1. list' = got /\ now' = now /\ got[i] \in Int /\ Never = -1
    BY <1>6, Typed DEF Replace, Fresh
  <2>2. got[i] >= list[i]
    <3>1. got[i] >= list[i] \/ list[i] + Life <= now
      BY <1>6 DEF Replace, KeptInv, ResyncCovers
    <3>2. ~(list[i] + Life <= now)
      BY <1>0, <1>1, <1>2, <1>3, <2>1 DEF t
    <3> QED
      BY <3>1, <3>2
  <2>3. list[i] >= 0 \/ i \notin Sessions
    BY <1>0, <1>1
  <2> QED
    BY <1>1, <2>1, <2>2, <2>3 DEF Revoked
<1>7. CASE Receive
  <2> DEFINE e == Head(queue)
  <2>1. list' = Apply(list, e) /\ e \in Event
    BY <1>7 DEF Receive, TypeOK
  <2>2. e.id \in Ids /\ e.at \in Nat
    BY <2>1 DEF Event, Time
  <2> HIDE DEF e
  <2>3. \/ list'[i] = list[i]
        \/ list'[i] = e.at /\ (i \in Sessions \/ e.at > list[i])
    BY <2>1, <2>2 DEF Apply, TypeOK, Entries
  <2> QED
    BY <1>1, <2>2, <2>3 DEF Revoked, Never
<1>8. CASE Prune
  <2>1. list' = Pruned(list) /\ now' = now
    BY <1>8 DEF Prune
  <2>2. list'[i] = list[i]
    BY <1>0, <1>1, <1>2, <1>3, <2>1 DEF Pruned, t
  <2> QED
    BY <2>2 DEF Revoked
<1> QED
  BY <1>4, <1>5, <1>6, <1>7, <1>8

\* What one publisher had refused stays refused until the token expires: for
\* any users and sessions, whatever announcement is lost, whatever write and
\* resync fail, and wherever a resync, a pruning and the expiry of a key fall.
\* A key that is there is read (redis.go skips one whose Get fails), and the
\* service does not restart (its list is empty until the first resync ends).
THEOREM NothingUnrevoked ==
  ASSUME OnePublisher, ~FlakyReads, MaxRestarts = 0
  PROVE  Spec => RefusedStaysRefused
<1>1. Init => KeptInv
  <2> SUFFICES ASSUME Init PROVE KeptInv
    OBVIOUS
  <2>1. \A i \in Ids : storedAt[i] = Never /\ list[i] = Never /\ got[i] = Never
    BY DEF Init, NoEntries
  <2>2. KeysLast /\ ListKept
    BY <2>1 DEF KeysLast, ListKept, Kept, Never
  <2>3. QueueKept /\ PubKept /\ ResyncCovers
    BY DEF Init, QueueKept, PubKept, ResyncCovers
  <2> QED
    BY <2>2, <2>3 DEF KeptInv
<1>2. TypeOK /\ KeptInv /\ [Next]_vars => KeptInv'
  BY KeptStep
<1>3. TypeOK /\ KeptInv /\ [Next]_vars =>
        [\A i \in Ids, m \in 0 .. now :
           /\ Revoked(list, i, m)
           /\ i \in Sessions => m <= list[i]
           /\ ~Expired(m, now')
           => Revoked(list', i, m)]_vars
  BY RefusalStands
<1> QED
  BY <1>1, <1>2, <1>3, RevocationTypes, PTL DEF Spec, RefusedStaysRefused
=============================================================================
