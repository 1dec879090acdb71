------------------------------ MODULE Revocation ------------------------------
(***************************************************************************)
(* internal/platform/revocation: how an access token stops working before  *)
(* it expires.  The authentication service records a revocation in Redis   *)
(* and announces it; every service keeps a list in memory, fed by the      *)
(* announcements and repaired by reading all of Redis again.               *)
(*                                                                         *)
(* One service is modelled: services share nothing but Redis.  Time is     *)
(* counted in ticks of a fraction of a second.  A company's cutoff is      *)
(* handled as a user's is, so Users stands for both.                       *)
(***************************************************************************)
EXTENDS Integers, Sequences

CONSTANTS
  Users,         \* ids whose revocation is a cutoff: users, companies
  Sessions,      \* ids whose revocation is exact: sessions
  Publishers,    \* instances of the authentication service
  Life,          \* maxTokenLife, and the lifetime of a token
  Second,        \* ticks in a second, the precision of a token's times
  FlakyReads,    \* TRUE: a Get may fail for another reason than expiry
  FlakyLink,     \* TRUE: the connection to Redis may break
  MaxTime,       \* bound: the clock stops here
  MaxPublishes,  \* bound: revocations published
  MaxRestarts    \* bound: restarts of the service

Ids == Users \cup Sessions
Time == 0 .. MaxTime
Never == -1    \* no entry; earlier than every token

ASSUME RevocationAssumption ==
  /\ Users \cap Sessions = {}
  /\ Life \in Nat \ {0} /\ Second \in Nat \ {0} /\ Life % Second = 0
  /\ FlakyReads \in BOOLEAN /\ FlakyLink \in BOOLEAN
  /\ MaxTime \in Nat /\ MaxPublishes \in Nat /\ MaxRestarts \in Nat

VARIABLES
  now,
  storedAt,   \* Redis: the At of the entry under an id's key
  expiry,     \* Redis: when that key expires
  list,       \* List.sessions, users and companies
  degraded,   \* List.degraded
  wpc,        \* where the Watch goroutine is
  after,      \* where it goes when the resync under way ends
  todo,       \* keys of the scan it has not read yet
  got,        \* entries it has read
  linked,     \* its subscription is in force
  queue,      \* announcements on their way to it
  pub,        \* each publisher's step and event
  published, restarts,
  atStart     \* history: what Redis held when the service last started

redis == <<storedAt, expiry>>
watcher == <<list, degraded, wpc, after, todo, got, linked, queue>>
counters == <<published, restarts, atStart>>
vars == <<now, storedAt, expiry, list, degraded, wpc, after, todo, got, linked,
          queue, pub, published, restarts, atStart>>

Entries == [Ids -> Time \cup {Never}]
NoEntries == [i \in Ids |-> Never]
Event == [id: Ids, at: Time]

\* Every variable has its type.
TypeOK ==
  /\ now \in Time
  /\ storedAt \in Entries
  /\ expiry \in [Ids -> 0 .. MaxTime + Life]
  /\ list \in Entries /\ got \in Entries /\ atStart \in Entries
  /\ degraded \in BOOLEAN /\ linked \in BOOLEAN
  /\ wpc \in {"start", "tick", "closed", "read", "subscribe", "loop"}
  /\ after \in {"subscribe", "loop"}
  /\ todo \subseteq Ids
  /\ queue \in Seq(Event)
  /\ pub \in [Publishers -> {<<>>} \cup ({"set", "announce"} \X Event)]
  /\ published \in 0 .. MaxPublishes /\ restarts \in 0 .. MaxRestarts

(***************************************************************************)
(* A service that has just started, with an empty Redis.                   *)
(***************************************************************************)
Init ==
  /\ now = 0
  /\ storedAt = NoEntries /\ expiry = [i \in Ids |-> 0]
  /\ list = NoEntries /\ got = NoEntries /\ atStart = NoEntries
  /\ degraded = FALSE /\ linked = FALSE
  /\ wpc = "start" /\ after = "subscribe" /\ todo = {}
  /\ queue = <<>>
  /\ pub = [p \in Publishers |-> <<>>]
  /\ published = 0 /\ restarts = 0

-----------------------------------------------------------------------------
(***************************************************************************)
(* Tokens.  A token minted at m says it was issued at IssuedAt(m).         *)
(***************************************************************************)
IssuedAt(m) == (m \div Second) * Second
Expired(m, t) == IssuedAt(m) + Life <= t

\* List.Revoked, for the token minted at m of the user or session i.
Revoked(l, i, m) == IF i \in Sessions THEN l[i] # Never ELSE IssuedAt(m) < l[i]

-----------------------------------------------------------------------------
(***************************************************************************)
(* Store.Publish: the durable write, then the announcement.                *)
(***************************************************************************)
PublishBegin(p, i) ==
  /\ pub[p] = <<>>
  /\ published < MaxPublishes
  /\ pub' = [pub EXCEPT ![p] = <<"set", [id |-> i, at |-> now]>>]
  /\ published' = published + 1
  /\ UNCHANGED <<now, redis, watcher, restarts, atStart>>

ExpiryLong(t) == t + 2 * Life
ExpiryOf(t) == t + Life

PublishSet(p) ==
  LET e == pub[p][2]
  IN /\ pub[p] # <<>> /\ pub[p][1] = "set"
     /\ storedAt' = [storedAt EXCEPT ![e.id] = e.at]
     /\ expiry' = [expiry EXCEPT ![e.id] = ExpiryOf(now)]
     /\ pub' = [pub EXCEPT ![p] = <<"announce", e>>]
     /\ UNCHANGED <<now, watcher, counters>>

PublishAnnounce(p) ==
  /\ pub[p] # <<>> /\ pub[p][1] = "announce"
  /\ queue' = IF linked THEN Append(queue, pub[p][2]) ELSE queue
  /\ pub' = [pub EXCEPT ![p] = <<>>]
  /\ UNCHANGED <<now, redis, list, degraded, wpc, after, todo, got, linked, counters>>

\* The write is refused, or the announcement is: Publish returns.
PublishFails(p) ==
  /\ FlakyLink
  /\ pub[p] # <<>>
  /\ pub' = [pub EXCEPT ![p] = <<>>]
  /\ UNCHANGED <<now, redis, watcher, counters>>

-----------------------------------------------------------------------------
(***************************************************************************)
(* Store.Watch.  A resync scans the keys, gets them one by one, and swaps  *)
(* the list.                                                               *)
(***************************************************************************)
ResyncLabels == {"start", "tick", "closed"}
AfterResync == IF wpc = "tick" THEN "loop" ELSE "subscribe"

ResyncScan ==
  /\ wpc \in ResyncLabels
  /\ wpc' = "read"
  /\ after' = AfterResync
  /\ todo' = {i \in Ids : storedAt[i] # Never}
  /\ got' = NoEntries
  /\ UNCHANGED <<now, redis, list, degraded, linked, queue, pub, counters>>

\* MarkDegraded: the list answers from what it last knew.
ResyncFails ==
  /\ FlakyLink
  /\ wpc \in ResyncLabels
  /\ wpc' = AfterResync
  /\ degraded' = TRUE
  /\ UNCHANGED <<now, redis, list, after, todo, got, linked, queue, pub, counters>>

ReadKey(i) ==
  /\ wpc = "read"
  /\ i \in todo
  /\ todo' = todo \ {i}
  /\ got' = [got EXCEPT ![i] = storedAt[i]]
  /\ UNCHANGED <<now, redis, list, degraded, wpc, after, linked, queue, pub, counters>>

ReadKeyError(i) ==
  /\ FlakyReads
  /\ wpc = "read"
  /\ i \in todo
  /\ todo' = todo \ {i}
  /\ UNCHANGED <<now, redis, list, degraded, wpc, after, got, linked, queue, pub, counters>>

KeepOld(l, g) == l
Fresh(l, g) == g

Replace ==
  /\ wpc = "read"
  /\ todo = {}
  /\ list' = Fresh(list, got)
  /\ degraded' = FALSE
  /\ wpc' = after
  /\ got' = NoEntries
  /\ UNCHANGED <<now, redis, after, todo, linked, queue, pub, counters>>

Subscribe ==
  /\ wpc = "subscribe"
  /\ wpc' = "loop"
  /\ linked' = TRUE
  /\ UNCHANGED <<now, redis, list, degraded, after, todo, got, queue, pub, counters>>

Ticker ==
  /\ wpc = "loop"
  /\ wpc' = "tick"
  /\ UNCHANGED <<now, redis, list, degraded, after, todo, got, linked, queue, pub, counters>>

\* List.Apply: a session's entry is overwritten, a cutoff only moves later.
ApplyLast(l, e) == [l EXCEPT ![e.id] = e.at]
Apply(l, e) ==
  IF e.id \in Sessions \/ e.at > l[e.id] THEN [l EXCEPT ![e.id] = e.at] ELSE l

Receive ==
  /\ wpc = "loop"
  /\ queue # <<>>
  /\ list' = Apply(list, Head(queue))
  /\ queue' = Tail(queue)
  /\ UNCHANGED <<now, redis, degraded, wpc, after, todo, got, linked, pub, counters>>

\* List.Prune.
Pruned(l) == [i \in Ids |-> IF l[i] < now - Life THEN Never ELSE l[i]]

Prune ==
  /\ wpc = "loop"
  /\ Pruned(list) # list
  /\ list' = Pruned(list)
  /\ UNCHANGED <<now, redis, degraded, wpc, after, todo, got, linked, queue, pub, counters>>

\* The client closes the channel: what was buffered has been received.
SubscriptionClosed ==
  /\ FlakyLink
  /\ wpc = "loop"
  /\ queue = <<>>
  /\ wpc' = "closed"
  /\ degraded' = TRUE
  /\ linked' = FALSE
  /\ UNCHANGED <<now, redis, list, after, todo, got, queue, pub, counters>>

-----------------------------------------------------------------------------
(***************************************************************************)
(* The Redis client and server: the client reconnects by itself, and what  *)
(* is announced meanwhile is lost; keys expire.                            *)
(***************************************************************************)
LinkLost ==
  /\ FlakyLink
  /\ linked
  /\ linked' = FALSE
  /\ queue' = <<>>
  /\ UNCHANGED <<now, redis, list, degraded, wpc, after, todo, got, pub, counters>>

LinkRestored ==
  /\ wpc \in {"loop", "tick", "read"}
  /\ after = "loop" \/ wpc # "read"
  /\ ~linked
  /\ linked' = TRUE
  /\ UNCHANGED <<now, redis, list, degraded, wpc, after, todo, got, queue, pub, counters>>

Tick ==
  /\ now < MaxTime
  /\ now' = now + 1
  /\ storedAt' = [i \in Ids |-> IF expiry[i] <= now + 1 THEN Never ELSE storedAt[i]]
  /\ UNCHANGED <<expiry, watcher, pub, counters>>

\* The service restarts: FromEnv hands out an empty list and starts Watch.
Restart ==
  /\ restarts < MaxRestarts
  /\ restarts' = restarts + 1
  /\ list' = NoEntries /\ got' = NoEntries /\ todo' = {}
  /\ degraded' = FALSE /\ linked' = FALSE /\ queue' = <<>>
  /\ wpc' = "start" /\ after' = "subscribe"
  /\ atStart' = storedAt
  /\ UNCHANGED <<now, redis, pub, published>>

Publish(p) ==
  \/ \E i \in Ids : PublishBegin(p, i)
  \/ PublishSet(p) \/ PublishAnnounce(p) \/ PublishFails(p)

Watch ==
  \/ ResyncScan \/ ResyncFails \/ Replace \/ Subscribe
  \/ \E i \in Ids : ReadKey(i) \/ ReadKeyError(i)
  \/ Ticker \/ Receive \/ Prune \/ SubscriptionClosed

Next == \/ \E p \in Publishers : Publish(p)
        \/ Watch
        \/ LinkLost \/ LinkRestored \/ Tick \/ Restart

\* The goroutine runs, the ticker fires and select takes it; Redis, when a
\* scan or a read fails, answers it again and again.
Fairness ==
  /\ SF_vars(ResyncScan)
  /\ \A i \in Ids : SF_vars(ReadKey(i))
  /\ WF_vars(Replace)
  /\ WF_vars(Subscribe)
  /\ WF_vars(Ticker)

Spec == Init /\ [][Next]_vars
FairSpec == Spec /\ Fairness

-----------------------------------------------------------------------------
(***************************************************************************)
(* What must hold.                                                         *)
(***************************************************************************)
\* What is refused stays refused until the token expires by itself: no resync,
\* no pruning, no expiry of a key and no announcement that arrives late lets a
\* revoked token in again (Publish: "briefly un-revoking something").
RefusedStaysRefused ==
  [][\A i \in Ids, m \in 0 .. now :
       /\ Revoked(list, i, m)
       /\ i \in Sessions => m <= list[i]
       /\ ~Expired(m, now')
       => Revoked(list', i, m)]_vars

\* A revocation that was recorded takes effect, or its entry expires: what the
\* announcement missed, a resync repairs (redis.go:30).
EveryRevocationTakesEffect ==
  \A i \in Ids, a \in Time :
    (storedAt[i] = a) ~> (list[i] >= a \/ storedAt[i] # a)

\* The service knows from its start what was recorded before it (Watch: "a
\* service is correct from the moment it starts").
RightFromTheStart ==
  \A i \in Ids :
    atStart[i] # Never /\ now <= atStart[i] + Life => list[i] >= atStart[i]

\* Signing in again works: a token minted after the cutoff is accepted
\* (List.Revoked: "Tokens minted afterwards ... are unaffected").
SigningInAgainWorks ==
  \A u \in Users : list[u] # Never =>
    \A m \in list[u] .. now : ~Revoked(list, u, m)
=============================================================================
