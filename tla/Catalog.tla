------------------------------- MODULE Catalog -------------------------------
(***************************************************************************)
(* The reference lists (internal/services/catalog.go, catalog_write.go)    *)
(* and the cache in front of them (internal/platform/cache).               *)
(*                                                                         *)
(* A read that misses the cache queries the database and then fills the    *)
(* cache; a write changes the database and then sweeps the cache.  Each    *)
(* statement is one action, and other requests act between any two.  What  *)
(* a write of a vehicle group does to vehicles is in Pairing.              *)
(***************************************************************************)
EXTENDS Integers, FiniteSets, Sequences

CONSTANTS
  Requests,   \* requests in flight at once
  Companies,
  Staff,      \* the caller: Karlo staff
  Nobody,     \* the caller: another service, naming no company
  Shared,     \* the owner of an entry without a companyId
  Kinds, Owned, Shareable,   \* catalogKinds, with owned and shareable
  Ids,        \* documents
  Names,
  All,        \* a listing, where a Get has an id
  Clients,    \* bound: the callers that make requests
  CanFail,    \* TRUE: a cache call fails, or a request dies, between statements
  Concurrent, \* TRUE: a request starts while another is under way
  MaxWrites   \* bound: writes begun

Callers == Companies \cup {Staff, Nobody}
Owners == Companies \cup {Shared}
Queries == Ids \cup {All}

ASSUME CatalogAssumption ==
  /\ Staff \notin Companies /\ Nobody \notin Companies /\ Shared \notin Companies
  /\ Staff # Nobody
  /\ Shareable \subseteq Owned /\ Owned \subseteq Kinds
  /\ Kinds # {} /\ Names # {}
  /\ All \notin Ids
  /\ Clients \subseteq Callers
  /\ CanFail \in BOOLEAN /\ Concurrent \in BOOLEAN
  /\ MaxWrites \in Nat

VARIABLES
  docs,    \* the documents of all catalogue collections
  cache,   \* Redis, by key
  pc, local, writes

vars == <<docs, cache, pc, local, writes>>

Doc == [kind: Kinds, owner: Owners, name: Names, deleted: BOOLEAN]
Absent == [deleted |-> TRUE]   \* an id not minted yet
Entry == [id: Ids, name: Names]

\* catalogScope: the tenant segment of a key.
ScopeOfNobody(c) == Nobody
catalogScope(c) == c

\* catalogEntryKey and catalogListKey.
Keys == [scope: {catalogScope(c) : c \in Callers}, kind: Kinds, query: Queries]
KeyOf(c, k, q) == [scope |-> catalogScope(c), kind |-> k, query |-> q]

Hit(entries) == [hit |-> TRUE, entries |-> entries]
Miss == [hit |-> FALSE, entries |-> {}]
Cached == {Miss} \cup [hit: {TRUE}, entries: SUBSET Entry]

Labels == {"idle", "get", "find", "fill", "replace", "retire", "scan", "drop"}
Local == [caller: Callers, kind: Kinds, query: Queries, name: Names,
          doc: Doc \cup {Absent}, entries: SUBSET Entry,
          sweeps: Seq(SUBSET Keys), scanned: SUBSET Keys, readsBack: BOOLEAN]

\* A request that has begun nothing.
Idle == [caller |-> Nobody, kind |-> CHOOSE k \in Kinds : TRUE, query |-> All,
         name |-> CHOOSE n \in Names : TRUE, doc |-> Absent, entries |-> {},
         sweeps |-> <<>>, scanned |-> {}, readsBack |-> FALSE]

\* Every variable has its type.
TypeOK ==
  /\ docs \in [Ids -> Doc \cup {Absent}]
  /\ cache \in [Keys -> Cached]
  /\ pc \in [Requests -> Labels]
  /\ local \in [Requests -> Local]
  /\ writes \in 0 .. MaxWrites

Live(i) == ~docs[i].deleted

\* The unique indexes.  Those of the unowned kinds cover retired entries too.
NameTaken(i, k, o, n) ==
  \E j \in Ids \ {i} :
    /\ docs[j] # Absent
    /\ docs[j].kind = k /\ docs[j].owner = o /\ docs[j].name = n
    /\ Live(j) \/ k \notin Owned

\* Whose an entry of kind k may be.
Storable(k, o) == IF k \in Owned THEN o = Shared => k \in Shareable ELSE o = Shared

(***************************************************************************)
(* The catalogues hold entries already, and the cache is empty.            *)
(***************************************************************************)
Init ==
  /\ docs \in [Ids -> Doc \cup {Absent}]
  /\ \A i \in Ids : docs[i] # Absent =>
       /\ Live(i)
       /\ Storable(docs[i].kind, docs[i].owner)
       /\ ~NameTaken(i, docs[i].kind, docs[i].owner, docs[i].name)
  /\ cache = [key \in Keys |-> Miss]
  /\ pc = [r \in Requests |-> "idle"]
  /\ local = [r \in Requests |-> Idle]
  /\ writes = 0

Go(r, to) == pc' = [pc EXCEPT ![r] = to]
Learn(r, l) == local' = [local EXCEPT ![r] = l]
End(r) == Go(r, "idle") /\ Learn(r, Idle)

Begin(r) ==
  /\ pc[r] = "idle"
  /\ Concurrent \/ \A s \in Requests : pc[s] = "idle"

BeginWrite(r) ==
  /\ Begin(r)
  /\ writes < MaxWrites
  /\ writes' = writes + 1

-----------------------------------------------------------------------------
(***************************************************************************)
(* Reads.                                                                  *)
(***************************************************************************)
\* visibility: a company sees the shared entries and its own.
visible(c, d) == c = Staff \/ d.owner = Shared \/ d.owner = c

Answer(c, k, q) ==
  {[id |-> i, name |-> docs[i].name] :
     i \in {j \in Ids : /\ Live(j) /\ docs[j].kind = k
                        /\ visible(c, docs[j])
                        /\ q \in {All, j}}}

\* List and Get: a cached answer is returned as it is and changes nothing.
ReadMiss(r, c, k, q) ==
  /\ Begin(r)
  /\ ~cache[KeyOf(c, k, q)].hit
  /\ Go(r, "find")
  /\ Learn(r, [Idle EXCEPT !.caller = c, !.kind = k, !.query = q])
  /\ UNCHANGED <<docs, cache, writes>>

\* The handlers answer a write with a Get of what was written.
ReadBack(r) ==
  /\ pc[r] = "get"
  /\ IF cache[KeyOf(local[r].caller, local[r].kind, local[r].query)].hit
     THEN End(r)
     ELSE Go(r, "find") /\ UNCHANGED local
  /\ UNCHANGED <<docs, cache, writes>>

\* A Get that finds nothing answers not found and caches nothing.
Find(r) ==
  LET l == local[r]
      found == Answer(l.caller, l.kind, l.query)
  IN /\ pc[r] = "find"
     /\ IF found = {} /\ l.query # All
        THEN End(r)
        ELSE Go(r, "fill") /\ Learn(r, [l EXCEPT !.entries = found])
     /\ UNCHANGED <<docs, cache, writes>>

Fill(r) ==
  LET l == local[r]
  IN /\ pc[r] = "fill"
     /\ cache' = [cache EXCEPT ![KeyOf(l.caller, l.kind, l.query)] = Hit(l.entries)]
     /\ End(r)
     /\ UNCHANGED <<docs, writes>>

\* Resolve: what a batch of references resolves to for a company.
Resolve(c, ids) == {i \in ids : Live(i) /\ visible(c, docs[i])}

\* Validate: the references an order may not be stored with.
Validate(c, ids) == ids \ Resolve(c, ids)

-----------------------------------------------------------------------------
(***************************************************************************)
(* Writes.  invalidate sweeps one prefix after the other.                  *)
(***************************************************************************)
Prefix(c, k) == {key \in Keys : key.scope = catalogScope(c) /\ key.kind = k}

OwnListOnly(c, k) == IF c = Staff THEN <<Keys>> ELSE <<Prefix(c, k)>>
invalidate(c, k) == IF c = Staff THEN <<Keys>> ELSE <<Prefix(c, k), Prefix(Staff, k)>>

\* Who may create an entry of kind k for owner o: scopeFor, and the refusals
\* around it.
MayCreate(c, k, o) == Storable(k, o) /\ (c = Staff \/ (k \in Owned /\ o = c))

Create(r, c, k, o, n, i) ==
  /\ BeginWrite(r)
  /\ MayCreate(c, k, o)
  /\ docs[i] = Absent
  /\ ~NameTaken(i, k, o, n)
  /\ docs' = [docs EXCEPT ![i] = [kind |-> k, owner |-> o, name |-> n, deleted |-> FALSE]]
  /\ Go(r, IF k \in Owned THEN "scan" ELSE "get")
  /\ Learn(r, [Idle EXCEPT !.caller = c, !.kind = k, !.query = i, !.readsBack = TRUE,
                           !.sweeps = IF k \in Owned THEN invalidate(c, k) ELSE <<>>])
  /\ UNCHANGED cache

\* load: the entry is there, and the caller's to change.
AnyEntry(c, d) == TRUE
MayChange(c, d) == c = Staff \/ d.owner = c

Load(r, c, i, n, to) ==
  /\ BeginWrite(r)
  /\ Live(i)
  /\ MayChange(c, docs[i])
  /\ Go(r, to)
  /\ Learn(r, [Idle EXCEPT !.caller = c, !.kind = docs[i].kind, !.query = i,
                           !.name = n, !.doc = docs[i]])
  /\ UNCHANGED <<docs, cache>>

UpdateLoad(r, c, i, n) == Load(r, c, i, n, "replace")

Invalidating(r, readsBack) ==
  /\ Go(r, "scan")
  /\ Learn(r, [local[r] EXCEPT !.doc = Absent, !.readsBack = readsBack,
                               !.sweeps = invalidate(local[r].caller, local[r].kind)])

\* The whole document is replaced by the copy that was loaded, renamed.
Merged(d, n) == [d EXCEPT !.name = n]

UpdateReplace(r) ==
  LET l == local[r]
  IN /\ pc[r] = "replace"
     /\ ~NameTaken(l.query, l.kind, l.doc.owner, l.name)
     /\ docs' = [docs EXCEPT ![l.query] = Merged(l.doc, l.name)]
     /\ Invalidating(r, TRUE)
     /\ UNCHANGED <<cache, writes>>

UpdateDuplicate(r) ==
  LET l == local[r]
  IN /\ pc[r] = "replace"
     /\ NameTaken(l.query, l.kind, l.doc.owner, l.name)
     /\ End(r)
     /\ UNCHANGED <<docs, cache, writes>>

DeleteLoad(r, c, i) == Load(r, c, i, docs[i].name, "retire")

DeleteRetire(r) ==
  /\ pc[r] = "retire"
  /\ docs' = [docs EXCEPT ![local[r].query] = [@ EXCEPT !.deleted = TRUE]]
  /\ Invalidating(r, FALSE)
  /\ UNCHANGED <<cache, writes>>

-----------------------------------------------------------------------------
(***************************************************************************)
(* DeleteByPrefix: SCAN for the keys, then DEL what it returned.           *)
(***************************************************************************)
Scan(r) ==
  /\ pc[r] = "scan"
  /\ Go(r, "drop")
  /\ Learn(r, [local[r] EXCEPT !.scanned = {key \in Head(local[r].sweeps) : cache[key].hit}])
  /\ UNCHANGED <<docs, cache, writes>>

NextSweep(r) ==
  LET rest == Tail(local[r].sweeps)
  IN IF rest = <<>> /\ ~local[r].readsBack
     THEN End(r)
     ELSE /\ Go(r, IF rest = <<>> THEN "get" ELSE "scan")
          /\ Learn(r, [local[r] EXCEPT !.sweeps = rest, !.scanned = {}])

Drop(r) ==
  /\ pc[r] = "drop"
  /\ cache' = [key \in Keys |-> IF key \in local[r].scanned THEN Miss ELSE cache[key]]
  /\ NextSweep(r)
  /\ UNCHANGED <<docs, writes>>

\* A SCAN or a DEL fails: logged, and the handler goes on.
SweepFails(r) ==
  /\ CanFail
  /\ pc[r] \in {"scan", "drop"}
  /\ NextSweep(r)
  /\ UNCHANGED <<docs, cache, writes>>

\* The process dies, or a statement of the request fails.
Die(r) ==
  /\ CanFail
  /\ pc[r] # "idle"
  /\ End(r)
  /\ UNCHANGED <<docs, cache, writes>>

\* Redis drops a key at the end of its time to live, catalogTTL.
KeptForever(key) == FALSE
Expires(key) == cache[key].hit

Expire(key) ==
  /\ Expires(key)
  /\ cache' = [cache EXCEPT ![key] = Miss]
  /\ UNCHANGED <<docs, pc, local, writes>>

Step(r) ==
  \/ ReadBack(r) \/ Find(r) \/ Fill(r)
  \/ UpdateReplace(r) \/ UpdateDuplicate(r) \/ DeleteRetire(r)
  \/ Scan(r) \/ Drop(r)

Arrive(r) ==
  \/ \E c \in Clients, k \in Kinds, q \in Queries : ReadMiss(r, c, k, q)
  \/ \E c \in Clients \ {Nobody} :
       \/ \E k \in Kinds, o \in Owners, n \in Names, i \in Ids : Create(r, c, k, o, n, i)
       \/ \E i \in Ids, n \in Names : UpdateLoad(r, c, i, n)
       \/ \E i \in Ids : DeleteLoad(r, c, i)

Next ==
  \/ \E r \in Requests : Arrive(r) \/ Step(r) \/ SweepFails(r) \/ Die(r)
  \/ \E key \in Keys : Expire(key)

\* A request that has begun runs to its end, and keys expire.
Fairness ==
  /\ \A r \in Requests : WF_vars(Step(r))
  /\ \A key \in Keys : WF_vars(Expire(key))

Spec == Init /\ [][Next]_vars
FairSpec == Spec /\ Fairness

-----------------------------------------------------------------------------
(***************************************************************************)
(* What must hold.                                                         *)
(***************************************************************************)
\* Nobody is served what is not theirs to see: whatever the interleaving and
\* whatever fails, an answer cached for a company holds shared entries and its
\* own, and one cached for callers without a company only shared ones
\* (catalogScope: "a key without it would let one company's read populate an
\* entry another company then receives").
NoLeak ==
  \A c \in Companies \cup {Nobody}, k \in Kinds, q \in Queries :
    \A e \in cache[KeyOf(c, k, q)].entries : docs[e.id].owner \in {Shared, c}

Fresh(c, k, q) ==
  cache[KeyOf(c, k, q)].hit => cache[KeyOf(c, k, q)].entries = Answer(c, k, q)

\* When no request is under way, what the cache holds is what the database
\* would answer (catalogTTL: "Writes through this service invalidate
\* explicitly, so in practice a change is visible on the next read").
CacheCurrent ==
  (\A r \in Requests : pc[r] = "idle") =>
    \A c \in Callers, k \in Kinds, q \in Queries : Fresh(c, k, q)

\* However a fill and a sweep interleave, and whatever sweep fails, the cache
\* is right again in the end (catalogTTL "bounds how stale a catalogue read
\* can be if an invalidation is missed").
CacheRecovers ==
  <>[](\A c \in Callers, k \in Kinds, q \in Queries : Fresh(c, k, q))

\* A company writes its own entries and nobody else's, and no write changes whose
\* an entry is: no order of loads and writes, and no entry retired or edited by
\* another between the two, lets it change a shared entry or another company's
\* (load; Update replaces by id alone).
WritesItsOwn ==
  [][\A i \in Ids : docs'[i] # docs[i] =>
       /\ docs[i] # Absent => docs'[i].owner = docs[i].owner
       /\ \E r \in Requests : /\ pc'[r] # pc[r]
                              /\ local'[r].caller \in {Staff, docs'[i].owner}]_vars

\* A retired entry is not brought back (Update: "a full replace of a document
\* that EXISTS").
RetiredStaysRetired ==
  [][\A i \in Ids : docs[i] # Absent /\ docs[i].deleted => docs'[i].deleted]_vars

\* The name of a retired entry can be used again (Delete: "removing an entry
\* frees its name for reuse").
RetiredNameIsFree ==
  \A i, j \in Ids :
    /\ docs[i] # Absent /\ docs[i].deleted
    /\ docs[j] = Absent
    /\ NameTaken(j, docs[i].kind, docs[i].owner, docs[i].name)
    => \E m \in Ids : Live(m) /\ docs[m].name = docs[i].name

\* What was referenced before it was retired still resolves (Delete: "the
\* documents that reference it keep resolving").
RetiredKeepsResolving ==
  \A i \in Ids, c \in Companies :
    docs[i] # Absent /\ visible(c, docs[i]) => i \notin Validate(c, Ids)
=============================================================================
