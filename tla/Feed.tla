-------------------------------- MODULE Feed --------------------------------
(***************************************************************************)
(* One company's documents in a collection, the writes of the document     *)
(* store (internal/repository/repository.go) and a reader who pages        *)
(* through them while they change: the listings of drivers, vehicles,      *)
(* devices, trucks and sites over HTTP and gRPC (handlers, grpcserver,     *)
(* services/registry.go, services/fleet.go) and the feed another service   *)
(* keeps its projection of the drivers from (ListDriversForSync).          *)
(*                                                                         *)
(* A document is its _id, a natural number so that ids have an order, one  *)
(* field a listing narrows and sorts by (a driver's or vehicle's status,   *)
(* the customer of a site, the vehicle a device is on, "yes" for a truck   *)
(* that is free), whether it is retired, and updatedAt.  An id is made by  *)
(* the service and not by the database, so ids do not arrive in order.     *)
(*                                                                         *)
(* Every page is two statements, a count and a find, and for devices asked *)
(* for by what they are on a third before them; of devices the documents   *)
(* are those of the kind asked for, which never changes.  A write stamps   *)
(* its document first and reaches the database later.  The reader is not   *)
(* part of the repository: one of a listing follows the page count it is   *)
(* given, one of the feed asks until a page comes back short.              *)
(***************************************************************************)
EXTENDS Listing

CONSTANTS
  Ids,        \* _ids
  Tags,       \* values of the field; "" is none
  Rank,       \* how the field sorts
  Queries,    \* what a reader asks
  Writers,    \* writes in flight at once
  MaxWrites,  \* bound: writes while the model runs
  MaxClock    \* bound: instants

\* A request, once its parameters are split: of devices a listing asks for all
\* of them, for the fitted or the spare ones, or for those on a vehicle.
IsQuery(query) ==
  /\ query.edge \in {"http", "grpc"}
  /\ query.kind \in {"drivers", "vehicles", "trucks", "warehouses", "trackers", "sync"}
  /\ query.size \in Int /\ query.since \in Nat
  /\ query.kind = "trackers" => query.narrow \in {"fitted", "spare"} \cup Tags

ASSUME FeedAssumption ==
  /\ Ids \subseteq Nat /\ IsFiniteSet(Ids)
  /\ Rank \in [Tags -> Nat]
  /\ MaxWrites \in Nat /\ MaxClock \in Nat
  /\ \A query \in Queries : IsQuery(query)

VARIABLES
  docs,     \* the documents
  writing,  \* writes stamped and not yet made
  writes,   \* how many have been started
  clock,
  walk      \* the reader

vars == <<docs, writing, writes, clock, walk>>

Absent == [deleted |-> TRUE]
Idle == [op |-> "none"]

Documents == [tag : Tags, deleted : BOOLEAN, updatedAt : 0..MaxClock]

\* Some documents are there already.
Init ==
  /\ docs \in [Ids -> {d \in Documents : d.updatedAt = 0} \cup {Absent}]
  /\ writing = [w \in Writers |-> Idle]
  /\ writes = 0
  /\ clock = 0
  /\ walk = [at |-> "nowhere"]

(***************************************************************************)
(* What a query matches.                                                   *)
(***************************************************************************)

Fields ==
  LET trackers == {"deviceId", "kind", "owner", "status", "createdAt"}
      trucks == {"policeNumber", "status", "isAvailable", "createdAt"}
      warehouses == {"name", "city", "createdAt"}
  IN  [http |-> [drivers |-> {"fullName", "phone", "employeeNo", "licenseExpiry",
                              "status", "createdAt"},
                 vehicles |-> {"licensePlate", "status", "unitType", "isAvailable",
                               "unitYear", "createdAt", "updatedAt"},
                 trackers |-> trackers,
                 trucks |-> trucks,
                 warehouses |-> warehouses \cup {"customerCompanyId"}],
       grpc |-> [trackers |-> trackers, trucks |-> trucks, warehouses |-> warehouses]]

MatchesDriver(query, doc) == query.narrow \in {"", doc.tag}

MatchesVehicle(query, doc) == query.narrow \in {"", doc.tag}

\* HTTP has a parameter of its own for trucks that are free, gRPC a clause.
AvailableOnly(query, params) ==
  IF query.edge = "http" THEN query.narrow = "true"
  ELSE \E k \in DOMAIN params.filters :
         params.filters[k].field = "isAvailable" /\ params.filters[k].value = "true"

MatchesTruck(query, params, doc) == AvailableOnly(query, params) => doc.tag = "yes"

\* The sites are narrowed by the last clause on their customer, whatever its
\* operator; "own" are the ones that have none.
MatchesWarehouse(params, doc) ==
  LET clauses == {k \in DOMAIN params.filters : params.filters[k].field = "customerCompanyId"}
      last == CHOOSE k \in clauses : \A l \in clauses : l <= k
      value == params.filters[last].value
  IN  clauses # {} => doc.tag = IF value = "own" THEN "" ELSE value

\* The open rows ListTrackers looks at: all, or those of the vehicle asked for.
Looked(query, tag) == tag # "" /\ query.narrow \in {"fitted", "spare", tag}

MatchesTracker(query, doc) ==
  query.narrow # "" => (query.narrow # "spare" <=> Looked(query, doc.tag))

\* The feed without the retired documents.
MatchesSyncLive(query, doc) == ~doc.deleted /\ doc.updatedAt >= query.since

MatchesSync(query, doc) == doc.updatedAt >= query.since

Matches(query, params, doc) ==
  IF query.kind = "sync" THEN MatchesSync(query, doc)
  ELSE /\ ~doc.deleted
       /\ CASE query.kind = "drivers" -> MatchesDriver(query, doc)
            [] query.kind = "vehicles" -> MatchesVehicle(query, doc)
            [] query.kind = "trucks" -> MatchesTruck(query, params, doc)
            [] query.kind = "warehouses" -> MatchesWarehouse(params, doc)
            [] query.kind = "trackers" -> MatchesTracker(query, doc)

Matching(query, params, documents) ==
  {i \in Ids : documents[i] # Absent /\ Matches(query, params, documents[i])}

(***************************************************************************)
(* Writes.                                                                 *)
(***************************************************************************)

Live(i) == docs[i] # Absent /\ ~docs[i].deleted

Stamped(tag) == [tag |-> tag, deleted |-> FALSE, updatedAt |-> clock]

Begin(w, op, i, doc) ==
  /\ writing[w] = Idle
  /\ writes < MaxWrites
  /\ writing' = [writing EXCEPT ![w] = [op |-> op, id |-> i, doc |-> doc]]
  /\ writes' = writes + 1
  /\ UNCHANGED <<docs, clock, walk>>

CreateDriver(w, i, tag) ==
  /\ docs[i] = Absent
  /\ \A v \in Writers : writing[v] # Idle => writing[v].id # i
  /\ Begin(w, "create", i, Stamped(tag))

UpdateDriver(w, i, tag) == Live(i) /\ Begin(w, "update", i, Stamped(tag))

DeleteDriver(w, i) == Live(i) /\ Begin(w, "retire", i, Stamped(docs[i].tag))

Reading == walk.at \in {"distinct", "count", "find"}

\* Where a page begins.
FirstStep(query) ==
  IF query.kind = "trackers" /\ query.narrow # "" THEN "distinct" ELSE "count"

\* Of a write between two pages the properties ask whether a document has left
\* what is read, and whether anything has changed there.  Devices asked for by
\* what they are on are found by ids read a statement earlier, so for them any
\* device that comes or goes is a change.
Undisturbed(before, after) ==
  LET was == Matching(walk.query, walk.params, before)
      is == Matching(walk.query, walk.params, after)
  IN  /\ was = is
      /\ \A i \in is : after[i].tag = before[i].tag
      /\ FirstStep(walk.query) = "distinct" =>
           \A i \in Ids : after[i].deleted = before[i].deleted

Seen(before, after) ==
  walk' = IF ~Reading THEN walk
          ELSE [walk EXCEPT
                  !.left = @ \/ ~(Matching(walk.query, walk.params, before)
                                    \subseteq Matching(walk.query, walk.params, after)),
                  !.steady = @ /\ Undisturbed(before, after)]

\* A write reaches the database: the whole document, or for a retirement the
\* flag and the stamp.
Land(w) ==
  /\ writing[w] # Idle
  /\ LET i == writing[w].id
         doc == writing[w].doc
     IN  docs' = [docs EXCEPT ![i] =
                    IF writing[w].op = "retire"
                      THEN [@ EXCEPT !.deleted = TRUE, !.updatedAt = doc.updatedAt]
                      ELSE doc]
  /\ Seen(docs, docs')
  /\ writing' = [writing EXCEPT ![w] = Idle]
  /\ UNCHANGED <<writes, clock>>

\* A unique index refuses it, or the request dies.
Fail(w) ==
  /\ writing[w] # Idle
  /\ writing' = [writing EXCEPT ![w] = Idle]
  /\ UNCHANGED <<docs, writes, clock, walk>>

Tick ==
  /\ clock < MaxClock
  /\ clock' = clock + 1
  /\ UNCHANGED <<docs, writing, writes, walk>>

(***************************************************************************)
(* Reading.                                                                *)
(***************************************************************************)

ParamsOf(query) ==
  CASE query.kind = "sync" ->
         [pageSize |-> SyncPageSize(query.size), filters |-> <<>>, sorts |-> <<>>]
    [] query.kind # "sync" /\ query.edge = "http" -> Parse(query)
    [] query.kind # "sync" /\ query.edge = "grpc" ->
         FromProto(query, Fields.grpc[query.kind])

\* A query HTTP does not understand is answered 400 and nothing else.
Ask(query) ==
  LET params == ParamsOf(query)
  IN  /\ ~Reading
      /\ query.edge = "http" => ~Refused(query, Fields.http[query.kind])
      /\ walk' = [at |-> FirstStep(query), query |-> query, params |-> params,
                  page |-> 0, total |-> 0, fitted |-> {}, shown |-> <<>>,
                  left |-> FALSE, steady |-> TRUE,
                  start |-> Matching(query, params, docs)]
      /\ UNCHANGED <<docs, writing, writes, clock>>

\* The devices that are on a vehicle, or on the one asked for, retired or not.
Distinct ==
  /\ walk.at = "distinct"
  /\ walk' = [walk EXCEPT
                !.at = "count",
                !.fitted = {i \in Ids : docs[i] # Absent /\ Looked(walk.query, docs[i].tag)}]
  /\ UNCHANGED <<docs, writing, writes, clock>>

\* What the filter matches: for devices, the ids found a statement earlier.
Filtered ==
  IF FirstStep(walk.query) = "count" THEN Matching(walk.query, walk.params, docs)
  ELSE {i \in Ids : Live(i) /\ (walk.query.narrow # "spare" <=> i \in walk.fitted)}

Count ==
  /\ walk.at = "count"
  /\ walk' = [walk EXCEPT !.at = "find", !.total = Cardinality(Filtered)]
  /\ UNCHANGED <<docs, writing, writes, clock>>

Precedes(i, j) == Rank[docs[i].tag] < Rank[docs[j].tag]

Before == {pair \in Filtered \X Filtered : Precedes(pair[1], pair[2])}

\* The fields asked for tell the documents apart.
TellApart(rows) ==
  walk.params.sorts # <<>> => \A i, j \in rows : i # j => Precedes(i, j) \/ Precedes(j, i)

\* Whether the reader asks for another page.
Goes(rows) ==
  IF walk.query.kind = "sync" THEN Len(rows) = walk.params.pageSize
  ELSE walk.page + 1 < TotalPages(walk.params, walk.total)

Find ==
  /\ walk.at = "find"
  /\ \E order \in findOptions(walk.params, Filtered, Before) :
       LET rows == PageOf(walk.params, walk.page, order)
       IN  walk' = [walk EXCEPT
                      !.at = IF Goes(rows) THEN FirstStep(walk.query) ELSE "done",
                      !.page = IF Goes(rows) THEN @ + 1 ELSE @,
                      !.shown = @ \o rows,
                      !.fitted = {},
                      !.total = 0,
                      !.steady = @ /\ TellApart(Filtered)]
  /\ UNCHANGED <<docs, writing, writes, clock>>

Next ==
  \/ \E w \in Writers, i \in Ids :
       \/ \E tag \in Tags : CreateDriver(w, i, tag) \/ UpdateDriver(w, i, tag)
       \/ DeleteDriver(w, i)
  \/ \E w \in Writers : Land(w) \/ Fail(w)
  \/ Tick
  \/ \E query \in Queries : Ask(query)
  \/ Distinct
  \/ Count
  \/ Find

Spec == Init /\ [][Next]_vars

(***************************************************************************)
(* Properties.                                                             *)
(***************************************************************************)

Shown == {walk.shown[k] : k \in DOMAIN walk.shown}

\* Documents, stamps and pages have the shapes the code gives them, and a page
\* never begins beyond the documents there have been.
TypeOK ==
  /\ docs \in [Ids -> Documents \cup {Absent}]
  /\ \A w \in Writers :
       writing[w] # Idle => writing[w].id \in Ids /\ writing[w].doc \in Documents
  /\ clock \in 0..MaxClock /\ writes \in 0..MaxWrites
  /\ walk.at \in {"nowhere", "distinct", "count", "find", "done"}
  /\ walk.at # "nowhere" =>
       /\ Shown \subseteq Ids
       /\ walk.params.pageSize \in Nat \ {0}
       /\ Offset(walk.params, walk.page) <= Cardinality(Ids)

\* A reader who follows the page count to its end, through documents that do
\* not change meanwhile and that the order asked for tells apart, is shown
\* each of them once and nothing else (page, findOptions, Offset, meta).
WalkIsExact ==
  walk.at = "done" /\ walk.steady =>
    /\ Shown = walk.start
    /\ Len(walk.shown) = Cardinality(walk.start)

\* A reader of the feed who asks until a page comes back short is given every
\* document that was there at the start, however many are created, edited and
\* retired between pages: none of those takes one out of the whole feed.  In a
\* feed of what changed since some time it is so as long as none is taken out
\* (ListDriversForSync).
SyncMissesNothing ==
  walk.at = "done" /\ walk.query.kind = "sync" /\ (walk.query.since = 0 \/ ~walk.left) =>
    walk.start \subseteq Shown

\* The pages of a listing show no document twice, whatever is written between
\* them and whatever order is asked for.
NothingTwice ==
  walk.at # "nowhere" /\ walk.query.kind # "sync" => Len(walk.shown) = Cardinality(Shown)

\* A listing leaves out nothing that was there all along.
NothingSkipped ==
  walk.at = "done" /\ walk.query.kind # "sync" =>
    \A i \in walk.start :
      docs[i] # Absent /\ Matches(walk.query, walk.params, docs[i]) => i \in Shown

\* What changed since some time is all in the feed of it.
SinceMissesNothing ==
  walk.at = "done" /\ walk.query.kind = "sync" => walk.start \subseteq Shown

\* A listing shows only documents that every clause of the request allows.
FiltersHold ==
  walk.at # "nowhere" /\ walk.steady =>
    \A i \in Shown, k \in DOMAIN walk.query.filtered :
      docs[i].tag = scalar(walk.query.filtered[k].values)
=============================================================================
