------------------------------ MODULE Listing -------------------------------
(***************************************************************************)
(* How a listing request is read and paged: internal/platform/query        *)
(* (Parse for HTTP, FromProto for gRPC, Offset, TotalPages), handlers.go   *)
(* (params, meta) and services/helpers.go (findOptions).  A query is       *)
(* already split into fields; JSON that does not decode is a query with a  *)
(* clause on a field nobody offers, refused alike.  The direction of a     *)
(* sort and the search text are left out.                                  *)
(***************************************************************************)
EXTENDS Integers, Sequences, FiniteSets

CONSTANTS
  DefaultPageSize, MaxPageSize,  \* of a listing over HTTP
  SyncDefault, SyncMax           \* of the feed over gRPC

ASSUME ListingAssumption ==
  /\ DefaultPageSize \in Nat \ {0}
  /\ MaxPageSize \in Nat
  /\ DefaultPageSize <= MaxPageSize
  /\ SyncDefault \in Nat \ {0}
  /\ SyncMax \in Nat
  /\ SyncDefault <= SyncMax

\* The spellings of each operator.
Operators ==
  [eq |-> {"", "eq", "equal", "equals", "=", "==", "is"},
   neq |-> {"neq", "ne", "!="},
   like |-> {"like", "contains", "regex", "match"},
   in |-> {"in"},
   gt |-> {"gt", ">"}, gte |-> {"gte", ">="},
   lt |-> {"lt", "<"}, lte |-> {"lte", "<="},
   between |-> {"between"}]

\* A clause the server does not understand refuses the whole request.
Resolve(field, allowed) == field \in allowed

normaliseOperator(spelling) == {op \in DOMAIN Operators : spelling \in Operators[op]}

BadFilter(clause, allowed) ==
  \/ ~Resolve(clause.field, allowed)
  \/ normaliseOperator(clause.op) = {}
  \/ normaliseOperator(clause.op) = {"in"} /\ clause.values = <<>>

BadSort(field, allowed) == ~Resolve(field, allowed)

scalar(values) == IF values = <<>> THEN "" ELSE values[1]

parseFilters(filtered) ==
  [i \in DOMAIN filtered |->
     [field |-> filtered[i].field, value |-> scalar(filtered[i].values)]]

\* A page size that does not parse is taken as nought.
PageSizeAsGiven(size) == IF size > MaxPageSize THEN MaxPageSize ELSE size

PageSize(size) ==
  IF size <= 0 THEN DefaultPageSize
  ELSE IF size > MaxPageSize THEN MaxPageSize ELSE size

\* The feed of drivers has limits of its own.
SyncPageSize(size) ==
  IF size <= 0 THEN SyncDefault ELSE IF size > SyncMax THEN SyncMax ELSE size

Refused(query, allowed) ==
  \/ \E i \in DOMAIN query.filtered : BadFilter(query.filtered[i], allowed)
  \/ \E i \in DOMAIN query.sorted : BadSort(query.sorted[i], allowed)

Parse(query) ==
  [pageSize |-> PageSize(query.size),
   filters |-> parseFilters(query.filtered),
   sorts |-> query.sorted]

\* Over gRPC what is not offered is passed over.
FromProto(query, allowed) ==
  [pageSize |-> PageSize(query.size),
   filters |-> parseFilters(SelectSeq(query.filtered,
                                      LAMBDA clause : Resolve(clause.field, allowed))),
   sorts |-> SelectSeq(query.sorted, LAMBDA field : Resolve(field, allowed))]

\* Pages counted from one.
OffsetOneBased(params, page) ==
  IF page < 1 THEN 0 ELSE (page - 1) * params.pageSize

Offset(params, page) == IF page < 1 THEN 0 ELSE page * params.pageSize

\* The last, short page is not counted.
TotalPagesFloor(params, total) == total \div params.pageSize

TotalPages(params, total) ==
  (total \div params.pageSize) + (IF total % params.pageSize # 0 THEN 1 ELSE 0)

Smaller(m, n) == IF m < n THEN m ELSE n

\* Skip and limit, over the rows in the order the database returns them.
PageOf(params, page, rows) ==
  SubSeq(rows, Offset(params, page) + 1,
         Smaller(Offset(params, page) + params.pageSize, Len(rows)))

\* The orders Mongo may return a set of rows in: by _id, or by the fields
\* asked for alone (before: the pairs they tell apart), so that rows they do
\* not tell apart come anyhow.
findOptions(params, rows, before) ==
  {s \in [1..Cardinality(rows) -> rows] :
     \A i, j \in 1..Cardinality(rows) :
       i < j => /\ s[i] # s[j]
                /\ IF params.sorts = <<>> THEN s[i] < s[j]
                   ELSE <<s[j], s[i]>> \notin before}
=============================================================================
