------------------------------- MODULE MCFeed -------------------------------
(***************************************************************************)
(* Small instances of Feed.                                                *)
(***************************************************************************)
EXTENDS Feed, TLC

Symmetry == Permutations(Writers)

MCRank == [tag \in Tags |-> IF tag = "" THEN 0 ELSE 1]

Query(edge, kind, size, filtered, sorted, narrow) ==
  [edge |-> edge, kind |-> kind, size |-> size, filtered |-> filtered,
   sorted |-> sorted, narrow |-> narrow, since |-> 0]

Sync(size, since) ==
  [edge |-> "grpc", kind |-> "sync", size |-> size, filtered |-> <<>>,
   sorted |-> <<>>, narrow |-> "", since |-> since]

Clause(field, op, values) == [field |-> field, op |-> op, values |-> values]

\* The fourth, the tenth and the eleventh are refused.
MCQueries ==
  { Query("http", "drivers", 1, <<>>, <<>>, ""),
    Query("http", "drivers", 1, <<>>, <<"status">>, ""),
    Query("http", "vehicles", 9, <<Clause("status", "is", <<"yes">>)>>, <<>>, "yes"),
    Query("http", "drivers", 0, <<Clause("userId", "eq", <<"yes">>)>>, <<>>, ""),
    Query("http", "trackers", 0, <<>>, <<>>, "spare"),
    Query("http", "trackers", 1, <<>>, <<>>, "fitted"),
    Query("http", "trackers", 1, <<>>, <<>>, "yes"),
    Query("http", "warehouses", 1, <<Clause("customerCompanyId", "eq", <<"yes">>),
                                     Clause("customerCompanyId", "in", <<"own">>)>>,
          <<>>, ""),
    Query("grpc", "trucks", 1, <<Clause("isAvailable", "eq", <<"true">>)>>, <<"colour">>, ""),
    Query("http", "warehouses", 1, <<Clause("name", "near", <<"yes">>)>>, <<>>, ""),
    Query("http", "trucks", 1, <<>>, <<"colour">>, "true"),
    Sync(1, 0), Sync(0, 1), Sync(9, 0) }

\* Pages in the order of the ids, and of a field that need not tell documents
\* apart; a clause on what the listing does not look at, and one on a field
\* that is offered over HTTP and not over gRPC; what changed since an instant.
MCById == {Query("http", "drivers", 1, <<>>, <<>>, "")}
MCByStatus == {Query("http", "drivers", 1, <<>>, <<"status">>, "")}
MCFiltered == {Query("http", "drivers", 0, <<Clause("status", "is", <<"yes">>)>>, <<>>, "")}
MCDropped == {Query("grpc", "warehouses", 0,
                    <<Clause("customerCompanyId", "eq", <<"yes">>)>>, <<>>, "")}
MCSince == {Sync(1, 1)}
=============================================================================
