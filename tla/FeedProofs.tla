----------------------------- MODULE FeedProofs -----------------------------
(***************************************************************************)
(* What a reader of pages is shown, for any documents, queries, page sizes *)
(* and writes in flight: nothing is missing from the feed, and a listing   *)
(* nothing disturbs is shown exactly once.                                 *)
(*                                                                         *)
(* Each page is found afresh, so an invariant cannot speak of the list     *)
(* the pages are cut from.  For a listing it speaks of what has been shown *)
(* as a set: as many documents as the pages hold, each of which comes      *)
(* before each one not shown.  Only one set is so, whatever list the next  *)
(* page is cut from (SameFirst).  For the feed, where documents come in    *)
(* between, it counts: of a document not shown yet, as many come before it *)
(* as the pages hold.                                                      *)
(***************************************************************************)
EXTENDS Feed, SequenceTheorems, FiniteSetTheorems, TLAPS

WalkFields ==
  {"at", "query", "params", "page", "total", "fitted", "shown", "left", "steady", "start"}

Matched == Matching(walk.query, walk.params, docs)

\* How far the pages read so far reach.
Reached == walk.page * walk.params.pageSize

\* The strict order pages are in.
Comes(i, j) ==
  IF walk.params.sorts = <<>> THEN i < j ELSE Rank[docs[i].tag] < Rank[docs[j].tag]

DocsGood ==
  /\ docs \in [Ids -> Documents \cup {Absent}]
  /\ clock \in 0..MaxClock /\ writes \in 0..MaxWrites
  /\ DOMAIN writing = Writers
  /\ \A w \in Writers : writing[w] # Idle =>
       /\ writing[w].id \in Ids
       /\ writing[w].doc \in Documents
       /\ writing[w].op # "create" => docs[writing[w].id] # Absent

WalkGood ==
  /\ walk.at \in {"nowhere", "distinct", "count", "find", "done"}
  /\ walk.at # "nowhere" =>
       /\ DOMAIN walk = WalkFields
       /\ walk.query \in Queries
       /\ walk.params.pageSize \in Nat \ {0}
       /\ walk.query.kind = "sync" => walk.params.sorts = <<>>
       /\ walk.page \in Nat
       /\ walk.total \in Nat /\ walk.total <= Cardinality(Ids)
       /\ walk.shown \in Seq(Ids)
       /\ walk.start \subseteq Ids
       /\ walk.left \in BOOLEAN /\ walk.steady \in BOOLEAN
       /\ Reached <= Cardinality(Ids)

\* What the feed has still to show lies beyond the pages it has given.
Awaited ==
  Reading /\ walk.query.kind = "sync" /\ (walk.query.since = 0 \/ ~walk.left) =>
    /\ walk.start \subseteq Matched
    /\ \A i \in walk.start :
         i \notin Shown => Reached <= Cardinality({j \in Matched : j < i})

\* The pages a listing has shown are the first documents of it, each once.
FirstPages ==
  Reading /\ walk.steady =>
    /\ Matched = walk.start
    /\ FirstStep(walk.query) = "distinct" /\ walk.at # "distinct" =>
         \A i \in Ids : Live(i) => (i \in walk.fitted <=> Looked(walk.query, docs[i].tag))
    /\ walk.at = "find" => walk.total = Cardinality(walk.start)
    /\ Shown \subseteq walk.start
    /\ Len(walk.shown) = Reached /\ Cardinality(Shown) = Reached
    /\ \A i \in Shown, j \in walk.start : j \notin Shown => Comes(i, j)

FeedInv ==
  /\ DocsGood /\ WalkGood
  /\ Awaited /\ SyncMissesNothing
  /\ FirstPages /\ WalkIsExact

(***************************************************************************)
(* Lists of the members of a set.                                          *)
(***************************************************************************)

\* A list as long as a set, of members of it and none of them twice, has all.
LEMMA ListsAll ==
  ASSUME NEW S, IsFiniteSet(S), NEW n \in Nat, n = Cardinality(S),
         NEW s \in [1..n -> S], \A i, j \in 1..n : i < j => s[i] # s[j]
  PROVE  \A x \in S : \E k \in 1..n : s[k] = x
<1>1. \A i, j \in 1..n : s[i] = s[j] => i = j
  <2> SUFFICES ASSUME NEW i \in 1..n, NEW j \in 1..n, s[i] = s[j], i # j
               PROVE  FALSE
    OBVIOUS
  <2>1. i < j \/ j < i
    OBVIOUS
  <2> QED
    BY <2>1
<1>2. s \in Injection(1..n, S)
  BY <1>1 DEF Injection, IsInjective
<1>3. Cardinality(1..n) = n
  BY FS_Interval
<1>4. s \in Surjection(1..n, S)
  BY <1>2, <1>3, FS_Injection
<1> QED
  BY <1>4 DEF Surjection

\* The first m of a list.
First(s, m) == {s[l] : l \in 1..m}

\* The first m of a list without repetitions are m.
LEMMA FirstAreMany ==
  ASSUME NEW S, NEW n \in Nat,
         NEW s \in [1..n -> S], \A i, j \in 1..n : i < j => s[i] # s[j]
  PROVE  \A m \in 0..n : IsFiniteSet(First(s, m)) /\ Cardinality(First(s, m)) = m
<1> SUFFICES ASSUME NEW m \in 0..n
             PROVE  IsFiniteSet(First(s, m)) /\ Cardinality(First(s, m)) = m
  OBVIOUS
<1> DEFINE T == First(s, m)
<1> DEFINE f == [k \in 1..m |-> s[k]]
<1>1. \A i, j \in 1..m : f[i] = f[j] => i = j
  <2> SUFFICES ASSUME NEW i \in 1..m, NEW j \in 1..m, s[i] = s[j], i # j
               PROVE  FALSE
    OBVIOUS
  <2>1. i \in 1..n /\ j \in 1..n /\ (i < j \/ j < i)
    OBVIOUS
  <2> QED
    BY <2>1
<1>2. f \in [1..m -> T] /\ \A x \in T : \E k \in 1..m : f[k] = x
  BY DEF First
<1>3. f \in Bijection(1..m, T)
  BY <1>1, <1>2 DEF Bijection, Injection, IsInjective, Surjection
<1>4. ExistsBijection(1..m, T)
  BY <1>3 DEF ExistsBijection
<1>5. IsFiniteSet(1..m) /\ Cardinality(1..m) = m
  BY FS_Interval
<1> QED
  BY <1>4, <1>5, FS_Bijection

\* Of an increasing list, k - 1 members are below the k-th.
LEMMA CountBefore ==
  ASSUME NEW S \in SUBSET Nat, IsFiniteSet(S), NEW n \in Nat, n = Cardinality(S),
         NEW s \in [1..n -> S], \A i, j \in 1..n : i < j => s[i] < s[j],
         NEW k \in 1..n
  PROVE  Cardinality({j \in S : j < s[k]}) = k - 1
<1>1. \A i \in 1..n : s[i] \in Nat
  OBVIOUS
<1>2. \A i, j \in 1..n : i < j => s[i] # s[j]
  BY <1>1
<1>3. Cardinality(First(s, k - 1)) = k - 1
  <2>1. \A m \in 0..n : Cardinality(First(s, m)) = m
    BY <1>2, FirstAreMany
  <2> QED
    BY <2>1
<1>4. ASSUME NEW j \in S, j < s[k]
      PROVE  \E l \in 1..(k - 1) : s[l] = j
  <2>1. PICK l \in 1..n : s[l] = j
    BY <1>2, ListsAll
  <2>2. ~(k < l) /\ k # l
    BY <1>1, <1>4, <2>1
  <2> QED
    BY <2>1, <2>2
<1>5. ASSUME NEW l \in 1..(k - 1)
      PROVE  s[l] \in S /\ s[l] < s[k]
  OBVIOUS
<1>6. {j \in S : j < s[k]} = First(s, k - 1)
  BY <1>4, <1>5 DEF First
<1> QED
  BY <1>3, <1>6

\* Two sets of a size are one, unless each has something the other has not.
LEMMA SameFirst ==
  ASSUME NEW A, NEW B, IsFiniteSet(A), IsFiniteSet(B), Cardinality(A) = Cardinality(B),
         \A a \in A, b \in B : a \in B \/ b \in A
  PROVE  A = B
<1>1. A \subseteq B \/ B \subseteq A
  OBVIOUS
<1>2. CASE A \subseteq B
  BY <1>2, FS_Subset
<1>3. CASE B \subseteq A
  BY <1>3, FS_Subset
<1> QED
  BY <1>1, <1>2, <1>3

(***************************************************************************)
(* Pages.                                                                  *)
(***************************************************************************)

LEMMA Times ==
  ASSUME NEW m \in Nat, NEW n \in Nat, NEW k \in Nat, m <= n
  PROVE  m * k <= n * k /\ m * k \in Nat
<1>1. PICK d \in Nat : n = m + d
  <2>1. n - m \in Nat /\ n = m + (n - m)
    OBVIOUS
  <2> QED
    BY <2>1
<1>2. n * k = m * k + d * k /\ m * k \in Nat /\ d * k \in Nat
  BY <1>1
<1> QED
  BY <1>2

\* There is a page after this one exactly when this one does not reach the
\* last row.
LEMMA PageCount ==
  ASSUME NEW params, params.pageSize \in Nat \ {0}, NEW total \in Nat, NEW page \in Nat
  PROVE  /\ page + 1 < TotalPages(params, total) => (page + 1) * params.pageSize <= total
         /\ ~(page + 1 < TotalPages(params, total)) => total <= (page + 1) * params.pageSize
<1> DEFINE size == params.pageSize
<1> DEFINE q == total \div size
<1> DEFINE r == total % size
<1>1. q \in Nat /\ r \in Nat /\ r < size /\ total = size * q + r
  <2>1. PICK m \in Nat \ {0} : m = size
    OBVIOUS
  <2>2. total \div m \in Nat /\ total % m \in Nat /\ total % m < m
    OBVIOUS
  <2>3. total = m * (total \div m) + (total % m)
    OBVIOUS
  <2> QED
    BY <2>1, <2>2, <2>3
<1>2. /\ size \in Nat
      /\ r # 0 => TotalPages(params, total) = q + 1
      /\ r = 0 => TotalPages(params, total) = q
  BY <1>1 DEF TotalPages
<1> HIDE DEF q, r, size
<1>3. size * q = q * size /\ (q + 1) * size = q * size + size /\ q * size \in Nat
  BY <1>1, <1>2
<1>4. ASSUME page + 1 < TotalPages(params, total)
      PROVE  (page + 1) * size <= total
  <2>1. page + 1 <= q
    BY <1>1, <1>2, <1>4
  <2>2. (page + 1) * size <= q * size /\ (page + 1) * size \in Nat
    BY <1>1, <1>2, <2>1, Times
  <2> QED
    BY <1>1, <1>3, <2>2
<1>5. ASSUME ~(page + 1 < TotalPages(params, total))
      PROVE  total <= (page + 1) * size
  <2>1. CASE r = 0
    <3>1. q <= page + 1
      BY <1>1, <1>2, <1>5, <2>1
    <3>2. q * size <= (page + 1) * size
      BY <1>1, <1>2, <3>1, Times
    <3> QED
      BY <1>1, <1>3, <2>1, <3>2
  <2>2. CASE r # 0
    <3>1. q + 1 <= page + 1
      BY <1>1, <1>2, <1>5, <2>2
    <3>2. (q + 1) * size <= (page + 1) * size /\ (page + 1) * size \in Nat
      BY <1>1, <1>2, <3>1, Times
    <3> QED
      BY <1>1, <1>2, <1>3, <3>2
  <2> QED
    BY <2>1, <2>2
<1> QED
  BY <1>4, <1>5 DEF size

\* A page is the rows from its offset on, as many as it holds or are left.
IsPage(rows, s, n, off, size) ==
  /\ Len(rows) = IF n <= off THEN 0 ELSE IF off + size < n THEN size ELSE n - off
  /\ \A k \in 1..Len(rows) : off + k \in 1..n /\ rows[k] = s[off + k]

LEMMA PageRows ==
  ASSUME NEW params, NEW size \in Nat \ {0}, params.pageSize = size,
         NEW page \in Nat, NEW n \in Nat, NEW S, NEW s \in [1..n -> S],
         NEW off \in Nat, off = page * size
  PROVE  /\ PageOf(params, page, s) \in Seq(S)
         /\ IsPage(PageOf(params, page, s), s, n, off, size)
<1>1. Len(s) = n
  OBVIOUS
<1>2. Offset(params, page) = off
  <2>1. page < 1 => page = 0
    OBVIOUS
  <2> QED
    BY <2>1 DEF Offset
<1> DEFINE top == IF off + size < n THEN off + size ELSE n
<1>3. PageOf(params, page, s) = SubSeq(s, off + 1, top)
  BY <1>1, <1>2 DEF PageOf, Smaller
<1>4. top \in Nat /\ \A i \in (off + 1)..top : i \in 1..n
  OBVIOUS
<1>5. \A i \in (off + 1)..top : s[i] \in S
  BY <1>4
<1> HIDE DEF top
<1> DEFINE rows == SubSeq(s, off + 1, top)
<1>6. /\ rows \in Seq(S)
      /\ Len(rows) = IF off + 1 <= top THEN top - (off + 1) + 1 ELSE 0
      /\ \A i \in 1..(top - (off + 1) + 1) : rows[i] = s[(off + 1) + i - 1]
  BY <1>4, <1>5, SubSeqProperties
<1> HIDE DEF rows
<1>7. Len(rows) = IF n <= off THEN 0 ELSE IF off + size < n THEN size ELSE n - off
  BY <1>6 DEF top
<1>8. ASSUME NEW k \in 1..Len(rows)
      PROVE  off + k \in 1..n /\ rows[k] = s[off + k]
  <2>1. off + k \in 1..n
    BY <1>7
  <2>2. k \in 1..(top - (off + 1) + 1) /\ (off + 1) + k - 1 = off + k
    BY <1>4, <1>6
  <2> QED
    BY <1>6, <2>1, <2>2
<1> QED
  BY <1>3, <1>6, <1>7, <1>8 DEF rows, IsPage

(***************************************************************************)
(* Documents.                                                              *)
(***************************************************************************)

LEMMA AbsentIsNone == Absent \notin Documents
<1> SUFFICES ASSUME Absent \in Documents PROVE FALSE
  OBVIOUS
<1>1. "tag" \in DOMAIN Absent
  BY DEF Documents
<1> QED
  BY <1>1 DEF Absent

LEMMA DocsInit == Init => DocsGood
<1> SUFFICES ASSUME Init PROVE DocsGood
  OBVIOUS
<1>1. docs \in [Ids -> Documents \cup {Absent}]
  BY DEF Init
<1>2. DOMAIN writing = Writers /\ \A w \in Writers : writing[w] = Idle
  BY DEF Init
<1>3. clock \in 0..MaxClock /\ writes \in 0..MaxWrites
  BY FeedAssumption DEF Init
<1> QED
  BY <1>1, <1>2, <1>3 DEF DocsGood

\* A write that begins is of a document, and all but a creation of one there.
LEMMA DocsBegin ==
  ASSUME DocsGood, NEW w \in Writers, NEW i \in Ids, NEW op, NEW doc \in Documents,
         op # "create" => docs[i] # Absent, Begin(w, op, i, doc)
  PROVE  DocsGood'
<1>1. /\ writing' = [writing EXCEPT ![w] = [op |-> op, id |-> i, doc |-> doc]]
      /\ docs' = docs /\ clock' = clock
      /\ writes < MaxWrites /\ writes' = writes + 1
  BY DEF Begin
<1>2. DOMAIN writing' = Writers
  BY <1>1 DEF DocsGood
<1>3. \A v \in Writers : writing'[v] = IF v = w THEN [op |-> op, id |-> i, doc |-> doc]
                                                ELSE writing[v]
  BY <1>1 DEF DocsGood
<1>4. ASSUME NEW v \in Writers, writing'[v] # Idle
      PROVE  /\ writing'[v].id \in Ids
             /\ writing'[v].doc \in Documents
             /\ writing'[v].op # "create" => docs'[writing'[v].id] # Absent
  BY <1>1, <1>3, <1>4 DEF DocsGood
<1>5. writes' \in 0..MaxWrites
  BY <1>1, FeedAssumption DEF DocsGood
<1> QED
  BY <1>1, <1>2, <1>4, <1>5 DEF DocsGood

LEMMA StampedIsDocument ==
  ASSUME DocsGood, NEW tag \in Tags
  PROVE  Stamped(tag) \in Documents
BY DEF Stamped, Documents, DocsGood

LEMMA DocsFail ==
  ASSUME DocsGood, NEW w \in Writers, Fail(w)
  PROVE  DocsGood'
<1>1. writing' = [writing EXCEPT ![w] = Idle] /\ UNCHANGED <<docs, writes, clock>>
  BY DEF Fail
<1>2. /\ DOMAIN writing' = Writers
      /\ \A v \in Writers : writing'[v] = IF v = w THEN Idle ELSE writing[v]
  BY <1>1 DEF DocsGood
<1> QED
  BY <1>1, <1>2 DEF DocsGood

LEMMA DocsTick ==
  ASSUME DocsGood, Tick
  PROVE  DocsGood'
<1>1. clock' \in 0..MaxClock /\ UNCHANGED <<docs, writing, writes>>
  BY FeedAssumption DEF Tick, DocsGood
<1> QED
  BY <1>1 DEF DocsGood

\* What a write leaves is a document, and none of the others goes.
LEMMA DocsLand ==
  ASSUME DocsGood, NEW w \in Writers, Land(w)
  PROVE  /\ DocsGood'
         /\ \A i \in Ids : docs[i] # Absent => docs'[i] # Absent
<1> DEFINE i == writing[w].id
<1> DEFINE doc == writing[w].doc
<1> DEFINE new == IF writing[w].op = "retire"
                    THEN [docs[i] EXCEPT !.deleted = TRUE, !.updatedAt = doc.updatedAt]
                    ELSE doc
<1>1. /\ i \in Ids /\ doc \in Documents
      /\ writing[w].op # "create" => docs[i] # Absent
  BY DEF Land, DocsGood
<1>2. docs' = [docs EXCEPT ![i] = new]
  BY DEF Land
<1>3. new \in Documents
  <2>1. CASE writing[w].op = "retire"
    <3>1. docs[i] \in Documents
      BY <1>1, <2>1 DEF DocsGood
    <3> QED
      BY <1>1, <2>1, <3>1 DEF Documents
  <2>2. CASE writing[w].op # "retire"
    BY <1>1, <2>2
  <2> QED
    BY <2>1, <2>2
<1>4. new # Absent
  BY <1>3, AbsentIsNone
<1> HIDE DEF new
<1>5. docs' \in [Ids -> Documents \cup {Absent}]
  BY <1>1, <1>2, <1>3 DEF DocsGood
<1>6. \A j \in Ids : docs'[j] = IF j = i THEN new ELSE docs[j]
  BY <1>1, <1>2 DEF DocsGood
<1>7. \A j \in Ids : docs[j] # Absent => docs'[j] # Absent
  BY <1>4, <1>6
<1>8. writing' = [writing EXCEPT ![w] = Idle] /\ UNCHANGED <<writes, clock>>
  BY DEF Land
<1>9. /\ DOMAIN writing' = Writers
      /\ \A v \in Writers : writing'[v] = IF v = w THEN Idle ELSE writing[v]
  BY <1>8 DEF DocsGood
<1>10. DocsGood'
  BY <1>5, <1>7, <1>8, <1>9 DEF DocsGood
<1> QED
  BY <1>7, <1>10

(***************************************************************************)
(* The reader.                                                             *)
(***************************************************************************)

\* Whatever size is asked for, a page holds something, and the feed has the
\* order of the ids.
LEMMA AskedParams ==
  ASSUME NEW query \in Queries
  PROVE  /\ ParamsOf(query).pageSize \in Nat \ {0}
         /\ query.kind = "sync" => ParamsOf(query).sorts = <<>>
<1>1. query.size \in Int /\ query.edge \in {"http", "grpc"}
  BY FeedAssumption DEF IsQuery
<1>2. PageSize(query.size) \in Nat \ {0} /\ SyncPageSize(query.size) \in Nat \ {0}
  BY <1>1, ListingAssumption DEF PageSize, SyncPageSize
<1>3. CASE query.kind = "sync"
  <2>1. ParamsOf(query) =
          [pageSize |-> SyncPageSize(query.size), filters |-> <<>>, sorts |-> <<>>]
    BY <1>3 DEF ParamsOf
  <2> QED
    BY <1>2, <2>1
<1>4. CASE query.kind # "sync" /\ query.edge = "http"
  <2>1. ParamsOf(query) = Parse(query)
    BY <1>4 DEF ParamsOf
  <2> QED
    BY <1>2, <1>4, <2>1 DEF Parse
<1>5. CASE query.kind # "sync" /\ query.edge = "grpc"
  <2>1. ParamsOf(query) = FromProto(query, Fields.grpc[query.kind])
    BY <1>5 DEF ParamsOf
  <2> QED
    BY <1>2, <1>5, <2>1 DEF FromProto
<1> QED
  BY <1>1, <1>3, <1>4, <1>5

\* What a write does to what is remembered of the reader.
LEMMA LandSeen ==
  ASSUME WalkGood, NEW w \in Writers, Land(w)
  PROVE  /\ ~Reading => walk' = walk
         /\ Reading =>
              /\ DOMAIN walk' = WalkFields
              /\ \A field \in WalkFields \ {"left", "steady"} : walk'[field] = walk[field]
              /\ walk'.left \in BOOLEAN /\ walk'.steady \in BOOLEAN
              /\ ~walk'.left => ~walk.left /\ Matched \subseteq Matched'
              /\ walk'.steady => walk.steady /\ Undisturbed(docs, docs')
<1>1. CASE ~Reading
  BY <1>1 DEF Land, Seen
<1>2. CASE Reading
  <2>1. /\ walk.at # "nowhere" /\ DOMAIN walk = WalkFields
        /\ walk.left \in BOOLEAN /\ walk.steady \in BOOLEAN
    BY <1>2 DEF WalkGood, Reading
  <2> DEFINE left == walk.left \/ ~(Matching(walk.query, walk.params, docs)
                                      \subseteq Matching(walk.query, walk.params, docs'))
  <2> DEFINE steady == walk.steady /\ Undisturbed(docs, docs')
  <2>2. walk' = [walk EXCEPT !.left = left, !.steady = steady]
    BY <1>2 DEF Land, Seen
  <2>3. left \in BOOLEAN /\ steady \in BOOLEAN
    OBVIOUS
  <2>4. (~left => ~walk.left /\ Matching(walk.query, walk.params, docs)
                                  \subseteq Matching(walk.query, walk.params, docs'))
    OBVIOUS
  <2>5. steady => walk.steady /\ Undisturbed(docs, docs')
    OBVIOUS
  <2> HIDE DEF left, steady
  <2>6. /\ DOMAIN walk' = WalkFields
        /\ \A field \in WalkFields \ {"left", "steady"} : walk'[field] = walk[field]
        /\ walk'.left = left /\ walk'.steady = steady
    BY <2>1, <2>2 DEF WalkFields
  <2>7. walk'.query = walk.query /\ walk'.params = walk.params
    BY <2>6 DEF WalkFields
  <2>8. Matched' = Matching(walk.query, walk.params, docs')
    BY <2>7 DEF Matched
  <2> QED
    BY <1>2, <2>3, <2>4, <2>5, <2>6, <2>8 DEF Matched
<1> QED
  BY <1>1, <1>2

LEMMA FilteredFinite ==
  /\ Filtered \subseteq Ids /\ IsFiniteSet(Filtered)
  /\ Cardinality(Filtered) \in Nat /\ Cardinality(Ids) \in Nat
  /\ Cardinality(Filtered) <= Cardinality(Ids)
<1>1. Filtered \subseteq Ids
  BY DEF Filtered, Matching
<1>2. IsFiniteSet(Ids)
  BY FeedAssumption
<1>3. IsFiniteSet(Filtered) /\ Cardinality(Filtered) <= Cardinality(Ids)
  BY <1>1, <1>2, FS_Subset
<1> QED
  BY <1>1, <1>2, <1>3, FS_CardinalityType

LEMMA DistinctWalk ==
  ASSUME WalkGood, Distinct
  PROVE  /\ walk.at = "distinct" /\ walk'.at = "count"
         /\ DOMAIN walk = WalkFields /\ DOMAIN walk' = WalkFields
         /\ walk'.fitted = {i \in Ids : docs[i] # Absent /\ Looked(walk.query, docs[i].tag)}
         /\ \A field \in WalkFields \ {"at", "fitted"} : walk'[field] = walk[field]
<1> DEFINE fitted == {i \in Ids : docs[i] # Absent /\ Looked(walk.query, docs[i].tag)}
<1>1. walk.at = "distinct" /\ DOMAIN walk = WalkFields
  BY DEF Distinct, WalkGood
<1>2. walk' = [walk EXCEPT !.at = "count", !.fitted = fitted]
  BY DEF Distinct
<1> HIDE DEF fitted
<1>3. /\ DOMAIN walk' = WalkFields /\ walk'.at = "count" /\ walk'.fitted = fitted
      /\ \A field \in WalkFields \ {"at", "fitted"} : walk'[field] = walk[field]
  BY <1>1, <1>2 DEF WalkFields
<1> QED
  BY <1>1, <1>3 DEF fitted

LEMMA CountWalk ==
  ASSUME WalkGood, Count
  PROVE  /\ walk.at = "count" /\ walk'.at = "find"
         /\ DOMAIN walk = WalkFields /\ DOMAIN walk' = WalkFields
         /\ walk'.total = Cardinality(Filtered)
         /\ \A field \in WalkFields \ {"at", "total"} : walk'[field] = walk[field]
<1> DEFINE total == Cardinality(Filtered)
<1>1. walk.at = "count" /\ DOMAIN walk = WalkFields
  BY DEF Count, WalkGood
<1>2. walk' = [walk EXCEPT !.at = "find", !.total = total]
  BY DEF Count
<1> HIDE DEF total
<1>3. /\ DOMAIN walk' = WalkFields /\ walk'.at = "find" /\ walk'.total = total
      /\ \A field \in WalkFields \ {"at", "total"} : walk'[field] = walk[field]
  BY <1>1, <1>2 DEF WalkFields
<1> QED
  BY <1>1, <1>3 DEF total

\* The rows in an order the database may return them in.
InOrder(s) ==
  \A i, j \in 1..Cardinality(Filtered) : i < j =>
    /\ s[i] # s[j]
    /\ walk.params.sorts = <<>> => s[i] < s[j]
    /\ walk.params.sorts # <<>> => ~Precedes(s[j], s[i])

Rows(s) == PageOf(walk.params, walk.page, s)

LEMMA FindWalk ==
  ASSUME WalkGood, Find
  PROVE  \E s \in [1..Cardinality(Filtered) -> Filtered] :
           /\ InOrder(s)
           /\ DOMAIN walk' = WalkFields
           /\ walk'.at = IF Goes(Rows(s)) THEN FirstStep(walk.query) ELSE "done"
           /\ walk'.page = IF Goes(Rows(s)) THEN walk.page + 1 ELSE walk.page
           /\ walk'.shown = walk.shown \o Rows(s)
           /\ walk'.total = 0
           /\ walk'.steady \in BOOLEAN
           /\ walk'.steady => walk.steady /\ TellApart(Filtered)
           /\ \A field \in {"query", "params", "left", "start"} : walk'[field] = walk[field]
<1>1. DOMAIN walk = WalkFields /\ walk.steady \in BOOLEAN
  BY DEF Find, WalkGood
<1>2. PICK s \in findOptions(walk.params, Filtered, Before) :
        walk' = [walk EXCEPT
                   !.at = IF Goes(Rows(s)) THEN FirstStep(walk.query) ELSE "done",
                   !.page = IF Goes(Rows(s)) THEN walk.page + 1 ELSE walk.page,
                   !.shown = walk.shown \o Rows(s),
                   !.fitted = {},
                   !.total = 0,
                   !.steady = walk.steady /\ TellApart(Filtered)]
  BY DEF Find, Rows
<1>3. /\ s \in [1..Cardinality(Filtered) -> Filtered]
      /\ \A i, j \in 1..Cardinality(Filtered) : i < j =>
           /\ s[i] # s[j]
           /\ IF walk.params.sorts = <<>> THEN s[i] < s[j] ELSE <<s[j], s[i]>> \notin Before
  BY <1>2 DEF findOptions
<1>4. InOrder(s)
  <2> SUFFICES ASSUME NEW i \in 1..Cardinality(Filtered), NEW j \in 1..Cardinality(Filtered),
                      i < j, walk.params.sorts # <<>>
               PROVE  ~Precedes(s[j], s[i])
    BY <1>3 DEF InOrder
  <2>1. <<s[j], s[i]>> \notin Before /\ s[i] \in Filtered /\ s[j] \in Filtered
    BY <1>3
  <2> QED
    BY <2>1 DEF Before
<1> DEFINE at == IF Goes(Rows(s)) THEN FirstStep(walk.query) ELSE "done"
<1> DEFINE page == IF Goes(Rows(s)) THEN walk.page + 1 ELSE walk.page
<1> DEFINE shown == walk.shown \o Rows(s)
<1> DEFINE steady == walk.steady /\ TellApart(Filtered)
<1>5. walk' = [walk EXCEPT !.at = at, !.page = page, !.shown = shown, !.fitted = {},
                           !.total = 0, !.steady = steady]
  BY <1>2
<1>6. steady \in BOOLEAN /\ (steady => walk.steady /\ TellApart(Filtered))
  OBVIOUS
<1> HIDE DEF at, page, shown, steady
<1>7. /\ DOMAIN walk' = WalkFields
      /\ walk'.at = at /\ walk'.page = page /\ walk'.shown = shown
      /\ walk'.total = 0 /\ walk'.steady = steady
      /\ \A field \in {"query", "params", "left", "start"} : walk'[field] = walk[field]
  BY <1>1, <1>5 DEF WalkFields
<1> QED
  BY <1>3, <1>4, <1>6, <1>7 DEF at, page, shown

\* The rows of a page.
LEMMA FoundRows ==
  ASSUME WalkGood, walk.at # "nowhere",
         NEW s \in [1..Cardinality(Filtered) -> Filtered]
  PROVE  /\ Reached \in Nat
         /\ Rows(s) \in Seq(Filtered) /\ Rows(s) \in Seq(Ids)
         /\ Len(Rows(s)) \in Nat
         /\ IsPage(Rows(s), s, Cardinality(Filtered), Reached, walk.params.pageSize)
<1> DEFINE n == Cardinality(Filtered)
<1>1. n \in Nat /\ Filtered \subseteq Ids
  BY FilteredFinite
<1>2. walk.params.pageSize \in Nat \ {0} /\ walk.page \in Nat
  BY DEF WalkGood
<1>3. Reached \in Nat /\ Reached = walk.page * walk.params.pageSize
  BY <1>2 DEF Reached
<1> HIDE DEF n
<1>4. s \in [1..n -> Filtered]
  BY DEF n
<1>5. Rows(s) \in Seq(Filtered) /\ IsPage(Rows(s), s, n, Reached, walk.params.pageSize)
  <2>1. PICK params, page, size, off : /\ params = walk.params /\ page = walk.page
                                       /\ size = params.pageSize /\ off = Reached
    OBVIOUS
  <2>2. size \in Nat \ {0} /\ page \in Nat /\ off \in Nat /\ off = page * size
    BY <1>2, <1>3, <2>1
  <2>3. /\ PageOf(params, page, s) \in Seq(Filtered)
        /\ IsPage(PageOf(params, page, s), s, n, off, size)
    BY <1>1, <1>4, <2>1, <2>2, PageRows
  <2> QED
    BY <2>1, <2>3 DEF Rows
<1>6. Rows(s) \in Seq(Ids) /\ Len(Rows(s)) \in Nat
  BY <1>1, <1>5, SeqMonotonic, LenProperties
<1> QED
  BY <1>3, <1>5, <1>6 DEF n

\* Whether the reader asks for another page: one of the feed when this one was
\* full, one of a listing when the pages so far do not reach the count.
LEMMA GoesOn ==
  ASSUME WalkGood, walk.at # "nowhere",
         NEW s \in [1..Cardinality(Filtered) -> Filtered]
  PROVE  /\ (walk.page + 1) * walk.params.pageSize = Reached + walk.params.pageSize
         /\ walk.query.kind = "sync" =>
              (Goes(Rows(s)) <=> Reached + walk.params.pageSize <= Cardinality(Filtered))
         /\ walk.query.kind # "sync" =>
              IF Goes(Rows(s)) THEN Reached + walk.params.pageSize <= walk.total
                               ELSE walk.total <= Reached + walk.params.pageSize
<1> DEFINE n == Cardinality(Filtered)
<1> DEFINE size == walk.params.pageSize
<1> DEFINE count == Len(Rows(s))
<1>1. n \in Nat
  BY FilteredFinite
<1>2. size \in Nat \ {0} /\ walk.page \in Nat /\ walk.total \in Nat
  BY DEF WalkGood
<1>3. Reached \in Nat /\ IsPage(Rows(s), s, n, Reached, size)
  BY FoundRows
<1>4. count = IF n <= Reached THEN 0 ELSE IF Reached + size < n THEN size ELSE n - Reached
  BY <1>3 DEF IsPage
<1>5. (walk.page + 1) * size = Reached + size
  BY <1>2 DEF Reached
<1>6. ASSUME walk.query.kind = "sync"
      PROVE  Goes(Rows(s)) <=> Reached + size <= n
  <2>1. Goes(Rows(s)) <=> count = size
    BY <1>6 DEF Goes
  <2> HIDE DEF count, n, size
  <2> QED
    BY <1>1, <1>2, <1>3, <1>4, <2>1
<1>7. ASSUME walk.query.kind # "sync"
      PROVE  IF Goes(Rows(s)) THEN Reached + size <= walk.total
                              ELSE walk.total <= Reached + size
  <2>1. Goes(Rows(s)) <=> walk.page + 1 < TotalPages(walk.params, walk.total)
    BY <1>7 DEF Goes
  <2>2. /\ walk.page + 1 < TotalPages(walk.params, walk.total) =>
             (walk.page + 1) * size <= walk.total
        /\ ~(walk.page + 1 < TotalPages(walk.params, walk.total)) =>
             walk.total <= (walk.page + 1) * size
    BY <1>2, PageCount
  <2> QED
    BY <1>5, <2>1, <2>2
<1> QED
  BY <1>5, <1>6, <1>7

LEMMA WalkLand ==
  ASSUME WalkGood, NEW w \in Writers, Land(w)
  PROVE  WalkGood'
<1>1. CASE ~Reading
  <2>1. walk' = walk
    BY <1>1, LandSeen
  <2> QED
    BY <2>1 DEF WalkGood, Reached
<1>2. CASE Reading
  <2>1. /\ DOMAIN walk' = WalkFields /\ walk.at # "nowhere"
        /\ walk'.left \in BOOLEAN /\ walk'.steady \in BOOLEAN
        /\ \A field \in WalkFields \ {"left", "steady"} : walk'[field] = walk[field]
    BY <1>2, LandSeen DEF Reading
  <2>2. /\ walk'.at = walk.at /\ walk'.query = walk.query /\ walk'.params = walk.params
        /\ walk'.page = walk.page /\ walk'.total = walk.total
        /\ walk'.shown = walk.shown /\ walk'.start = walk.start
    BY <2>1 DEF WalkFields
  <2> QED
    BY <2>1, <2>2 DEF WalkGood, Reached
<1> QED
  BY <1>1, <1>2

LEMMA WalkAsk ==
  ASSUME NEW query \in Queries, Ask(query)
  PROVE  WalkGood'
<1> DEFINE params == ParamsOf(query)
<1>1. /\ params.pageSize \in Nat \ {0}
      /\ query.kind = "sync" => params.sorts = <<>>
  BY AskedParams
<1>2. Matching(query, params, docs) \subseteq Ids
  BY DEF Matching
<1>3. walk' = [at |-> FirstStep(query), query |-> query, params |-> params,
               page |-> 0, total |-> 0, fitted |-> {}, shown |-> <<>>,
               left |-> FALSE, steady |-> TRUE,
               start |-> Matching(query, params, docs)]
  BY DEF Ask
<1>4. FirstStep(query) \in {"distinct", "count"}
  BY DEF FirstStep
<1> HIDE DEF params
<1>5. /\ DOMAIN walk' = WalkFields
      /\ walk'.at = FirstStep(query) /\ walk'.query = query /\ walk'.params = params
      /\ walk'.page = 0 /\ walk'.total = 0 /\ walk'.shown = <<>>
      /\ walk'.left = FALSE /\ walk'.steady = TRUE
      /\ walk'.start = Matching(query, params, docs)
  BY <1>3 DEF WalkFields
<1>6. Cardinality(Ids) \in Nat /\ <<>> \in Seq(Ids)
  BY FilteredFinite, EmptySeq
<1>7. Reached' = 0
  BY <1>1, <1>5 DEF Reached
<1>8. walk'.left \in BOOLEAN /\ walk'.steady \in BOOLEAN
  BY <1>5
<1>9. walk'.shown \in Seq(Ids) /\ walk'.start \subseteq Ids
  BY <1>2, <1>5, <1>6
<1>10. walk'.total \in Nat /\ walk'.total <= Cardinality(Ids) /\ Reached' <= Cardinality(Ids)
  BY <1>5, <1>6, <1>7
<1>11. walk'.page \in Nat
  BY <1>5
<1> QED
  BY <1>1, <1>4, <1>5, <1>8, <1>9, <1>10, <1>11, Zenon DEF WalkGood

LEMMA WalkDistinct ==
  ASSUME WalkGood, Distinct
  PROVE  WalkGood'
<1>1. walk.at = "distinct" /\ walk'.at = "count" /\ DOMAIN walk' = WalkFields
  BY DistinctWalk
<1>2. /\ walk'.query = walk.query /\ walk'.params = walk.params /\ walk'.page = walk.page
      /\ walk'.total = walk.total /\ walk'.shown = walk.shown /\ walk'.start = walk.start
      /\ walk'.left = walk.left /\ walk'.steady = walk.steady
  BY DistinctWalk DEF WalkFields
<1> QED
  BY <1>1, <1>2 DEF WalkGood, Reached

LEMMA WalkCount ==
  ASSUME WalkGood, Count
  PROVE  WalkGood'
<1>1. walk.at = "count" /\ walk'.at = "find" /\ DOMAIN walk' = WalkFields
  BY CountWalk
<1>2. /\ walk'.query = walk.query /\ walk'.params = walk.params /\ walk'.page = walk.page
      /\ walk'.shown = walk.shown /\ walk'.start = walk.start
      /\ walk'.left = walk.left /\ walk'.steady = walk.steady
  BY CountWalk DEF WalkFields
<1>3. walk'.total \in Nat /\ walk'.total <= Cardinality(Ids)
  BY CountWalk, FilteredFinite
<1> QED
  BY <1>1, <1>2, <1>3 DEF WalkGood, Reached

LEMMA WalkFind ==
  ASSUME WalkGood, Find
  PROVE  WalkGood'
<1>1. PICK s \in [1..Cardinality(Filtered) -> Filtered] :
        /\ DOMAIN walk' = WalkFields
        /\ walk'.at = IF Goes(Rows(s)) THEN FirstStep(walk.query) ELSE "done"
        /\ walk'.page = IF Goes(Rows(s)) THEN walk.page + 1 ELSE walk.page
        /\ walk'.shown = walk.shown \o Rows(s)
        /\ walk'.total = 0
        /\ walk'.steady \in BOOLEAN
        /\ \A field \in {"query", "params", "left", "start"} : walk'[field] = walk[field]
  BY FindWalk
<1>2. walk.at # "nowhere"
  BY DEF Find
<1>3. /\ walk'.query = walk.query /\ walk'.params = walk.params
      /\ walk'.left = walk.left /\ walk'.start = walk.start
  BY <1>1
<1>4. walk'.at \in {"distinct", "count", "done"}
  BY <1>1 DEF FirstStep
<1>5. walk'.shown \in Seq(Ids)
  <2>1. walk.shown \in Seq(Ids) /\ Rows(s) \in Seq(Ids)
    BY <1>2, FoundRows DEF WalkGood
  <2> QED
    BY <1>1, <2>1, ConcatProperties
<1>6. walk'.page \in Nat /\ Reached' <= Cardinality(Ids)
  <2>1. walk.page \in Nat /\ Reached <= Cardinality(Ids) /\ walk.total <= Cardinality(Ids)
    BY <1>2 DEF WalkGood
  <2>2. CASE ~Goes(Rows(s))
    BY <1>1, <1>3, <2>1, <2>2 DEF Reached
  <2>3. CASE Goes(Rows(s))
    <3>1. Reached' = Reached + walk.params.pageSize
      BY <1>1, <1>2, <1>3, <2>3, GoesOn DEF Reached
    <3>2. \/ Reached + walk.params.pageSize <= Cardinality(Filtered)
          \/ Reached + walk.params.pageSize <= walk.total
      BY <1>2, <2>3, GoesOn
    <3>3. Reached \in Nat /\ walk.params.pageSize \in Nat /\ walk.total \in Nat
      BY <1>2, FoundRows DEF WalkGood
    <3> QED
      BY <1>1, <2>1, <2>3, <3>1, <3>2, <3>3, FilteredFinite
  <2> QED
    BY <2>2, <2>3
<1>7. Cardinality(Ids) \in Nat
  BY FilteredFinite
<1> QED
  BY <1>1, <1>2, <1>3, <1>4, <1>5, <1>6, <1>7 DEF WalkGood

\* What has been shown after a page.
LEMMA ShownMore ==
  ASSUME walk.shown \in Seq(Ids), NEW rows \in Seq(Ids), walk'.shown = walk.shown \o rows
  PROVE  Shown' = Shown \cup {rows[k] : k \in 1..Len(rows)}
<1> DEFINE old == walk.shown
<1> DEFINE new == walk.shown \o rows
<1>1. /\ Len(old) \in Nat /\ DOMAIN old = 1..Len(old)
      /\ Len(rows) \in Nat
  BY LenProperties
<1>2. /\ new \in Seq(Ids) /\ Len(new) = Len(old) + Len(rows)
      /\ \A i \in 1..(Len(old) + Len(rows)) :
           new[i] = IF i <= Len(old) THEN old[i] ELSE rows[i - Len(old)]
  BY ConcatProperties
<1>3. DOMAIN new = 1..(Len(old) + Len(rows))
  BY <1>2, LenProperties
<1>4. Shown' = {new[k] : k \in DOMAIN new} /\ Shown = {old[k] : k \in DOMAIN old}
  BY DEF Shown
<1> HIDE DEF new, old
<1> DEFINE m == Len(old)
<1> DEFINE n == Len(rows)
<1>5. /\ m \in Nat /\ n \in Nat /\ DOMAIN new = 1..(m + n) /\ DOMAIN old = 1..m
      /\ \A i \in 1..(m + n) : new[i] = IF i <= m THEN old[i] ELSE rows[i - m]
  BY <1>1, <1>2, <1>3
<1> HIDE DEF m, n
<1>6. ASSUME NEW k \in 1..(m + n)
      PROVE  new[k] \in {old[l] : l \in 1..m} \cup {rows[l] : l \in 1..n}
  <2>1. CASE k <= m
    BY <1>5, <2>1
  <2>2. CASE ~(k <= m)
    <3>1. k - m \in 1..n /\ new[k] = rows[k - m]
      BY <1>5, <2>2
    <3> QED
      BY <3>1
  <2> QED
    BY <2>1, <2>2
<1>7. ASSUME NEW k \in 1..m
      PROVE  old[k] \in {new[l] : l \in 1..(m + n)}
  <2>1. k \in 1..(m + n) /\ new[k] = old[k]
    BY <1>5
  <2> QED
    BY <2>1
<1>8. ASSUME NEW k \in 1..n
      PROVE  rows[k] \in {new[l] : l \in 1..(m + n)}
  <2>1. k + m \in 1..(m + n) /\ new[k + m] = rows[k]
    <3>1. k + m \in 1..(m + n) /\ ~(k + m <= m) /\ (k + m) - m = k
      BY <1>5
    <3>2. new[k + m] = rows[(k + m) - m]
      BY <1>5, <3>1
    <3> QED
      BY <3>1, <3>2
  <2> QED
    BY <2>1
<1>9. {new[k] : k \in 1..(m + n)} = {old[k] : k \in 1..m} \cup {rows[k] : k \in 1..n}
  BY <1>6, <1>7, <1>8
<1> QED
  BY <1>4, <1>5, <1>9 DEF n

(***************************************************************************)
(* The feed.                                                               *)
(***************************************************************************)

\* Of more documents no fewer are below an id.
LEMMA MoreBelow ==
  ASSUME NEW A \in SUBSET Ids, NEW B \in SUBSET Ids, A \subseteq B, NEW i
  PROVE  /\ Cardinality({j \in A : j < i}) \in Nat
         /\ Cardinality({j \in B : j < i}) \in Nat
         /\ Cardinality({j \in A : j < i}) <= Cardinality({j \in B : j < i})
<1> DEFINE a == {j \in A : j < i}
<1> DEFINE b == {j \in B : j < i}
<1>1. a \subseteq b /\ b \subseteq Ids
  OBVIOUS
<1> HIDE DEF a, b
<1>2. IsFiniteSet(b)
  BY <1>1, FeedAssumption, FS_Subset
<1>3. IsFiniteSet(a) /\ Cardinality(a) <= Cardinality(b)
  BY <1>1, <1>2, FS_Subset
<1>4. Cardinality(a) \in Nat /\ Cardinality(b) \in Nat
  BY <1>2, <1>3, FS_CardinalityType
<1> QED
  BY <1>3, <1>4 DEF a, b

LEMMA AwaitedAsk ==
  ASSUME NEW query \in Queries, Ask(query)
  PROVE  Awaited' /\ SyncMissesNothing'
<1>1. walk'.at \in {"distinct", "count"}
  BY DEF Ask, FirstStep
<1>2. SyncMissesNothing'
  BY <1>1 DEF SyncMissesNothing
<1>3. walk'.start = Matched'
  BY DEF Ask, Matched
<1>4. Matched' \subseteq Ids
  BY DEF Matched, Matching
<1>5. Reached' = 0
  <2>1. walk'.page = 0 /\ walk'.params = ParamsOf(query)
    BY DEF Ask
  <2>2. ParamsOf(query).pageSize \in Nat
    BY AskedParams
  <2> QED
    BY <2>1, <2>2 DEF Reached
<1>6. \A i \in walk'.start : Reached' <= Cardinality({j \in Matched' : j < i})
  <2> SUFFICES ASSUME NEW i \in walk'.start
               PROVE  Cardinality({j \in Matched' : j < i}) \in Nat
    BY <1>5
  <2>1. PICK A : A = Matched'
    OBVIOUS
  <2>2. Cardinality({j \in A : j < i}) \in Nat
    BY <1>4, <2>1, MoreBelow
  <2> QED
    BY <2>1, <2>2
<1> QED
  BY <1>2, <1>3, <1>6 DEF Awaited

\* A step that leaves the documents alone and what the pages hold.
LEMMA AwaitedStays ==
  ASSUME Awaited, Reading, Reading', docs' = docs,
         walk'.query = walk.query, walk'.params = walk.params, walk'.page = walk.page,
         walk'.shown = walk.shown, walk'.start = walk.start, walk'.left = walk.left
  PROVE  Awaited' /\ SyncMissesNothing'
<1>1. Matched' = Matched /\ Reached' = Reached /\ Shown' = Shown
  BY DEF Matched, Reached, Shown
<1>2. Awaited'
  BY <1>1 DEF Awaited
<1>3. SyncMissesNothing'
  BY DEF SyncMissesNothing, Reading
<1> QED
  BY <1>2, <1>3

\* No write takes a document out of the whole feed.
LEMMA FeedKeeps ==
  ASSUME DocsGood, NEW w \in Writers, Land(w), WalkGood, Reading,
         walk.query.kind = "sync", walk.query.since = 0
  PROVE  Matched \subseteq Matched'
<1>1. walk'.query = walk.query /\ walk'.params = walk.params
  BY LandSeen DEF WalkFields
<1>2. DocsGood' /\ \A i \in Ids : docs[i] # Absent => docs'[i] # Absent
  BY DocsLand
<1>3. ASSUME NEW i \in Matched
      PROVE  i \in Matched'
  <2>1. i \in Ids /\ docs'[i] # Absent
    BY <1>2, <1>3 DEF Matched, Matching
  <2>2. docs'[i] \in Documents
    BY <1>2, <2>1 DEF DocsGood
  <2>3. docs'[i].updatedAt >= 0
    BY <2>2, FeedAssumption DEF Documents
  <2>4. Matches(walk.query, walk.params, docs'[i])
    BY <2>3 DEF Matches, MatchesSync
  <2> QED
    BY <1>1, <2>1, <2>4 DEF Matched, Matching
<1> QED
  BY <1>3

LEMMA AwaitedLand ==
  ASSUME DocsGood, WalkGood, Awaited, SyncMissesNothing, NEW w \in Writers, Land(w)
  PROVE  Awaited' /\ SyncMissesNothing'
<1>1. CASE ~Reading
  <2>1. walk' = walk
    BY <1>1, LandSeen
  <2>2. Awaited'
    BY <1>1, <2>1 DEF Awaited, Reading
  <2>3. SyncMissesNothing'
    BY <2>1 DEF SyncMissesNothing, Shown
  <2> QED
    BY <2>2, <2>3
<1>2. CASE Reading
  <2>1. /\ walk'.at = walk.at /\ walk'.query = walk.query /\ walk'.params = walk.params
        /\ walk'.page = walk.page /\ walk'.shown = walk.shown /\ walk'.start = walk.start
    BY <1>2, LandSeen DEF WalkFields
  <2>2. Reached' = Reached /\ Shown' = Shown
    BY <2>1 DEF Reached, Shown
  <2>3. SyncMissesNothing'
    BY <1>2, <2>1 DEF SyncMissesNothing, Reading
  <2>4. ASSUME walk.query.kind = "sync", walk.query.since = 0 \/ ~walk'.left
        PROVE  /\ walk'.start \subseteq Matched'
               /\ \A i \in walk'.start :
                    i \notin Shown' => Reached' <= Cardinality({j \in Matched' : j < i})
    <3>1. Matched \subseteq Matched' /\ (walk.query.since = 0 \/ ~walk.left)
      BY <1>2, <2>4, LandSeen, FeedKeeps
    <3>2. /\ walk.start \subseteq Matched
          /\ \A i \in walk.start :
               i \notin Shown => Reached <= Cardinality({j \in Matched : j < i})
      BY <1>2, <2>4, <3>1 DEF Awaited
    <3>3. Matched \subseteq Ids /\ Matched' \subseteq Ids
      BY DEF Matched, Matching
    <3>4. Reached \in Int
      BY <1>2 DEF Reached, WalkGood, Reading
    <3>5. ASSUME NEW i \in walk'.start, i \notin Shown'
          PROVE  Reached' <= Cardinality({j \in Matched' : j < i})
      <4>1. Reached <= Cardinality({j \in Matched : j < i})
        BY <2>1, <2>2, <3>2, <3>5
      <4>2. PICK A, B : A = Matched /\ B = Matched'
        OBVIOUS
      <4>3. /\ Cardinality({j \in A : j < i}) \in Nat
            /\ Cardinality({j \in B : j < i}) \in Nat
            /\ Cardinality({j \in A : j < i}) <= Cardinality({j \in B : j < i})
        BY <3>1, <3>3, <4>2, MoreBelow
      <4> QED
        BY <2>2, <3>4, <4>1, <4>2, <4>3
    <3> QED
      BY <2>1, <3>1, <3>2, <3>5
  <2>5. Awaited'
    BY <2>1, <2>4 DEF Awaited
  <2> QED
    BY <2>3, <2>5
<1> QED
  BY <1>1, <1>2

LEMMA AwaitedFind ==
  ASSUME WalkGood, Awaited, Find
  PROVE  Awaited' /\ SyncMissesNothing'
<1>1. PICK s \in [1..Cardinality(Filtered) -> Filtered] :
        /\ InOrder(s)
        /\ walk'.at = IF Goes(Rows(s)) THEN FirstStep(walk.query) ELSE "done"
        /\ walk'.page = IF Goes(Rows(s)) THEN walk.page + 1 ELSE walk.page
        /\ walk'.shown = walk.shown \o Rows(s)
        /\ \A field \in {"query", "params", "left", "start"} : walk'[field] = walk[field]
  BY FindWalk
<1>2. /\ walk'.query = walk.query /\ walk'.params = walk.params
      /\ walk'.left = walk.left /\ walk'.start = walk.start
  BY <1>1
<1>3. walk.at = "find" /\ Reading /\ docs' = docs
  BY DEF Find, Reading
<1>4. SUFFICES ASSUME walk.query.kind = "sync", walk.query.since = 0 \/ ~walk.left
               PROVE  Awaited' /\ SyncMissesNothing'
  BY <1>2 DEF Awaited, SyncMissesNothing
<1>5. Filtered = Matched /\ Matched' = Matched /\ Matched \subseteq Ids
  BY <1>2, <1>3, <1>4 DEF Filtered, FirstStep, Matched, Matching
<1>6. /\ walk.start \subseteq Matched
      /\ \A i \in walk.start :
           i \notin Shown => Reached <= Cardinality({j \in Matched : j < i})
  BY <1>3, <1>4 DEF Awaited
<1> DEFINE size == walk.params.pageSize
<1> DEFINE n == Cardinality(Filtered)
<1>7. size \in Nat \ {0} /\ n \in Nat /\ Reached \in Nat
  BY <1>3, FilteredFinite, FoundRows DEF WalkGood
<1>8. Shown' = Shown \cup {Rows(s)[k] : k \in 1..Len(Rows(s))}
  BY <1>1, <1>3, FoundRows, ShownMore DEF WalkGood
<1>9. IsPage(Rows(s), s, n, Reached, size)
  BY <1>3, FoundRows
\* A document that is still not shown is beyond this page.
<1>10. ASSUME NEW i \in walk.start, i \notin Shown'
       PROVE  /\ Reached + size <= n
              /\ Reached + size <= Cardinality({j \in Matched : j < i})
  <2>1. i \in Filtered /\ Reached <= Cardinality({j \in Matched : j < i})
    BY <1>5, <1>6, <1>8, <1>10
  <2>2. \A k, l \in 1..n : k < l => s[k] # s[l]
    BY <1>1 DEF InOrder
  <2>3. \A k, l \in 1..n : k < l => s[k] < s[l]
    BY <1>1, <1>3, <1>4 DEF InOrder, WalkGood
  <2>4. PICK k \in 1..n : s[k] = i
    BY <1>7, <2>1, <2>2, FilteredFinite, ListsAll
  <2>5. Cardinality({j \in Filtered : j < i}) = k - 1
    <3>1. Filtered \in SUBSET Nat /\ IsFiniteSet(Filtered)
      BY FilteredFinite, FeedAssumption
    <3>2. Cardinality({j \in Filtered : j < s[k]}) = k - 1
      BY <1>7, <2>3, <2>4, <3>1, CountBefore
    <3> QED
      BY <2>4, <3>2
  <2>6. ~(k <= Reached + size)
    <3> SUFFICES ASSUME k <= Reached + size PROVE FALSE
      OBVIOUS
    <3> DEFINE rows == Rows(s)
    <3>1. Reached <= k - 1
      BY <1>5, <2>1, <2>5
    <3>2. /\ Len(rows) = IF n <= Reached THEN 0 ELSE IF Reached + size < n THEN size
                                                                          ELSE n - Reached
          /\ \A l \in 1..Len(rows) : rows[l] = s[Reached + l]
      BY <1>9 DEF IsPage
    <3> HIDE DEF rows, n, size
    <3>3. k - Reached \in 1..Len(rows) /\ Reached + (k - Reached) = k
      BY <1>7, <2>4, <3>1, <3>2
    <3>4. rows[k - Reached] = i
      BY <2>4, <3>2, <3>3
    <3> QED
      BY <1>8, <1>10, <3>3, <3>4 DEF rows
  <2> HIDE DEF n, size
  <2> QED
    BY <1>5, <1>7, <2>4, <2>5, <2>6
<1>11. Goes(Rows(s)) <=> Reached + size <= n
  BY <1>3, <1>4, GoesOn
<1>12. SyncMissesNothing'
  BY <1>1, <1>2, <1>10, <1>11 DEF SyncMissesNothing, FirstStep
<1>13. ASSUME Reading'
       PROVE  /\ walk'.start \subseteq Matched'
              /\ \A i \in walk'.start :
                   i \notin Shown' => Reached' <= Cardinality({j \in Matched' : j < i})
  <2>1. Goes(Rows(s)) /\ walk'.page = walk.page + 1
    BY <1>1, <1>13 DEF Reading
  <2>2. Reached' = Reached + size
    BY <1>2, <1>3, <2>1, GoesOn DEF Reached
  <2> QED
    BY <1>2, <1>5, <1>6, <1>10, <2>2
<1> QED
  BY <1>12, <1>13 DEF Awaited

(***************************************************************************)
(* Listings.                                                               *)
(***************************************************************************)

LEMMA MatchedDocument ==
  ASSUME DocsGood, NEW i \in Matched
  PROVE  i \in Ids /\ docs[i] \in Documents /\ docs[i].tag \in Tags /\ Rank[docs[i].tag] \in Nat
<1>1. i \in Ids /\ docs[i] # Absent
  BY DEF Matched, Matching
<1>2. docs[i] \in Documents
  BY <1>1 DEF DocsGood
<1>3. docs[i].tag \in Tags
  BY <1>2 DEF Documents
<1> QED
  BY <1>1, <1>2, <1>3, FeedAssumption

\* Only devices narrowed by what they are on take a third statement.
LEMMA ByDistinct ==
  ASSUME NEW query \in Queries, FirstStep(query) = "distinct"
  PROVE  query.kind = "trackers" /\ query.narrow # ""
<1>1. query.kind = "trackers" /\ query.narrow # ""
  BY DEF FirstStep
<1> QED
  BY <1>1, FeedAssumption DEF IsQuery

\* While nothing disturbs the reader, a statement finds what was there at the
\* start: the ids read a statement earlier are still the right ones.
LEMMA FilteredIsStart ==
  ASSUME WalkGood, FirstPages, walk.at \in {"count", "find"}, walk.steady
  PROVE  Filtered = walk.start
<1>1. walk.query \in Queries /\ Matched = walk.start
  BY DEF WalkGood, FirstPages, Reading
<1>2. CASE FirstStep(walk.query) = "count"
  BY <1>1, <1>2 DEF Filtered, Matched
<1>3. CASE FirstStep(walk.query) # "count"
  <2>1. FirstStep(walk.query) = "distinct"
    BY <1>3 DEF FirstStep
  <2>2. walk.query.kind = "trackers" /\ walk.query.narrow # ""
    BY <1>1, <2>1, ByDistinct
  <2>3. \A i \in Ids : Live(i) => (i \in walk.fitted <=> Looked(walk.query, docs[i].tag))
    BY <2>1 DEF FirstPages, Reading
  <2>4. ASSUME NEW i \in Ids
        PROVE  i \in Matched <=> Live(i) /\ (walk.query.narrow # "spare" <=> Looked(walk.query, docs[i].tag))
    <3>1. Matches(walk.query, walk.params, docs[i]) <=>
            ~docs[i].deleted /\ MatchesTracker(walk.query, docs[i])
      BY <2>2 DEF Matches
    <3>2. MatchesTracker(walk.query, docs[i]) <=>
            (walk.query.narrow # "spare" <=> Looked(walk.query, docs[i].tag))
      BY <2>2 DEF MatchesTracker
    <3> QED
      BY <3>1, <3>2 DEF Matched, Matching, Live
  <2>5. Filtered = {i \in Ids : Live(i) /\ (walk.query.narrow # "spare" <=> i \in walk.fitted)}
    BY <1>3 DEF Filtered
  <2>6. Matched \subseteq Ids
    BY DEF Matched, Matching
  <2>7. \A i \in Ids : i \in Filtered <=> i \in Matched
    BY <2>3, <2>4, <2>5
  <2>8. Filtered \subseteq Ids
    BY <2>5
  <2> QED
    BY <1>1, <2>6, <2>7, <2>8
<1> QED
  BY <1>2, <1>3

LEMMA PagesAsk ==
  ASSUME NEW query \in Queries, Ask(query)
  PROVE  FirstPages' /\ WalkIsExact'
<1>1. /\ walk'.at = FirstStep(query) /\ walk'.query = query
      /\ walk'.page = 0 /\ walk'.params = ParamsOf(query) /\ walk'.shown = <<>>
  BY DEF Ask
<1>2. walk'.at \in {"distinct", "count"}
  BY <1>1 DEF FirstStep
<1>3. walk'.start = Matched'
  BY DEF Ask, Matched
<1>4. Reached' = 0
  BY <1>1, AskedParams DEF Reached
<1>5. Len(walk'.shown) = 0 /\ Shown' = {}
  BY <1>1 DEF Shown
<1>6. Cardinality(Shown') = 0
  BY <1>5, FS_EmptySet
<1>7. WalkIsExact'
  BY <1>2 DEF WalkIsExact
<1>8. FirstPages'
  BY <1>1, <1>2, <1>3, <1>4, <1>5, <1>6 DEF FirstPages
<1> QED
  BY <1>7, <1>8

\* A write that changes nothing of what is read.
LEMMA PagesLand ==
  ASSUME DocsGood, WalkGood, FirstPages, WalkIsExact, NEW w \in Writers, Land(w)
  PROVE  FirstPages' /\ WalkIsExact'
<1>1. CASE ~Reading
  <2>1. walk' = walk
    BY <1>1, LandSeen
  <2>2. FirstPages'
    BY <1>1, <2>1 DEF FirstPages, Reading
  <2>3. WalkIsExact'
    BY <2>1 DEF WalkIsExact, Shown
  <2> QED
    BY <2>2, <2>3
<1>2. CASE Reading
  <2>1. /\ walk'.at = walk.at /\ walk'.query = walk.query /\ walk'.params = walk.params
        /\ walk'.page = walk.page /\ walk'.shown = walk.shown /\ walk'.start = walk.start
        /\ walk'.total = walk.total /\ walk'.fitted = walk.fitted
    BY <1>2, LandSeen DEF WalkFields
  <2>2. WalkIsExact'
    BY <1>2, <2>1 DEF WalkIsExact, Reading
  <2>3. SUFFICES ASSUME walk'.steady PROVE FirstPages'
    BY <2>2 DEF FirstPages
  <2>4. walk.steady /\ Undisturbed(docs, docs')
    BY <1>2, <2>3, LandSeen
  <2>5. Reached' = Reached /\ Shown' = Shown
    BY <2>1 DEF Reached, Shown
  <2>6. /\ Matched' = Matched
        /\ \A i \in Matched : docs'[i].tag = docs[i].tag
        /\ FirstStep(walk.query) = "distinct" =>
             \A i \in Ids : docs'[i].deleted = docs[i].deleted
    BY <2>1, <2>4 DEF Undisturbed, Matched
  <2>7. /\ Matched = walk.start
        /\ Shown \subseteq walk.start
        /\ \A i \in Shown, j \in walk.start : j \notin Shown => Comes(i, j)
    BY <1>2, <2>4 DEF FirstPages
  <2>8. ASSUME FirstStep(walk.query) = "distinct", walk.at # "distinct", NEW i \in Ids,
               docs'[i] # Absent, ~docs'[i].deleted
        PROVE  i \in walk.fitted <=> Looked(walk.query, docs'[i].tag)
    <3>1. walk.query.kind = "trackers" /\ walk.query.narrow # ""
      BY <1>2, <2>8, ByDistinct DEF WalkGood, Reading
    <3>2. ~docs[i].deleted
      BY <2>6, <2>8
    <3>3. docs[i] # Absent
      BY <3>2 DEF Absent
    <3>4. i \in walk.fitted <=> Looked(walk.query, docs[i].tag)
      BY <1>2, <2>4, <2>8, <3>2, <3>3 DEF FirstPages, Live
    <3>5. i \in Matched <=> (walk.query.narrow # "spare" <=> Looked(walk.query, docs[i].tag))
      BY <3>1, <3>2, <3>3 DEF Matched, Matching, Matches, MatchesTracker
    <3>6. i \in Matched' <=> (walk.query.narrow # "spare" <=> Looked(walk.query, docs'[i].tag))
      <4>1. Matched' = Matching(walk.query, walk.params, docs')
        BY <2>1 DEF Matched
      <4> QED
        BY <2>8, <3>1, <4>1 DEF Matching, Matches, MatchesTracker
    <3> QED
      BY <2>6, <3>4, <3>5, <3>6
  <2>9. ASSUME NEW i \in Shown, NEW j \in walk.start, j \notin Shown
        PROVE  Comes(i, j)'
    <3>1. Comes(i, j) /\ docs'[i].tag = docs[i].tag /\ docs'[j].tag = docs[j].tag
      BY <2>6, <2>7, <2>9
    <3> QED
      BY <2>1, <3>1 DEF Comes
  <2>10. walk.at = "find" => walk.total = Cardinality(walk.start)
    BY <1>2, <2>4 DEF FirstPages
  <2>11. Len(walk.shown) = Reached /\ Cardinality(Shown) = Reached
    BY <1>2, <2>4 DEF FirstPages
  <2>12. Matched' = walk'.start /\ Shown' \subseteq walk'.start
    BY <2>1, <2>5, <2>6, <2>7
  <2>13. Len(walk'.shown) = Reached' /\ Cardinality(Shown') = Reached'
    BY <2>1, <2>5, <2>11
  <2>14. \A i \in Shown', j \in walk'.start : j \notin Shown' => Comes(i, j)'
    BY <2>1, <2>5, <2>9
  <2>15. FirstStep(walk'.query) = "distinct" /\ walk'.at # "distinct" =>
           \A i \in Ids : Live(i)' => (i \in walk'.fitted <=> Looked(walk'.query, docs'[i].tag))
    BY <2>1, <2>8 DEF Live
  <2> QED
    BY <2>1, <2>10, <2>12, <2>13, <2>14, <2>15 DEF FirstPages
<1> QED
  BY <1>1, <1>2

LEMMA PagesDistinct ==
  ASSUME WalkGood, FirstPages, Distinct
  PROVE  FirstPages' /\ WalkIsExact'
<1>1. walk.at = "distinct" /\ walk'.at = "count" /\ docs' = docs
  BY DistinctWalk DEF Distinct
<1>2. /\ walk'.query = walk.query /\ walk'.params = walk.params /\ walk'.page = walk.page
      /\ walk'.shown = walk.shown /\ walk'.start = walk.start /\ walk'.steady = walk.steady
  BY DistinctWalk DEF WalkFields
<1>3. Matched' = Matched /\ Reached' = Reached /\ Shown' = Shown
  BY <1>1, <1>2 DEF Matched, Reached, Shown
<1>4. \A i \in Ids : Live(i)' => (i \in walk'.fitted <=> Looked(walk'.query, docs'[i].tag))
  BY <1>1, <1>2, DistinctWalk DEF Live
<1>5. \A i, j \in Ids : Comes(i, j) <=> Comes(i, j)'
  BY <1>1, <1>2 DEF Comes
<1>6. WalkIsExact'
  BY <1>1 DEF WalkIsExact
<1>7. walk.start \subseteq Ids
  BY <1>1 DEF WalkGood
<1>8. FirstPages'
  BY <1>1, <1>2, <1>3, <1>4, <1>5, <1>7 DEF FirstPages, Reading
<1> QED
  BY <1>6, <1>8

LEMMA PagesCount ==
  ASSUME WalkGood, FirstPages, Count
  PROVE  FirstPages' /\ WalkIsExact'
<1>1. walk.at = "count" /\ walk'.at = "find" /\ docs' = docs
  BY CountWalk DEF Count
<1>2. /\ walk'.query = walk.query /\ walk'.params = walk.params /\ walk'.page = walk.page
      /\ walk'.shown = walk.shown /\ walk'.start = walk.start /\ walk'.steady = walk.steady
      /\ walk'.fitted = walk.fitted
  BY CountWalk DEF WalkFields
<1>3. Matched' = Matched /\ Reached' = Reached /\ Shown' = Shown
  BY <1>1, <1>2 DEF Matched, Reached, Shown
<1>4. walk.steady => walk'.total = Cardinality(walk'.start)
  BY <1>1, <1>2, CountWalk, FilteredIsStart
<1>5. \A i, j \in Ids : Comes(i, j) <=> Comes(i, j)'
  BY <1>1, <1>2 DEF Comes
<1>6. WalkIsExact'
  BY <1>1 DEF WalkIsExact
<1>7. walk.start \subseteq Ids
  BY <1>1 DEF WalkGood
<1>8. \A i \in Ids : Live(i) <=> Live(i)'
  BY <1>1 DEF Live
<1>9. FirstPages'
  BY <1>1, <1>2, <1>3, <1>4, <1>5, <1>7, <1>8 DEF FirstPages, Reading
<1> QED
  BY <1>6, <1>9

\* The order pages are in has no ties among what is told apart.
LEMMA ComesInOrder ==
  ASSUME DocsGood, WalkGood, Matched = Filtered, TellApart(Filtered),
         NEW s \in [1..Cardinality(Filtered) -> Filtered], InOrder(s),
         NEW k \in 1..Cardinality(Filtered), NEW l \in 1..Cardinality(Filtered), k < l
  PROVE  Comes(s[k], s[l]) /\ ~Comes(s[l], s[k])
<1>1. /\ s[k] # s[l] /\ s[k] \in Filtered /\ s[l] \in Filtered
      /\ walk.params.sorts = <<>> => s[k] < s[l]
      /\ walk.params.sorts # <<>> => ~Precedes(s[l], s[k])
  BY DEF InOrder
<1>2. s[k] \in Nat /\ s[l] \in Nat
  BY <1>1, FilteredFinite, FeedAssumption
<1>3. Rank[docs[s[k]].tag] \in Nat /\ Rank[docs[s[l]].tag] \in Nat
  BY <1>1, MatchedDocument
<1>4. CASE walk.params.sorts = <<>>
  BY <1>1, <1>2, <1>4 DEF Comes
<1>5. CASE walk.params.sorts # <<>>
  <2>1. Precedes(s[k], s[l])
    BY <1>1, <1>5 DEF TellApart
  <2> QED
    BY <1>1, <1>3, <1>5, <2>1 DEF Comes, Precedes
<1> QED
  BY <1>4, <1>5

\* What has been shown is the first of whatever list the next page is cut from.
LEMMA ShownIsFirst ==
  ASSUME DocsGood, WalkGood, FirstPages, walk.at = "find", walk.steady, TellApart(Filtered),
         NEW s \in [1..Cardinality(Filtered) -> Filtered], InOrder(s)
  PROVE  /\ Reached \in 0..Cardinality(Filtered)
         /\ Shown = First(s, Reached)
<1> DEFINE n == Cardinality(Filtered)
<1>1. Filtered = walk.start /\ Matched = walk.start
  BY FilteredIsStart DEF FirstPages, Reading
<1>2. /\ Shown \subseteq walk.start /\ Cardinality(Shown) = Reached
      /\ \A i \in Shown, j \in walk.start : j \notin Shown => Comes(i, j)
  BY DEF FirstPages, Reading
<1>3. n \in Nat /\ IsFiniteSet(Filtered) /\ Reached \in Nat
  BY FilteredFinite, FoundRows
<1>4. IsFiniteSet(Shown) /\ Reached <= n
  BY <1>1, <1>2, <1>3, FS_Subset
<1>5. Reached \in 0..n
  BY <1>3, <1>4
<1>6. \A k, l \in 1..n : k < l => s[k] # s[l]
  BY DEF InOrder
<1>7. IsFiniteSet(First(s, Reached)) /\ Cardinality(First(s, Reached)) = Reached
  <2>1. \A m \in 0..n : IsFiniteSet(First(s, m)) /\ Cardinality(First(s, m)) = m
    BY <1>3, <1>6, FirstAreMany
  <2> QED
    BY <1>5, <2>1
<1>8. ASSUME NEW a \in Shown, NEW b \in First(s, Reached),
             a \notin First(s, Reached), b \notin Shown
      PROVE  FALSE
  <2>1. PICK k \in 1..Reached : b = s[k]
    BY <1>8 DEF First
  <2>2. k \in 1..n
    <3> HIDE DEF n
    <3> QED
      BY <1>3, <1>4, <2>1
  <2>3. b \in walk.start
    BY <1>1, <2>1, <2>2
  <2>4. Comes(a, b)
    BY <1>2, <1>8, <2>3
  <2>5. PICK l \in 1..n : a = s[l]
    BY <1>1, <1>2, <1>3, <1>6, <1>8, ListsAll
  <2>6. ~(l <= Reached)
    BY <1>3, <1>8, <2>5 DEF First
  <2>7. k < l
    BY <1>3, <2>1, <2>5, <2>6
  <2>8. ~Comes(s[l], s[k])
    BY <1>1, <2>2, <2>5, <2>7, ComesInOrder
  <2> QED
    BY <2>1, <2>4, <2>5, <2>8
<1>9. Shown = First(s, Reached)
  BY <1>2, <1>4, <1>7, <1>8, SameFirst
<1> QED
  BY <1>5, <1>9

LEMMA PagesFind ==
  ASSUME DocsGood, WalkGood, FirstPages, Find
  PROVE  FirstPages' /\ WalkIsExact'
<1>1. PICK s \in [1..Cardinality(Filtered) -> Filtered] :
        /\ InOrder(s)
        /\ walk'.at = IF Goes(Rows(s)) THEN FirstStep(walk.query) ELSE "done"
        /\ walk'.page = IF Goes(Rows(s)) THEN walk.page + 1 ELSE walk.page
        /\ walk'.shown = walk.shown \o Rows(s)
        /\ walk'.steady => walk.steady /\ TellApart(Filtered)
        /\ \A field \in {"query", "params", "left", "start"} : walk'[field] = walk[field]
  BY FindWalk
<1>2. walk'.query = walk.query /\ walk'.params = walk.params /\ walk'.start = walk.start
  BY <1>1
<1>3. walk.at = "find" /\ docs' = docs
  BY DEF Find
<1>4. SUFFICES ASSUME walk.steady, TellApart(Filtered) PROVE FirstPages' /\ WalkIsExact'
  BY <1>1 DEF FirstPages, WalkIsExact
<1> DEFINE size == walk.params.pageSize
<1> DEFINE n == Cardinality(Filtered)
<1> DEFINE count == Len(Rows(s))
<1> DEFINE top == Reached + count
<1>5. Filtered = walk.start /\ Matched = walk.start /\ Matched' = Matched
  BY <1>2, <1>3, <1>4, FilteredIsStart DEF FirstPages, Reading, Matched
<1>6. Reached \in 0..n /\ Shown = First(s, Reached)
  BY <1>1, <1>3, <1>4, ShownIsFirst
<1>7. size \in Nat \ {0} /\ n \in Nat /\ Reached \in Nat /\ count \in Nat
  BY <1>3, FilteredFinite, FoundRows DEF WalkGood
<1>8. /\ count = IF n <= Reached THEN 0 ELSE IF Reached + size < n THEN size ELSE n - Reached
      /\ \A k \in 1..count : Rows(s)[k] = s[Reached + k]
  BY <1>3, FoundRows DEF IsPage
<1>9. top \in 0..n /\ (Reached + size <= n => top = Reached + size)
                   /\ (n <= Reached + size => top = n)
  <2> HIDE DEF count, n, size
  <2> QED
    BY <1>6, <1>7, <1>8
<1>10. Shown' = First(s, top)
  <2>1. Shown' = Shown \cup {Rows(s)[k] : k \in 1..count}
    BY <1>1, <1>3, FoundRows, ShownMore DEF WalkGood
  <2> HIDE DEF count, n, size
  <2>2. ASSUME NEW k \in 1..count
        PROVE  Rows(s)[k] \in First(s, top)
    <3>1. Reached + k \in 1..top /\ Rows(s)[k] = s[Reached + k]
      BY <1>7, <1>8
    <3> QED
      BY <3>1 DEF First
  <2>3. First(s, Reached) \subseteq First(s, top)
    <3>1. \A k \in 1..Reached : k \in 1..top
      BY <1>7
    <3> QED
      BY <3>1 DEF First
  <2>4. ASSUME NEW k \in 1..top
        PROVE  s[k] \in First(s, Reached) \cup {Rows(s)[l] : l \in 1..count}
    <3>1. CASE k <= Reached
      <4>1. k \in 1..Reached
        BY <1>7, <3>1
      <4> QED
        BY <4>1 DEF First
    <3>2. CASE ~(k <= Reached)
      <4>1. k - Reached \in 1..count /\ Reached + (k - Reached) = k
        BY <1>7, <3>2
      <4>2. Rows(s)[k - Reached] = s[k]
        BY <1>8, <4>1
      <4> QED
        BY <4>1, <4>2
    <3> QED
      BY <3>1, <3>2
  <2>5. First(s, top) \subseteq First(s, Reached) \cup {Rows(s)[k] : k \in 1..count}
    BY <2>4 DEF First
  <2> QED
    BY <1>6, <2>1, <2>2, <2>3, <2>5
<1>11. Len(walk'.shown) = top
  <2>1. walk.shown \in Seq(Ids) /\ Rows(s) \in Seq(Ids) /\ Len(walk.shown) = Reached
    BY <1>3, <1>4, FoundRows DEF WalkGood, FirstPages, Reading
  <2>2. Len(walk.shown \o Rows(s)) = Len(walk.shown) + Len(Rows(s))
    BY <2>1, ConcatProperties
  <2> QED
    BY <1>1, <2>1, <2>2
<1>12. \A k, l \in 1..n : k < l => s[k] # s[l]
  BY <1>1 DEF InOrder
<1>13. Cardinality(Shown') = top
  <2>1. \A m \in 0..n : Cardinality(First(s, m)) = m
    BY <1>7, <1>12, FirstAreMany
  <2> HIDE DEF top, n
  <2> QED
    BY <1>9, <1>10, <2>1
<1>14. \A k \in 1..top : k \in 1..n
  BY <1>7, <1>9
<1>15. Shown' \subseteq walk.start
  <2>1. \A k \in 1..top : s[k] \in Filtered
    BY <1>14
  <2> QED
    BY <1>5, <1>10, <2>1 DEF First
<1>16. \A x \in walk.start : \E k \in 1..n : s[k] = x
  BY <1>5, <1>7, <1>12, FilteredFinite, ListsAll
\* The page count of a listing was taken of the same documents.
<1>17. IF Goes(Rows(s)) THEN Reached + size <= n ELSE n <= Reached + size
  <2>1. walk.total = n
    BY <1>3, <1>4, <1>5 DEF FirstPages, Reading
  <2>2. CASE walk.query.kind = "sync"
    <3>1. Goes(Rows(s)) <=> Reached + size <= n
      BY <1>3, <2>2, GoesOn
    <3> HIDE DEF n, size
    <3> QED
      BY <1>7, <3>1
  <2>3. CASE walk.query.kind # "sync"
    BY <1>3, <2>1, <2>3, GoesOn
  <2> QED
    BY <2>2, <2>3
<1>18. WalkIsExact'
  <2> SUFFICES ASSUME walk'.at = "done"
               PROVE  Shown' = walk.start /\ Len(walk'.shown) = Cardinality(walk.start)
    BY <1>2 DEF WalkIsExact
  <2>1. top = n
    BY <1>1, <1>9, <1>17 DEF FirstStep
  <2>2. walk.start \subseteq Shown'
    BY <1>10, <1>16, <2>1 DEF First
  <2> QED
    BY <1>5, <1>11, <1>15, <2>1, <2>2
<1>19. ASSUME Reading'
       PROVE  FirstPages'
  <2>1. Goes(Rows(s)) /\ walk'.at = FirstStep(walk.query) /\ walk'.page = walk.page + 1
    BY <1>1, <1>19 DEF Reading
  <2>2. Reached' = top
    <3>1. Reached' = Reached + size
      BY <1>2, <1>3, <2>1, GoesOn DEF Reached
    <3> QED
      BY <1>9, <1>17, <2>1, <3>1
  <2>3. walk'.at # "find" /\ (FirstStep(walk'.query) = "distinct" => walk'.at = "distinct")
    BY <1>2, <2>1 DEF FirstStep
  <2>4. ASSUME NEW i \in Shown', NEW j \in walk.start, j \notin Shown'
        PROVE  Comes(i, j)'
    <3>1. PICK k \in 1..top : i = s[k]
      BY <1>10, <2>4 DEF First
    <3>2. PICK l \in 1..n : j = s[l]
      BY <1>16
    <3>3. ~(l \in 1..top)
      BY <1>10, <2>4, <3>2 DEF First
    <3>4. k \in 1..n
      BY <1>14, <3>1
    <3>5. k < l
      <4>1. PICK m \in Nat : m = top
        BY <1>7
      <4>2. PICK o \in Nat : o = n
        BY <1>7
      <4>3. k \in 1..m /\ ~(l \in 1..m) /\ l \in 1..o
        BY <3>1, <3>2, <3>3, <4>1, <4>2
      <4> QED
        BY <4>1, <4>2, <4>3
    <3>6. Comes(s[k], s[l])
      BY <1>1, <1>4, <1>5, <3>2, <3>4, <3>5, ComesInOrder
    <3> QED
      BY <1>2, <1>3, <3>1, <3>2, <3>6 DEF Comes
  <2>5. Len(walk'.shown) = Reached' /\ Cardinality(Shown') = Reached'
    BY <1>11, <1>13, <2>2
  <2>6. Matched' = walk'.start /\ Shown' \subseteq walk'.start
    BY <1>2, <1>5, <1>15
  <2>7. \A i \in Shown', j \in walk'.start : j \notin Shown' => Comes(i, j)'
    BY <1>2, <2>4
  <2> QED
    BY <2>3, <2>5, <2>6, <2>7 DEF FirstPages
<1>20. FirstPages'
  BY <1>19 DEF FirstPages
<1> QED
  BY <1>18, <1>20

(***************************************************************************)
(* The theorems.                                                           *)
(***************************************************************************)

LEMMA FeedInit == Init => FeedInv
<1> SUFFICES ASSUME Init PROVE FeedInv
  OBVIOUS
<1>1. DocsGood
  BY DocsInit
<1>2. walk.at = "nowhere"
  BY DEF Init
<1> QED
  BY <1>1, <1>2 DEF FeedInv, WalkGood, Awaited, SyncMissesNothing, FirstPages, WalkIsExact,
                    Reading

\* A step the reader does not see.
LEMMA FeedUnseen ==
  ASSUME FeedInv, UNCHANGED <<docs, walk>>, DocsGood'
  PROVE  FeedInv'
<1>1. /\ Matched' = Matched /\ Reached' = Reached /\ Shown' = Shown
      /\ (Reading' <=> Reading)
  BY DEF Matched, Reached, Shown, Reading
<1>2. WalkGood'
  BY <1>1 DEF FeedInv, WalkGood
<1>3. Awaited' /\ SyncMissesNothing' /\ WalkIsExact'
  BY <1>1 DEF FeedInv, Awaited, SyncMissesNothing, WalkIsExact
<1>4. FirstPages'
  <2>1. \A i, j \in Ids : Comes(i, j) <=> Comes(i, j)'
    BY DEF Comes
  <2>2. \A i \in Ids : Live(i) <=> Live(i)'
    BY DEF Live
  <2>3. Reading => walk.start \subseteq Ids
    BY DEF FeedInv, WalkGood, Reading
  <2> QED
    BY <1>1, <2>1, <2>2, <2>3 DEF FeedInv, FirstPages
<1> QED
  BY <1>2, <1>3, <1>4 DEF FeedInv

LEMMA FeedStep == FeedInv /\ [Next]_vars => FeedInv'
<1> SUFFICES ASSUME FeedInv, [Next]_vars PROVE FeedInv'
  OBVIOUS
<1> USE DEF FeedInv
<1>1. ASSUME NEW w \in Writers, NEW i \in Ids, NEW tag \in Tags, CreateDriver(w, i, tag)
      PROVE  FeedInv'
  <2>1. Begin(w, "create", i, Stamped(tag)) /\ Stamped(tag) \in Documents
    BY <1>1, StampedIsDocument DEF CreateDriver
  <2>2. DocsGood'
    BY <2>1, DocsBegin
  <2> QED
    BY <2>1, <2>2, FeedUnseen DEF Begin
<1>2. ASSUME NEW w \in Writers, NEW i \in Ids, NEW tag \in Tags, UpdateDriver(w, i, tag)
      PROVE  FeedInv'
  <2>1. /\ Begin(w, "update", i, Stamped(tag)) /\ Stamped(tag) \in Documents
        /\ docs[i] # Absent
    BY <1>2, StampedIsDocument DEF UpdateDriver, Live
  <2>2. DocsGood'
    BY <2>1, DocsBegin
  <2> QED
    BY <2>1, <2>2, FeedUnseen DEF Begin
<1>3. ASSUME NEW w \in Writers, NEW i \in Ids, DeleteDriver(w, i)
      PROVE  FeedInv'
  <2>1. Begin(w, "retire", i, Stamped(docs[i].tag)) /\ docs[i] # Absent
    BY <1>3 DEF DeleteDriver, Live
  <2>2. docs[i].tag \in Tags
    BY <2>1 DEF DocsGood, Documents
  <2>3. DocsGood'
    BY <2>1, <2>2, DocsBegin, StampedIsDocument
  <2> QED
    BY <2>1, <2>3, FeedUnseen DEF Begin
<1>4. ASSUME NEW w \in Writers, Land(w)
      PROVE  FeedInv'
  BY <1>4, DocsLand, WalkLand, AwaitedLand, PagesLand
<1>5. ASSUME NEW w \in Writers, Fail(w)
      PROVE  FeedInv'
  BY <1>5, DocsFail, FeedUnseen DEF Fail
<1>6. CASE Tick
  BY <1>6, DocsTick, FeedUnseen DEF Tick
<1>7. ASSUME UNCHANGED <<docs, writing, writes, clock>>
      PROVE  DocsGood'
  BY <1>7 DEF DocsGood
<1>8. ASSUME NEW query \in Queries, Ask(query)
      PROVE  FeedInv'
  BY <1>7, <1>8, WalkAsk, AwaitedAsk, PagesAsk DEF Ask
<1>9. CASE Distinct
  <2>1. Reading /\ Reading'
    BY <1>9, DistinctWalk DEF Reading
  <2>2. /\ walk'.query = walk.query /\ walk'.params = walk.params /\ walk'.page = walk.page
        /\ walk'.shown = walk.shown /\ walk'.start = walk.start /\ walk'.left = walk.left
    BY <1>9, DistinctWalk DEF WalkFields
  <2>3. Awaited' /\ SyncMissesNothing'
    BY <1>9, <2>1, <2>2, AwaitedStays DEF Distinct
  <2> QED
    BY <1>7, <1>9, <2>3, WalkDistinct, PagesDistinct DEF Distinct
<1>10. CASE Count
  <2>1. Reading /\ Reading'
    BY <1>10, CountWalk DEF Reading
  <2>2. /\ walk'.query = walk.query /\ walk'.params = walk.params /\ walk'.page = walk.page
        /\ walk'.shown = walk.shown /\ walk'.start = walk.start /\ walk'.left = walk.left
    BY <1>10, CountWalk DEF WalkFields
  <2>3. Awaited' /\ SyncMissesNothing'
    BY <1>10, <2>1, <2>2, AwaitedStays DEF Count
  <2> QED
    BY <1>7, <1>10, <2>3, WalkCount, PagesCount DEF Count
<1>11. CASE Find
  BY <1>7, <1>11, WalkFind, AwaitedFind, PagesFind DEF Find
<1>12. CASE UNCHANGED vars
  <2>1. UNCHANGED <<docs, walk>> /\ UNCHANGED <<docs, writing, writes, clock>>
    BY <1>12 DEF vars
  <2> QED
    BY <1>7, <2>1, FeedUnseen
<1> QED
  BY <1>1, <1>2, <1>3, <1>4, <1>5, <1>6, <1>8, <1>9, <1>10, <1>11, <1>12 DEF Next

LEMMA FeedAlways == Spec => []FeedInv
BY FeedInit, FeedStep, PTL DEF Spec

LEMMA FeedInvType == FeedInv => TypeOK
<1> SUFFICES ASSUME FeedInv PROVE TypeOK
  OBVIOUS
<1>1. ASSUME walk.at # "nowhere"
      PROVE  /\ Shown \subseteq Ids
             /\ walk.params.pageSize \in Nat \ {0}
             /\ Offset(walk.params, walk.page) <= Cardinality(Ids)
  <2>1. /\ walk.shown \in Seq(Ids) /\ walk.params.pageSize \in Nat \ {0} /\ walk.page \in Nat
        /\ Reached <= Cardinality(Ids)
    BY <1>1 DEF FeedInv, WalkGood
  <2>2. Shown \subseteq Ids
    BY <2>1, ElementOfSeq, LenProperties DEF Shown
  <2>3. Offset(walk.params, walk.page) = Reached
    <3>1. walk.page < 1 => walk.page = 0
      BY <2>1
    <3> QED
      BY <2>1, <3>1 DEF Offset, Reached
  <2> QED
    BY <2>1, <2>2, <2>3
<1> QED
  BY <1>1 DEF FeedInv, DocsGood, WalkGood, TypeOK

\* Documents, writes and pages keep their shapes, and no page of any query
\* begins beyond the documents there are (page, Offset, ListDriversForSync).
THEOREM FeedTypes == Spec => []TypeOK
BY FeedAlways, FeedInvType, PTL

\* However large the feed, however small its pages and whatever is created,
\* edited and retired between them, a reader who asks until a page is short
\* has every document that was there at the start (ListDriversForSync).
THEOREM TheFeedIsComplete == Spec => []SyncMissesNothing
<1>1. FeedInv => SyncMissesNothing
  BY DEF FeedInv
<1> QED
  BY <1>1, FeedAlways, PTL

\* The pages of any listing that nothing disturbs show each document once and
\* nothing else, whatever the order, as long as it tells them apart (page,
\* findOptions, Offset, TotalPages, ListTrackers).
THEOREM TheListingIsExact == Spec => []WalkIsExact
<1>1. FeedInv => WalkIsExact
  BY DEF FeedInv
<1> QED
  BY <1>1, FeedAlways, PTL
=============================================================================
