----------------------------- MODULE CatalogProofs -----------------------------
(***************************************************************************)
(* For any companies, kinds, documents and requests in flight, and whatever *)
(* fails: the cache serves nobody what is not theirs to see, and a company *)
(* changes no entry but its own.                                           *)
(***************************************************************************)
EXTENDS Catalog, TLAPS

\* Where a request stands says what it carries.
Carries ==
  \A r \in Requests :
    /\ pc[r] \in {"scan", "drop"} => local[r].sweeps # <<>>
    /\ pc[r] \in {"replace", "retire"} => local[r].query \in Ids /\ docs[local[r].query] \in Doc
    /\ pc[r] = "replace" => local[r].doc \in Doc

TypeInv == TypeOK /\ Carries

\* The copy to be written back has the owner of the document, and both the
\* caller may change; so has the document to be retired.
CopyInv ==
  \A r \in Requests : pc[r] \in {"replace", "retire"} =>
    /\ pc[r] = "replace" => local[r].doc.owner = docs[local[r].query].owner
    /\ local[r].caller \in {Staff, docs[local[r].query].owner}

\* What is not for c to see is not among these entries.
Theirs(D, c, entries) ==
  \A e \in entries : D[e.id] \in Doc /\ (c = Staff \/ D[e.id].owner \in {Shared, c})

LeakInv ==
  /\ \A key \in Keys : Theirs(docs, key.scope, cache[key].entries)
  /\ \A r \in Requests : pc[r] = "fill" => Theirs(docs, local[r].caller, local[r].entries)

\* A document once created stays, and stays its owner's.
OwnersStand == \A i \in Ids : docs[i] \in Doc => docs'[i] \in Doc /\ docs'[i].owner = docs[i].owner

-----------------------------------------------------------------------------
LEMMA KeyFacts ==
  /\ \A key \in Keys : key.scope \in Callers /\ key.kind \in Kinds /\ key.query \in Queries
  /\ \A c \in Callers, k \in Kinds, q \in Queries :
       /\ KeyOf(c, k, q) \in Keys
       /\ KeyOf(c, k, q).scope = c
BY DEF Keys, KeyOf, catalogScope

\* Whatever callers the bound leaves, a write is by a company or by staff.
LEMMA Arrivals ==
  ASSUME NEW r \in Requests, Arrive(r)
  PROVE  \/ \E c \in Callers, k \in Kinds, q \in Queries : ReadMiss(r, c, k, q)
         \/ \E c \in Companies \cup {Staff} :
              \/ \E k \in Kinds, o \in Owners, n \in Names, i \in Ids : Create(r, c, k, o, n, i)
              \/ \E i \in Ids, n \in Names : UpdateLoad(r, c, i, n)
              \/ \E i \in Ids : DeleteLoad(r, c, i)
<1>1. Clients \subseteq Callers /\ Clients \ {Nobody} \subseteq Companies \cup {Staff}
  BY CatalogAssumption DEF Callers
<1> QED
  BY <1>1 DEF Arrive

LEMMA AbsentIsNoDoc == Absent \notin Doc
BY DEF Absent, Doc

LEMMA IdleTyped == Idle \in Local
<1>1. (CHOOSE k \in Kinds : TRUE) \in Kinds /\ (CHOOSE n \in Names : TRUE) \in Names
  BY CatalogAssumption
<1> QED
  BY <1>1 DEF Idle, Local, Callers, Queries, Absent

LEMMA SweepsTyped ==
  ASSUME NEW c \in Callers, NEW k \in Kinds
  PROVE  invalidate(c, k) \in Seq(SUBSET Keys) /\ invalidate(c, k) # <<>>
<1>1. Keys \in SUBSET Keys /\ Prefix(c, k) \in SUBSET Keys /\ Prefix(Staff, k) \in SUBSET Keys
  BY DEF Prefix
<1>2. ASSUME NEW a \in SUBSET Keys, NEW b \in SUBSET Keys
      PROVE  /\ <<a>> \in Seq(SUBSET Keys) /\ <<a>> # <<>>
             /\ <<a, b>> \in Seq(SUBSET Keys) /\ <<a, b>> # <<>>
  OBVIOUS
<1> QED
  BY <1>1, <1>2 DEF invalidate

LEMMA AnswerTyped ==
  ASSUME TypeOK, NEW c \in Callers, NEW k \in Kinds, NEW q \in Queries
  PROVE  /\ Answer(c, k, q) \in SUBSET Entry
         /\ Theirs(docs, c, Answer(c, k, q))
<1> SUFFICES ASSUME NEW e \in Answer(c, k, q)
             PROVE  /\ e \in Entry /\ docs[e.id] \in Doc
                    /\ c = Staff \/ docs[e.id].owner \in {Shared, c}
  BY DEF Theirs
<1>1. PICK i \in Ids : /\ e = [id |-> i, name |-> docs[i].name]
                       /\ ~docs[i].deleted /\ visible(c, docs[i])
  BY DEF Answer, Live
<1>2. docs[i] \in Doc
  BY <1>1 DEF TypeOK, Absent
<1> QED
  BY <1>1, <1>2 DEF Doc, Entry, visible

-----------------------------------------------------------------------------
\* A document once created is never removed.
KeepsDocs == \A i \in Ids : docs[i] \in Doc => docs'[i] \in Doc

\* A request that moves on carries a well-typed record that fits its new place.
Fits(p, l) ==
  /\ p \in Labels /\ l \in Local
  /\ p \in {"scan", "drop"} => l.sweeps # <<>>
  /\ p \in {"replace", "retire"} => l.query \in Ids /\ docs[l.query] \in Doc
  /\ p = "replace" => l.doc \in Doc

LEMMA Moved ==
  ASSUME TypeInv, NEW r \in Requests, NEW p, NEW l, Fits(p, l), KeepsDocs,
         pc' = [pc EXCEPT ![r] = p], local' = [local EXCEPT ![r] = l]
  PROVE  /\ pc' \in [Requests -> Labels] /\ local' \in [Requests -> Local]
         /\ Carries'
BY DEF TypeInv, TypeOK, Carries, Fits, KeepsDocs

LEMMA Ended ==
  ASSUME TypeInv, KeepsDocs, NEW r \in Requests, End(r)
  PROVE  /\ pc' \in [Requests -> Labels] /\ local' \in [Requests -> Local]
         /\ Carries'
<1>1. Fits("idle", Idle)
  BY IdleTyped DEF Fits, Labels
<1> QED
  BY <1>1, Moved DEF End, Go, Learn

LEMMA LocalFields ==
  ASSUME TypeInv, NEW r \in Requests
  PROVE  /\ pc[r] \in Labels /\ local[r] \in Local
         /\ local[r].caller \in Callers /\ local[r].kind \in Kinds
         /\ local[r].query \in Queries /\ local[r].name \in Names
         /\ local[r].doc \in Doc \cup {Absent}
         /\ local[r].entries \in SUBSET Entry
         /\ local[r].sweeps \in Seq(SUBSET Keys) /\ local[r].scanned \in SUBSET Keys
         /\ local[r].readsBack \in BOOLEAN
<1>1. local[r] \in Local
  BY DEF TypeInv, TypeOK
<1> QED
  BY <1>1 DEF TypeInv, TypeOK, Local

LEMMA SweptOn ==
  ASSUME TypeInv, KeepsDocs, NEW r \in Requests,
         pc[r] \in {"scan", "drop"}, NextSweep(r)
  PROVE  /\ pc' \in [Requests -> Labels] /\ local' \in [Requests -> Local]
         /\ Carries'
<1> DEFINE rest == Tail(local[r].sweeps)
           l == [local[r] EXCEPT !.sweeps = rest, !.scanned = {}]
           p == IF rest = <<>> THEN "get" ELSE "scan"
<1>1. local[r].sweeps \in Seq(SUBSET Keys) /\ local[r].sweeps # <<>>
  BY LocalFields DEF TypeInv, Carries
<1>2. rest \in Seq(SUBSET Keys)
  BY <1>1
<1>3. CASE rest = <<>> /\ ~local[r].readsBack
  BY <1>3, Ended DEF NextSweep
<1>4. CASE ~(rest = <<>> /\ ~local[r].readsBack)
  <2>1. pc' = [pc EXCEPT ![r] = p] /\ local' = [local EXCEPT ![r] = l]
    BY <1>4 DEF NextSweep, Go, Learn
  <2> HIDE DEF rest
  <2>2. l \in Local /\ l.sweeps = rest
    BY <1>2, LocalFields DEF Local
  <2>3. Fits(p, l)
    BY <2>2 DEF Fits, Labels
  <2> HIDE DEF l, p
  <2> QED
    BY <2>1, <2>3, Moved
<1> QED
  BY <1>3, <1>4

LEMMA Invalidated ==
  ASSUME TypeInv, KeepsDocs, NEW r \in Requests,
         NEW b \in BOOLEAN, Invalidating(r, b)
  PROVE  /\ pc' \in [Requests -> Labels] /\ local' \in [Requests -> Local]
         /\ Carries'
<1> DEFINE l == [local[r] EXCEPT !.doc = Absent, !.readsBack = b,
                                 !.sweeps = invalidate(local[r].caller, local[r].kind)]
<1>1. pc' = [pc EXCEPT ![r] = "scan"] /\ local' = [local EXCEPT ![r] = l]
  BY DEF Invalidating, Go, Learn
<1>2. /\ invalidate(local[r].caller, local[r].kind) \in Seq(SUBSET Keys)
      /\ invalidate(local[r].caller, local[r].kind) # <<>>
  BY LocalFields, SweepsTyped
<1>3. l \in Local /\ l.sweeps = invalidate(local[r].caller, local[r].kind)
  BY <1>2, LocalFields DEF Local
<1>4. Fits("scan", l)
  BY <1>2, <1>3 DEF Fits, Labels
<1> HIDE DEF l
<1> QED
  BY <1>1, <1>4, Moved

LEMMA TypeStep == TypeInv /\ [Next]_vars => TypeInv'
<1> SUFFICES ASSUME TypeInv, [Next]_vars PROVE TypeInv'
  OBVIOUS
<1> DEFINE Requested == /\ pc' \in [Requests -> Labels] /\ local' \in [Requests -> Local]
                        /\ Carries'
<1>0. /\ docs \in [Ids -> Doc \cup {Absent}] /\ cache \in [Keys -> Cached]
      /\ writes \in 0 .. MaxWrites
  BY DEF TypeInv, TypeOK
<1>a. ASSUME NEW r \in Requests, BeginWrite(r) PROVE writes' \in 0 .. MaxWrites
  BY <1>0, <1>a, CatalogAssumption DEF BeginWrite
<1>b. docs' = docs => KeepsDocs
  BY DEF KeepsDocs
<1>1. ASSUME NEW r \in Requests, NEW c \in Callers, NEW k \in Kinds, NEW q \in Queries,
             ReadMiss(r, c, k, q)
      PROVE  TypeInv'
  <2> DEFINE l == [Idle EXCEPT !.caller = c, !.kind = k, !.query = q]
  <2>1. Fits("find", l)
    BY IdleTyped DEF Fits, Labels, Local
  <2>2. pc' = [pc EXCEPT ![r] = "find"] /\ local' = [local EXCEPT ![r] = l]
    BY <1>1 DEF ReadMiss, Go, Learn
  <2> HIDE DEF l
  <2>3. Requested
    BY <1>1, <2>1, <2>2, <1>b, Moved DEF ReadMiss
  <2> QED
    BY <1>0, <1>1, <2>3 DEF ReadMiss, TypeInv, TypeOK
<1>2. ASSUME NEW r \in Requests, ReadBack(r) PROVE TypeInv'
  <2>1. CASE End(r)
    BY <1>0, <1>2, <2>1, <1>b, Ended DEF ReadBack, TypeInv, TypeOK
  <2>2. CASE Go(r, "find") /\ UNCHANGED local
    <3>1. Fits("find", local[r])
      BY LocalFields DEF Fits, Labels
    <3>2. pc' = [pc EXCEPT ![r] = "find"] /\ local' = [local EXCEPT ![r] = local[r]]
      BY <2>2 DEF Go, TypeInv, TypeOK
    <3>3. Requested
      BY <1>2, <3>1, <3>2, <1>b, Moved DEF ReadBack
    <3> QED
      BY <1>0, <1>2, <3>3 DEF ReadBack, TypeInv, TypeOK
  <2> QED
    BY <1>2, <2>1, <2>2 DEF ReadBack
<1>3. ASSUME NEW r \in Requests, Find(r) PROVE TypeInv'
  <2> DEFINE found == Answer(local[r].caller, local[r].kind, local[r].query)
             l == [local[r] EXCEPT !.entries = found]
  <2>1. CASE End(r)
    BY <1>0, <1>3, <2>1, <1>b, Ended DEF Find, TypeInv, TypeOK
  <2>2. CASE Go(r, "fill") /\ Learn(r, l)
    <3>1. found \in SUBSET Entry
      BY LocalFields, AnswerTyped DEF TypeInv
    <3> HIDE DEF found
    <3>2. Fits("fill", l)
      BY <3>1, LocalFields DEF Fits, Labels, Local
    <3>3. pc' = [pc EXCEPT ![r] = "fill"] /\ local' = [local EXCEPT ![r] = l]
      BY <2>2 DEF Go, Learn
    <3> HIDE DEF l
    <3>4. Requested
      BY <1>3, <3>2, <3>3, <1>b, Moved DEF Find
    <3> QED
      BY <1>0, <1>3, <3>4 DEF Find, TypeInv, TypeOK
  <2> QED
    BY <1>3, <2>1, <2>2 DEF Find
<1>4. ASSUME NEW r \in Requests, Fill(r) PROVE TypeInv'
  <2>1. Requested
    BY <1>4, <1>b, Ended DEF Fill
  <2>2. Hit(local[r].entries) \in Cached
    BY LocalFields DEF Hit, Cached
  <2>3. cache' \in [Keys -> Cached]
    BY <1>0, <1>4, <2>2 DEF Fill
  <2> QED
    BY <1>0, <1>4, <2>1, <2>3 DEF Fill, TypeInv, TypeOK
<1>5. ASSUME NEW r \in Requests, NEW c \in Companies \cup {Staff}, NEW k \in Kinds,
             NEW o \in Owners, NEW n \in Names, NEW i \in Ids, Create(r, c, k, o, n, i)
      PROVE  TypeInv'
  <2> DEFINE sw == IF k \in Owned THEN invalidate(c, k) ELSE <<>>
             p == IF k \in Owned THEN "scan" ELSE "get"
             l == [Idle EXCEPT !.caller = c, !.kind = k, !.query = i, !.readsBack = TRUE,
                               !.sweeps = sw]
  <2>1. c \in Callers /\ i \in Queries
    BY DEF Callers, Queries
  <2>2. sw \in Seq(SUBSET Keys) /\ (k \in Owned => sw # <<>>)
    BY <2>1, SweepsTyped
  <2> HIDE DEF sw
  <2>3. Fits(p, l)
    BY <2>1, <2>2, IdleTyped DEF Fits, Labels, Local
  <2>4. pc' = [pc EXCEPT ![r] = p] /\ local' = [local EXCEPT ![r] = l]
    BY <1>5 DEF Create, Go, Learn, sw
  <2> HIDE DEF p, l
  <2>5. Requested
    <3>1. KeepsDocs
      BY <1>0, <1>5, AbsentIsNoDoc DEF Create, KeepsDocs
    <3> QED
      BY <2>3, <2>4, <3>1, Moved
  <2>6. docs' \in [Ids -> Doc \cup {Absent}]
    BY <1>0, <1>5 DEF Create, Doc
  <2> QED
    BY <1>0, <1>a, <1>5, <2>5, <2>6 DEF Create, TypeInv, TypeOK
<1>6. ASSUME NEW r \in Requests, NEW c \in Companies \cup {Staff}, NEW i \in Ids,
             NEW n, NEW p \in {"replace", "retire"}, Load(r, c, i, n, p),
             ~docs[i].deleted => n \in Names
      PROVE  TypeInv'
  <2> DEFINE l == [Idle EXCEPT !.caller = c, !.kind = docs[i].kind, !.query = i,
                               !.name = n, !.doc = docs[i]]
  <2>1. c \in Callers /\ i \in Queries /\ n \in Names /\ docs[i] \in Doc /\ docs[i].kind \in Kinds
    BY <1>0, <1>6 DEF Callers, Queries, Load, Live, Absent, Doc
  <2>2. Fits(p, l)
    BY <2>1, IdleTyped DEF Fits, Labels, Local
  <2>3. pc' = [pc EXCEPT ![r] = p] /\ local' = [local EXCEPT ![r] = l]
    BY <1>6 DEF Load, Go, Learn
  <2> HIDE DEF l
  <2>4. Requested
    BY <1>6, <2>2, <2>3, <1>b, Moved DEF Load
  <2> QED
    BY <1>0, <1>a, <1>6, <2>4 DEF Load, TypeInv, TypeOK
<1>7. ASSUME NEW r \in Requests, UpdateReplace(r) PROVE TypeInv'
  <2>1. local[r].doc \in Doc /\ local[r].name \in Names
    BY <1>7, LocalFields DEF UpdateReplace, TypeInv, Carries
  <2>2. Merged(local[r].doc, local[r].name) \in Doc
    BY <2>1 DEF Merged, Doc
  <2>3. Requested
    <3>1. KeepsDocs
      BY <1>0, <1>7, <2>2 DEF UpdateReplace, KeepsDocs
    <3> QED
      BY <1>7, <3>1, Invalidated DEF UpdateReplace
  <2>4. docs' \in [Ids -> Doc \cup {Absent}]
    BY <1>0, <1>7, <2>2 DEF UpdateReplace
  <2> QED
    BY <1>0, <1>7, <2>3, <2>4 DEF UpdateReplace, TypeInv, TypeOK
<1>8. ASSUME NEW r \in Requests, UpdateDuplicate(r) PROVE TypeInv'
  BY <1>0, <1>8, <1>b, Ended DEF UpdateDuplicate, TypeInv, TypeOK
<1>9. ASSUME NEW r \in Requests, DeleteRetire(r) PROVE TypeInv'
  <2>1. docs[local[r].query] \in Doc /\ local[r].query \in Ids
    BY <1>9 DEF DeleteRetire, TypeInv, Carries
  <2>2. [docs[local[r].query] EXCEPT !.deleted = TRUE] \in Doc
    BY <2>1 DEF Doc
  <2>3. docs' \in [Ids -> Doc \cup {Absent}] /\ KeepsDocs
    BY <1>0, <1>9, <2>2 DEF DeleteRetire, KeepsDocs
  <2>4. Requested
    BY <1>9, <2>3, Invalidated DEF DeleteRetire
  <2> QED
    BY <1>0, <1>9, <2>3, <2>4 DEF DeleteRetire, TypeInv, TypeOK
<1>10. ASSUME NEW r \in Requests, Scan(r) PROVE TypeInv'
  <2> DEFINE found == {key \in Head(local[r].sweeps) : cache[key].hit}
             l == [local[r] EXCEPT !.scanned = found]
  <2>1. local[r].sweeps \in Seq(SUBSET Keys) /\ local[r].sweeps # <<>>
    BY <1>10, LocalFields DEF Scan, TypeInv, Carries
  <2>2. Head(local[r].sweeps) \in SUBSET Keys
    BY <2>1
  <2>3. found \in SUBSET Keys
    BY <2>2
  <2>4. pc' = [pc EXCEPT ![r] = "drop"] /\ local' = [local EXCEPT ![r] = l]
    BY <1>10 DEF Scan, Go, Learn
  <2> HIDE DEF found
  <2>5. Fits("drop", l)
    BY <2>1, <2>3, LocalFields DEF Fits, Labels, Local
  <2> HIDE DEF l
  <2>6. Requested
    BY <1>10, <2>4, <2>5, <1>b, Moved DEF Scan
  <2> QED
    BY <1>0, <1>10, <2>6 DEF Scan, TypeInv, TypeOK
<1>11. ASSUME NEW r \in Requests, Drop(r) PROVE TypeInv'
  <2>1. Requested
    BY <1>11, <1>b, SweptOn DEF Drop
  <2>2. cache' \in [Keys -> Cached]
    BY <1>0, <1>11 DEF Drop, Cached
  <2> QED
    BY <1>0, <1>11, <2>1, <2>2 DEF Drop, TypeInv, TypeOK
<1>12. ASSUME NEW r \in Requests, SweepFails(r) PROVE TypeInv'
  BY <1>0, <1>12, <1>b, SweptOn DEF SweepFails, TypeInv, TypeOK
<1>13. ASSUME NEW r \in Requests, Die(r) PROVE TypeInv'
  BY <1>0, <1>13, <1>b, Ended DEF Die, TypeInv, TypeOK
<1>14. ASSUME NEW key \in Keys, Expire(key) PROVE TypeInv'
  BY <1>0, <1>14 DEF Expire, Cached, TypeInv, TypeOK, Carries
<1>15. CASE UNCHANGED vars
  BY <1>15 DEF vars, TypeInv, TypeOK, Carries
<1>16. ASSUME NEW r \in Requests, Arrive(r) PROVE TypeInv'
  <2>1. ASSUME NEW c \in Companies \cup {Staff}, NEW i \in Ids, NEW n \in Names,
               UpdateLoad(r, c, i, n)
        PROVE  TypeInv'
    BY <1>6, <2>1 DEF UpdateLoad
  <2>2. ASSUME NEW c \in Companies \cup {Staff}, NEW i \in Ids, DeleteLoad(r, c, i)
        PROVE  TypeInv'
    <3>1. ~docs[i].deleted => docs[i].name \in Names
      BY <1>0 DEF Doc, Absent
    <3> QED
      BY <1>6, <2>2, <3>1 DEF DeleteLoad
  <2> QED
    BY <1>1, <1>5, <1>16, <2>1, <2>2, Arrivals
<1> QED
  BY <1>2, <1>3, <1>4, <1>7, <1>8, <1>9, <1>10, <1>11, <1>12, <1>13, <1>14, <1>15, <1>16
     DEF Next, Step

\* Each request carries what its next statement needs, so every variable keeps
\* its type, for any number of requests and whatever fails.
THEOREM CatalogTypes == Spec => []TypeOK
<1>1. Init => TypeInv
  BY IdleTyped, CatalogAssumption DEF Init, TypeInv, TypeOK, Carries, Labels, Cached
<1>2. TypeInv => TypeOK
  BY DEF TypeInv
<1> QED
  BY <1>1, <1>2, TypeStep, PTL DEF Spec

-----------------------------------------------------------------------------
\* Only Create, UpdateReplace and DeleteRetire write documents; what each of
\* them does to the owner, and on whose behalf.
WritesFor(r, i) ==
  /\ docs' = [docs EXCEPT ![i] = docs'[i]]
  /\ pc'[r] # pc[r]
  /\ docs'[i] \in Doc /\ (docs[i] \in Doc => docs'[i].owner = docs[i].owner)
  /\ local'[r].caller \in {Staff, docs'[i].owner}

LEMMA CreateWrites ==
  ASSUME TypeInv, NEW r \in Requests, NEW c \in Companies \cup {Staff}, NEW k \in Kinds,
         NEW o \in Owners, NEW n \in Names, NEW i \in Ids, Create(r, c, k, o, n, i)
  PROVE  WritesFor(r, i)
<1>1. /\ docs' = [docs EXCEPT ![i] = [kind |-> k, owner |-> o, name |-> n, deleted |-> FALSE]]
      /\ docs'[i] = [kind |-> k, owner |-> o, name |-> n, deleted |-> FALSE]
  BY DEF Create, TypeInv, TypeOK
<1>2. pc[r] = "idle" /\ pc'[r] \in {"scan", "get"} /\ local'[r].caller = c
  BY DEF Create, BeginWrite, Begin, Go, Learn, TypeInv, TypeOK, Idle
<1>3. c = Staff \/ o = c
  BY DEF Create, MayCreate
<1>4. docs[i] \notin Doc
  BY AbsentIsNoDoc DEF Create
<1>5. docs'[i] \in Doc /\ docs'[i].owner = o
  <2> DEFINE d == [kind |-> k, owner |-> o, name |-> n, deleted |-> FALSE]
  <2>1. d \in Doc /\ d.owner = o
    BY DEF Doc
  <2>2. docs'[i] = d
    BY <1>1
  <2> HIDE DEF d
  <2> QED
    BY <2>1, <2>2
<1>6. docs' = [docs EXCEPT ![i] = docs'[i]]
  BY <1>1
<1> QED
  BY <1>2, <1>3, <1>4, <1>5, <1>6 DEF WritesFor

LEMMA ReplaceWrites ==
  ASSUME TypeInv, CopyInv, NEW r \in Requests, UpdateReplace(r)
  PROVE  WritesFor(r, local[r].query) /\ local[r].query \in Ids
<1> DEFINE i == local[r].query
<1>1. /\ pc[r] = "replace" /\ i \in Ids /\ docs[i] \in Doc /\ local[r].doc \in Doc
      /\ local[r].doc.owner = docs[i].owner
      /\ local[r].caller \in {Staff, docs[i].owner}
      /\ local[r].name \in Names
  BY LocalFields DEF UpdateReplace, TypeInv, Carries, CopyInv
<1>2. docs' = [docs EXCEPT ![i] = Merged(local[r].doc, local[r].name)]
  BY DEF UpdateReplace
<1>3. docs'[i] = Merged(local[r].doc, local[r].name)
  BY <1>1, <1>2 DEF TypeInv, TypeOK
<1>4. docs'[i] \in Doc /\ docs'[i].owner = docs[i].owner
  BY <1>1, <1>3 DEF Merged, Doc
<1>5. pc'[r] = "scan" /\ local'[r].caller = local[r].caller
  BY LocalFields DEF UpdateReplace, Invalidating, Go, Learn, TypeInv, TypeOK, Local
<1> QED
  BY <1>1, <1>2, <1>3, <1>4, <1>5 DEF WritesFor

LEMMA RetireWrites ==
  ASSUME TypeInv, CopyInv, NEW r \in Requests, DeleteRetire(r)
  PROVE  WritesFor(r, local[r].query) /\ local[r].query \in Ids
<1> DEFINE i == local[r].query
<1>1. /\ pc[r] = "retire" /\ i \in Ids /\ docs[i] \in Doc
      /\ local[r].caller \in {Staff, docs[i].owner}
  BY DEF DeleteRetire, TypeInv, Carries, CopyInv
<1>2. docs' = [docs EXCEPT ![i] = [docs[i] EXCEPT !.deleted = TRUE]]
  BY DEF DeleteRetire
<1>3. docs'[i] = [docs[i] EXCEPT !.deleted = TRUE]
  BY <1>1, <1>2 DEF TypeInv, TypeOK
<1>4. docs'[i] \in Doc /\ docs'[i].owner = docs[i].owner
  BY <1>1, <1>3 DEF Doc
<1>5. pc'[r] = "scan" /\ local'[r].caller = local[r].caller
  BY LocalFields DEF DeleteRetire, Invalidating, Go, Learn, TypeInv, TypeOK, Local
<1> QED
  BY <1>1, <1>2, <1>3, <1>4, <1>5 DEF WritesFor

\* So a step leaves the documents alone, or writes one for its owner or staff.
LEMMA WhoWrites ==
  ASSUME TypeInv, CopyInv, [Next]_vars
  PROVE  docs' = docs \/ \E r \in Requests, i \in Ids : WritesFor(r, i)
<1>1. ASSUME NEW r \in Requests, Arrive(r)
      PROVE  docs' = docs \/ \E i \in Ids : WritesFor(r, i)
  BY <1>1, Arrivals, CreateWrites DEF ReadMiss, UpdateLoad, DeleteLoad, Load
<1>2. ASSUME NEW r \in Requests, Step(r)
      PROVE  docs' = docs \/ \E i \in Ids : WritesFor(r, i)
  BY <1>2, ReplaceWrites, RetireWrites
     DEF Step, ReadBack, Find, Fill, UpdateDuplicate, Scan, Drop
<1> QED
  BY <1>1, <1>2 DEF Next, SweepFails, Die, Expire, vars

LEMMA OwnersStay ==
  ASSUME TypeInv, CopyInv, [Next]_vars
  PROVE  OwnersStand
BY WhoWrites DEF OwnersStand, WritesFor, TypeInv, TypeOK

-----------------------------------------------------------------------------
\* A request that moves on without standing before a write of a document.
LEMMA CopyMoved ==
  ASSUME TypeInv, CopyInv, OwnersStand, NEW r \in Requests,
         \A s \in Requests \ {r} : pc'[s] = pc[s] /\ local'[s] = local[s],
         pc'[r] \in {"replace", "retire"} =>
           /\ pc'[r] = "replace" => local'[r].doc.owner = docs'[local'[r].query].owner
           /\ local'[r].caller \in {Staff, docs'[local'[r].query].owner}
  PROVE  CopyInv'
<1> SUFFICES ASSUME NEW s \in Requests, pc'[s] \in {"replace", "retire"}
             PROVE  /\ pc'[s] = "replace" => local'[s].doc.owner = docs'[local'[s].query].owner
                    /\ local'[s].caller \in {Staff, docs'[local'[s].query].owner}
  BY DEF CopyInv
<1>1. CASE s = r
  BY <1>1
<1>2. CASE s # r
  <2>1. pc'[s] = pc[s] /\ local'[s] = local[s]
    BY <1>2
  <2>2. docs'[local[s].query].owner = docs[local[s].query].owner
    BY <2>1 DEF TypeInv, Carries, OwnersStand
  <2> QED
    BY <2>1, <2>2 DEF CopyInv
<1> QED
  BY <1>1, <1>2

\* The frame of every request's step.
LEMMA Frame ==
  ASSUME TypeInv, NEW r \in Requests, Arrive(r) \/ Step(r) \/ SweepFails(r) \/ Die(r)
  PROVE  \A s \in Requests \ {r} : pc'[s] = pc[s] /\ local'[s] = local[s]
<1>0. pc \in [Requests -> Labels] /\ local \in [Requests -> Local]
  BY DEF TypeInv, TypeOK
<1>1. CASE Arrive(r)
  <2>1. \E to, l : Go(r, to) /\ Learn(r, l)
    BY <1>1 DEF Arrive, ReadMiss, Create, UpdateLoad, DeleteLoad, Load
  <2> QED
    BY <1>0, <2>1 DEF Go, Learn
<1>2. CASE ReadBack(r) \/ Find(r) \/ Fill(r) \/ UpdateDuplicate(r) \/ Die(r)
  BY <1>0, <1>2 DEF ReadBack, Find, Fill, UpdateDuplicate, Die, End, Go, Learn
<1>3. CASE UpdateReplace(r) \/ DeleteRetire(r)
  BY <1>0, <1>3 DEF UpdateReplace, DeleteRetire, Invalidating, Go, Learn
<1>4. CASE Scan(r) \/ Drop(r) \/ SweepFails(r)
  BY <1>0, <1>4 DEF Scan, Drop, SweepFails, NextSweep, End, Go, Learn
<1> QED
  BY <1>1, <1>2, <1>3, <1>4 DEF Step

LEMMA CopyStep ==
  ASSUME TypeInv, CopyInv, [Next]_vars
  PROVE  CopyInv'
<1>0. OwnersStand
  BY OwnersStay
<1>1. ASSUME NEW r \in Requests, NEW c \in Companies \cup {Staff}, NEW i \in Ids, NEW n,
             NEW p \in {"replace", "retire"}, Load(r, c, i, n, p), Arrive(r)
      PROVE  CopyInv'
  <2>1. /\ local'[r] = [Idle EXCEPT !.caller = c, !.kind = docs[i].kind, !.query = i,
                                    !.name = n, !.doc = docs[i]]
        /\ docs' = docs /\ MayChange(c, docs[i])
    BY <1>1 DEF Load, Learn, TypeInv, TypeOK
  <2>2. local'[r].caller = c /\ local'[r].query = i /\ local'[r].doc = docs[i]
    BY <2>1 DEF Idle
  <2> QED
    BY <1>0, <1>1, <2>1, <2>2, Frame, CopyMoved DEF MayChange
<1>2. ASSUME NEW r \in Requests, Arrive(r) \/ Step(r) \/ SweepFails(r) \/ Die(r),
             pc'[r] \notin {"replace", "retire"}
      PROVE  CopyInv'
  BY <1>0, <1>2, Frame, CopyMoved
<1>3. ASSUME NEW r \in Requests, Arrive(r) PROVE CopyInv'
  <2>1. ASSUME NEW c, NEW k, NEW q, ReadMiss(r, c, k, q) PROVE pc'[r] = "find"
    BY <2>1 DEF ReadMiss, Go, TypeInv, TypeOK
  <2>2. ASSUME NEW c, NEW k, NEW o, NEW n, NEW i, Create(r, c, k, o, n, i)
        PROVE  pc'[r] \in {"scan", "get"}
    BY <2>2 DEF Create, Go, TypeInv, TypeOK
  <2> QED
    BY <1>1, <1>2, <1>3, <2>1, <2>2, Arrivals DEF UpdateLoad, DeleteLoad
<1>4. ASSUME NEW r \in Requests, Step(r) \/ SweepFails(r) \/ Die(r)
      PROVE  pc'[r] \notin {"replace", "retire"}
  BY <1>4 DEF TypeInv, TypeOK, Step, SweepFails, Die, ReadBack, Find, Fill, UpdateReplace,
              UpdateDuplicate, DeleteRetire, Scan, Drop, Invalidating, NextSweep, End, Go
<1>5. CASE \E key \in Keys : Expire(key)
  BY <1>5 DEF Expire, CopyInv
<1>6. CASE UNCHANGED vars
  BY <1>6 DEF vars, CopyInv
<1> QED
  BY <1>2, <1>3, <1>4, <1>5, <1>6 DEF Next

-----------------------------------------------------------------------------
LEMMA TheirsStays ==
  ASSUME OwnersStand, NEW c, NEW entries \in SUBSET Entry, Theirs(docs, c, entries)
  PROVE  Theirs(docs', c, entries)
BY DEF Theirs, OwnersStand, Entry

LEMMA CachedEntries ==
  ASSUME TypeInv, NEW key \in Keys
  PROVE  cache[key].entries \in SUBSET Entry
<1>1. cache[key] \in Cached
  BY DEF TypeInv, TypeOK
<1>2. CASE cache[key] = Miss
  BY <1>2 DEF Miss
<1>3. CASE cache[key] \in [hit: {TRUE}, entries: SUBSET Entry]
  BY <1>3
<1> QED
  BY <1>1, <1>2, <1>3 DEF Cached

\* A step that fills no key leaves each key as it was, or empty.
LEMMA CacheKept ==
  ASSUME TypeInv, LeakInv, OwnersStand,
         \A key \in Keys : cache'[key] = cache[key] \/ cache'[key] = Miss
  PROVE  \A key \in Keys : Theirs(docs', key.scope, cache'[key].entries)
<1> SUFFICES ASSUME NEW key \in Keys PROVE Theirs(docs', key.scope, cache'[key].entries)
  OBVIOUS
<1>1. CASE cache'[key] = cache[key]
  BY <1>1, CachedEntries, TheirsStays DEF LeakInv
<1>2. CASE cache'[key] = Miss
  BY <1>2 DEF Miss, Theirs
<1> QED
  BY <1>1, <1>2

LEMMA LeakStep ==
  ASSUME TypeInv, CopyInv, LeakInv, [Next]_vars
  PROVE  LeakInv'
<1>0. OwnersStand
  BY OwnersStay
\* The answers on their way to the cache.
<1>1. \A r \in Requests : pc'[r] = "fill" => Theirs(docs', local'[r].caller, local'[r].entries)
  <2> SUFFICES ASSUME NEW r \in Requests, pc'[r] = "fill"
               PROVE  Theirs(docs', local'[r].caller, local'[r].entries)
    OBVIOUS
  <2>1. ASSUME pc[r] = "fill", local'[r] = local[r]
        PROVE  Theirs(docs', local'[r].caller, local'[r].entries)
    BY <1>0, <2>1, LocalFields, TheirsStays DEF LeakInv
  <2>2. CASE Find(r)
    <3> DEFINE l == local[r]
               found == Answer(l.caller, l.kind, l.query)
    <3>1. local' = [local EXCEPT ![r] = [l EXCEPT !.entries = found]] /\ docs' = docs
      BY <2>2 DEF Find, End, Go, Learn, TypeInv, TypeOK
    <3>2. local'[r].caller = l.caller /\ local'[r].entries = found
      BY <3>1, LocalFields DEF TypeInv, TypeOK, Local
    <3>3. Theirs(docs, l.caller, found)
      BY LocalFields, AnswerTyped DEF TypeInv
    <3> HIDE DEF found
    <3> QED
      BY <3>1, <3>2, <3>3
  <2>3. ASSUME NEW s \in Requests, Arrive(s) \/ Step(s) \/ SweepFails(s) \/ Die(s), ~Find(r)
        PROVE  pc[r] = "fill" /\ local'[r] = local[r]
    <3>1. s # r
      BY <2>3 DEF TypeInv, TypeOK, Arrive, Step, SweepFails, Die, ReadMiss, Create, UpdateLoad,
                  DeleteLoad, Load, ReadBack, Fill, UpdateReplace, UpdateDuplicate,
                  DeleteRetire, Scan, Drop, Invalidating, NextSweep, End, Go
    <3> QED
      BY <2>3, <3>1, Frame
  <2>4. ASSUME UNCHANGED <<pc, local>> PROVE pc[r] = "fill" /\ local'[r] = local[r]
    BY <2>4
  <2> QED
    BY <2>1, <2>2, <2>3, <2>4 DEF Next, Expire, vars
\* The answers in the cache.
<1>2. \A key \in Keys : Theirs(docs', key.scope, cache'[key].entries)
  <2>1. ASSUME NEW r \in Requests, Fill(r)
        PROVE  \A key \in Keys : Theirs(docs', key.scope, cache'[key].entries)
    <3> DEFINE l == local[r]
               mine == KeyOf(l.caller, l.kind, l.query)
    <3>1. cache' = [cache EXCEPT ![mine] = Hit(l.entries)] /\ docs' = docs /\ pc[r] = "fill"
      BY <2>1 DEF Fill
    <3>2. mine \in Keys /\ mine.scope = l.caller
      BY LocalFields, KeyFacts
    <3>3. Theirs(docs, l.caller, l.entries)
      BY <3>1 DEF LeakInv
    <3> HIDE DEF mine
    <3>4. ASSUME NEW key \in Keys, key # mine PROVE Theirs(docs', key.scope, cache'[key].entries)
      BY <3>1, <3>4 DEF LeakInv, TypeInv, TypeOK
    <3>5. Theirs(docs', mine.scope, cache'[mine].entries)
      BY <3>1, <3>2, <3>3 DEF TypeInv, TypeOK, Hit
    <3> QED
      BY <3>4, <3>5
  <2>2. ASSUME NEW r \in Requests, Drop(r)
        PROVE  \A key \in Keys : cache'[key] = cache[key] \/ cache'[key] = Miss
    BY <2>2 DEF Drop
  <2>3. ASSUME NEW k \in Keys, Expire(k)
        PROVE  \A key \in Keys : cache'[key] = cache[key] \/ cache'[key] = Miss
    BY <2>3 DEF Expire, TypeInv, TypeOK
  <2>4. CASE cache' = cache
    BY <1>0, <2>4, CacheKept
  <2>5. \/ \E r \in Requests : Fill(r) \/ Drop(r)
        \/ \E key \in Keys : Expire(key)
        \/ cache' = cache
    <3>1. ASSUME NEW r \in Requests, Arrive(r) PROVE cache' = cache
      BY <3>1 DEF Arrive, ReadMiss, Create, UpdateLoad, DeleteLoad, Load
    <3>2. ASSUME NEW r \in Requests, Step(r) PROVE cache' = cache \/ Fill(r) \/ Drop(r)
      BY <3>2 DEF Step, ReadBack, Find, UpdateReplace, UpdateDuplicate, DeleteRetire, Scan
    <3>3. ASSUME NEW r \in Requests, SweepFails(r) \/ Die(r) PROVE cache' = cache
      BY <3>3 DEF SweepFails, Die
    <3>4. CASE UNCHANGED vars
      BY <3>4 DEF vars
    <3> QED
      BY <3>1, <3>2, <3>3, <3>4 DEF Next
  <2>6. CASE \E r \in Requests : Drop(r)
    BY <1>0, <2>2, <2>6, CacheKept
  <2>7. CASE \E key \in Keys : Expire(key)
    BY <1>0, <2>3, <2>7, CacheKept
  <2> QED
    BY <2>1, <2>4, <2>5, <2>6, <2>7
<1> QED
  BY <1>1, <1>2 DEF LeakInv

LEMMA CatalogInvariant == Spec => [](TypeInv /\ CopyInv /\ LeakInv)
<1>1. Init => TypeInv /\ CopyInv /\ LeakInv
  <2> SUFFICES ASSUME Init PROVE TypeInv /\ CopyInv /\ LeakInv
    OBVIOUS
  <2>1. TypeInv
    BY IdleTyped, CatalogAssumption DEF Init, TypeInv, TypeOK, Carries, Labels, Cached
  <2>2. CopyInv /\ LeakInv
    BY DEF Init, CopyInv, LeakInv, Theirs, Miss
  <2> QED
    BY <2>1, <2>2
<1>2. (TypeInv /\ CopyInv /\ LeakInv) /\ [Next]_vars => (TypeInv /\ CopyInv /\ LeakInv)'
  BY TypeStep, CopyStep, LeakStep
<1> QED
  BY <1>1, <1>2, PTL DEF Spec

\* No company is served another's entries: for any companies, requests and
\* documents, whatever the interleaving of reads, fills, writes and sweeps, and
\* whatever sweep fails.
THEOREM TenantsApart == Spec => []NoLeak
<1>1. LeakInv => NoLeak
  <2> SUFFICES ASSUME LeakInv, NEW c \in Companies \cup {Nobody}, NEW k \in Kinds,
                      NEW q \in Queries, NEW e \in cache[KeyOf(c, k, q)].entries
               PROVE  docs[e.id].owner \in {Shared, c}
    BY DEF NoLeak
  <2>1. c \in Callers /\ c # Staff
    BY CatalogAssumption DEF Callers
  <2>2. KeyOf(c, k, q) \in Keys /\ KeyOf(c, k, q).scope = c
    BY <2>1, KeyFacts
  <2> QED
    BY <2>1, <2>2 DEF LeakInv, Theirs
<1> QED
  BY <1>1, CatalogInvariant, PTL

\* A document changes only in a step taken for its owner or for Karlo staff, and
\* keeps its owner, although the right to change it was checked statements
\* earlier, on a copy others may have changed since.
THEOREM CompaniesWriteTheirOwn == Spec => WritesItsOwn
<1>1. TypeInv /\ CopyInv /\ [Next]_vars =>
        [\A i \in Ids : docs'[i] # docs[i] =>
           /\ docs[i] # Absent => docs'[i].owner = docs[i].owner
           /\ \E r \in Requests : /\ pc'[r] # pc[r]
                                  /\ local'[r].caller \in {Staff, docs'[i].owner}]_vars
  <2> SUFFICES ASSUME TypeInv, CopyInv, [Next]_vars, NEW i \in Ids, docs'[i] # docs[i]
               PROVE  /\ docs[i] # Absent => docs'[i].owner = docs[i].owner
                      /\ \E r \in Requests : /\ pc'[r] # pc[r]
                                             /\ local'[r].caller \in {Staff, docs'[i].owner}
    OBVIOUS
  <2>1. PICK r \in Requests, j \in Ids : WritesFor(r, j)
    BY WhoWrites
  <2>2. i = j
    BY <2>1 DEF WritesFor, TypeInv, TypeOK
  <2>3. docs[i] # Absent => docs'[i].owner = docs[i].owner
    BY OwnersStay DEF OwnersStand, TypeInv, TypeOK
  <2> QED
    BY <2>1, <2>2, <2>3 DEF WritesFor
<1> QED
  BY <1>1, CatalogInvariant, PTL DEF Spec, WritesItsOwn

-----------------------------------------------------------------------------
(***************************************************************************)
(* Requests one at a time, and no cache call fails.                        *)
(***************************************************************************)
OneAtATime == \A r, s \in Requests : pc[r] # "idle" /\ pc[s] # "idle" => r = s

\* What a write stands before is what it loaded, and its caller can write.
LoadedCopy(r) ==
  pc[r] \in {"replace", "retire"} =>
    /\ local[r].doc = docs[local[r].query]
    /\ local[r].kind = docs[local[r].query].kind
    /\ local[r].caller \in Companies \cup {Staff}

\* An answer on its way to the cache is still the database's.
AnswerStands(r) ==
  pc[r] = "fill" =>
    local[r].entries = Answer(local[r].caller, local[r].kind, local[r].query)

KeyFresh(key) ==
  cache[key].hit => cache[key].entries = Answer(key.scope, key.kind, key.query)

\* The keys request r has yet to remove.
ToSweep(r, key) ==
  LET sweeps == local[r].sweeps
  IN \/ pc[r] = "scan" /\ \E j \in 1 .. Len(sweeps) : key \in sweeps[j]
     \/ /\ pc[r] = "drop"
        /\ key \in local[r].scanned \/ \E j \in 2 .. Len(sweeps) : key \in sweeps[j]

\* A key is fresh, or a sweep under way is still to come to it.  A Create of an
\* unowned kind sweeps nothing, so only the owned kinds are spoken of.
FreshOrSwept ==
  \A key \in Keys : key.kind \in Owned =>
    KeyFresh(key) \/ \E r \in Requests : ToSweep(r, key)

CurrentInv ==
  /\ OneAtATime
  /\ \A r \in Requests : LoadedCopy(r) /\ AnswerStands(r)
  /\ FreshOrSwept

LEMMA ActsAlone ==
  ASSUME TypeInv, OneAtATime, ~Concurrent, NEW r \in Requests, Arrive(r) \/ Step(r)
  PROVE  \A s \in Requests \ {r} : pc[s] = "idle" /\ pc'[s] = "idle"
<1>1. CASE Arrive(r)
  <2>1. Begin(r)
    BY <1>1 DEF Arrive, ReadMiss, Create, UpdateLoad, DeleteLoad, Load, BeginWrite
  <2> QED
    BY <1>1, <2>1, Frame DEF Begin
<1>2. CASE Step(r)
  <2>1. pc[r] # "idle"
    BY <1>2 DEF Step, ReadBack, Find, Fill, UpdateReplace, UpdateDuplicate, DeleteRetire,
                Scan, Drop
  <2>2. \A s \in Requests \ {r} : pc[s] = "idle"
    BY <2>1 DEF OneAtATime
  <2> QED
    BY <1>2, <2>2, Frame
<1> QED
  BY <1>1, <1>2

\* So it is enough to look at the request that acts, and at the cache.
LEMMA AloneMoves ==
  ASSUME TypeInv, CurrentInv, ~Concurrent, NEW r \in Requests, Arrive(r) \/ Step(r),
         LoadedCopy(r)', AnswerStands(r)', FreshOrSwept'
  PROVE  CurrentInv'
<1>1. \A s \in Requests \ {r} : pc'[s] = "idle"
  BY ActsAlone DEF CurrentInv
<1>2. OneAtATime'
  BY <1>1 DEF OneAtATime
<1>3. \A s \in Requests : LoadedCopy(s)' /\ AnswerStands(s)'
  BY <1>1 DEF LoadedCopy, AnswerStands
<1> QED
  BY <1>2, <1>3 DEF CurrentInv

\* While no sweep is under way, every key of an owned kind is fresh.
LEMMA FreshAlone ==
  ASSUME TypeInv, CurrentInv, ~Concurrent, NEW r \in Requests, Arrive(r) \/ Step(r),
         pc[r] \notin {"scan", "drop"}
  PROVE  \A key \in Keys : key.kind \in Owned => KeyFresh(key)
<1>1. \A s \in Requests : pc[s] \notin {"scan", "drop"}
  BY ActsAlone DEF CurrentInv
<1> QED
  BY <1>1 DEF CurrentInv, FreshOrSwept, ToSweep

\* Answer, over the documents D.
AnswerOf(D, c, k, q) ==
  {[id |-> i, name |-> D[i].name] :
     i \in {j \in Ids : /\ ~D[j].deleted /\ D[j].kind = k
                        /\ visible(c, D[j])
                        /\ q \in {All, j}}}

\* What no caller of scope c sees does not change its answers.
Unseen(c, k, d) == d.deleted \/ d.kind # k \/ ~visible(c, d)

LEMMA AnswerKept ==
  ASSUME NEW i \in Ids, \A j \in Ids \ {i} : docs'[j] = docs[j],
         NEW c \in Callers, NEW k \in Kinds, NEW q \in Queries,
         Unseen(c, k, docs[i]), Unseen(c, k, docs'[i])
  PROVE  AnswerOf(docs', c, k, q) = AnswerOf(docs, c, k, q)
<1> DEFINE Old == {j \in Ids : /\ ~docs[j].deleted /\ docs[j].kind = k
                               /\ visible(c, docs[j]) /\ q \in {All, j}}
           New == {j \in Ids : /\ ~docs'[j].deleted /\ docs'[j].kind = k
                               /\ visible(c, docs'[j]) /\ q \in {All, j}}
<1>2. i \notin Old /\ i \notin New
  BY DEF Unseen
<1>3. New = Old
  BY <1>2
<1>4. /\ AnswerOf(docs, c, k, q) = {[id |-> j, name |-> docs[j].name] : j \in Old}
      /\ AnswerOf(docs', c, k, q) = {[id |-> j, name |-> docs'[j].name] : j \in New}
  BY DEF AnswerOf
<1>5. Old \subseteq Ids
  OBVIOUS
<1> HIDE DEF Old, New
<1>6. \A j \in Old : docs'[j].name = docs[j].name
  BY <1>2, <1>5
<1> QED
  BY <1>3, <1>4, <1>6

\* A write of a company's entry, or of any entry by staff, changes no answer but
\* those its sweeps remove.
LEMMA SweepCovers ==
  ASSUME TypeInv, NEW c \in Companies \cup {Staff}, NEW k \in Kinds, NEW i \in Ids,
         NEW d \in Doc, docs' = [docs EXCEPT ![i] = d], d.kind = k, c = Staff \/ d.owner = c,
         docs[i] = Absent \/ (docs[i].kind = k /\ docs[i].owner = d.owner),
         NEW key \in Keys,
         \A j \in 1 .. Len(invalidate(c, k)) : key \notin invalidate(c, k)[j]
  PROVE  AnswerOf(docs', key.scope, key.kind, key.query)
           = AnswerOf(docs, key.scope, key.kind, key.query)
<1>1. c # Staff
  <2> SUFFICES ASSUME c = Staff PROVE FALSE
    OBVIOUS
  <2>1. invalidate(c, k) = <<Keys>>
    BY DEF invalidate
  <2>2. Len(<<Keys>>) = 1 /\ <<Keys>>[1] = Keys
    OBVIOUS
  <2> QED
    BY <2>1, <2>2
<1>2. key \notin Prefix(c, k) /\ key \notin Prefix(Staff, k)
  <2> DEFINE a == Prefix(c, k)
             b == Prefix(Staff, k)
  <2>1. invalidate(c, k) = <<a, b>>
    BY <1>1 DEF invalidate
  <2> HIDE DEF a, b
  <2>2. Len(<<a, b>>) = 2 /\ <<a, b>>[1] = a /\ <<a, b>>[2] = b
    OBVIOUS
  <2> QED
    BY <2>1, <2>2 DEF a, b
<1>3. key.kind # k \/ (key.scope # c /\ key.scope # Staff)
  BY <1>2 DEF Prefix, catalogScope
<1>4. ~visible(key.scope, d) \/ key.kind # k
  BY <1>1, <1>3, CatalogAssumption DEF visible
<1>5. docs'[i] = d /\ \A j \in Ids \ {i} : docs'[j] = docs[j]
  BY DEF TypeInv, TypeOK
<1>6. Unseen(key.scope, key.kind, docs'[i])
  BY <1>4, <1>5 DEF Unseen
<1>7. CASE docs[i] = Absent
  <2>1. Unseen(key.scope, key.kind, docs[i])
    BY <1>7 DEF Absent, Unseen
  <2> QED
    BY <1>5, <1>6, <2>1, KeyFacts, AnswerKept
<1>8. CASE docs[i].kind = k /\ docs[i].owner = d.owner
  <2>1. Unseen(key.scope, key.kind, docs[i])
    BY <1>4, <1>8 DEF Unseen, visible
  <2> QED
    BY <1>5, <1>6, <2>1, KeyFacts, AnswerKept
<1> QED
  BY <1>7, <1>8

LEMMA WriteSweeps ==
  ASSUME TypeInv, \A key \in Keys : key.kind \in Owned => KeyFresh(key),
         NEW r \in Requests, NEW c \in Companies \cup {Staff}, NEW k \in Kinds, NEW i \in Ids,
         NEW d \in Doc, docs' = [docs EXCEPT ![i] = d], d.kind = k, c = Staff \/ d.owner = c,
         docs[i] = Absent \/ (docs[i].kind = k /\ docs[i].owner = d.owner),
         pc'[r] = "scan", local'[r].sweeps = invalidate(c, k), cache' = cache
  PROVE  FreshOrSwept'
<1> SUFFICES ASSUME NEW key \in Keys, key.kind \in Owned, ~ToSweep(r, key)'
             PROVE  KeyFresh(key)'
  BY DEF FreshOrSwept
<1>1. \A j \in 1 .. Len(invalidate(c, k)) : key \notin invalidate(c, k)[j]
  BY DEF ToSweep
<1>2. AnswerOf(docs', key.scope, key.kind, key.query)
        = AnswerOf(docs, key.scope, key.kind, key.query)
  BY <1>1, SweepCovers
<1> QED
  BY <1>2 DEF KeyFresh, Answer, AnswerOf, Live, visible

\* The sweeps and the fill, and the steps that touch no document.
LEMMA QuietStep ==
  ASSUME TypeInv, docs' = docs, NEW key \in Keys, KeyFresh(key),
         cache'[key] = cache[key] \/ cache'[key] = Miss
  PROVE  KeyFresh(key)'
BY DEF KeyFresh, Answer, Live, visible, Miss

LEMMA QuietAlone ==
  ASSUME TypeInv, CurrentInv, ~Concurrent, NEW r \in Requests, Arrive(r) \/ Step(r),
         pc[r] \notin {"scan", "drop"}, docs' = docs, cache' = cache
  PROVE  FreshOrSwept'
BY FreshAlone, QuietStep DEF FreshOrSwept

LEMMA FillCurrent ==
  ASSUME TypeInv, CurrentInv, ~Concurrent, NEW r \in Requests, Fill(r)
  PROVE  FreshOrSwept'
<1> DEFINE l == local[r]
           mine == KeyOf(l.caller, l.kind, l.query)
<1>1. /\ cache' = [cache EXCEPT ![mine] = Hit(l.entries)] /\ docs' = docs
      /\ pc[r] = "fill" /\ l.entries = Answer(l.caller, l.kind, l.query)
  BY DEF Fill, CurrentInv, AnswerStands
<1>2. /\ mine \in Keys /\ mine.scope = l.caller /\ mine.kind = l.kind /\ mine.query = l.query
  BY LocalFields DEF Keys, KeyOf, catalogScope
<1>3. \A key \in Keys : key.kind \in Owned => KeyFresh(key)
  BY <1>1, FreshAlone DEF Step
<1> HIDE DEF mine
<1>4. ASSUME NEW key \in Keys, key.kind \in Owned, key # mine PROVE KeyFresh(key)'
  <2>1. cache'[key] = cache[key]
    BY <1>1, <1>4 DEF TypeInv, TypeOK
  <2> QED
    BY <1>1, <1>3, <1>4, <2>1, QuietStep
<1>5. ASSUME NEW key \in Keys, key = mine PROVE KeyFresh(key)'
  <2>1. cache'[key].entries = Answer(key.scope, key.kind, key.query)
    BY <1>1, <1>2, <1>5 DEF TypeInv, TypeOK, Hit
  <2> QED
    BY <1>1, <2>1 DEF KeyFresh, Answer, Live, visible
<1> QED
  BY <1>4, <1>5 DEF FreshOrSwept

\* A key still to be swept when r scans is found, or was not cached.
LEMMA ScanCurrent ==
  ASSUME TypeInv, CurrentInv, ~Concurrent, NEW r \in Requests, Scan(r)
  PROVE  FreshOrSwept'
<1> DEFINE sweeps == local[r].sweeps
           found == {key \in Head(sweeps) : cache[key].hit}
<1>1. /\ pc[r] = "scan" /\ pc'[r] = "drop" /\ docs' = docs /\ cache' = cache
      /\ local' = [local EXCEPT ![r] = [local[r] EXCEPT !.scanned = found]]
  BY DEF Scan, Go, Learn, TypeInv, TypeOK
<1>2. sweeps \in Seq(SUBSET Keys) /\ sweeps # <<>>
  BY <1>1, LocalFields DEF TypeInv, Carries
<1>3. local'[r].sweeps = sweeps /\ local'[r].scanned = found
  BY <1>1, LocalFields DEF TypeInv, TypeOK, Local
<1>4. \A s \in Requests \ {r} : pc[s] = "idle"
  BY ActsAlone DEF Step, CurrentInv
<1> SUFFICES ASSUME NEW key \in Keys, key.kind \in Owned, ~KeyFresh(key)'
             PROVE  ToSweep(r, key)'
  BY DEF FreshOrSwept
<1>5. ~KeyFresh(key) /\ cache[key].hit
  BY <1>1, QuietStep DEF KeyFresh
<1>6. ToSweep(r, key)
  BY <1>4, <1>5 DEF CurrentInv, FreshOrSwept, ToSweep
<1>7. PICK j \in 1 .. Len(sweeps) : key \in sweeps[j]
  BY <1>1, <1>6 DEF ToSweep
<1>8. CASE j = 1
  <2>1. key \in found
    BY <1>2, <1>5, <1>7, <1>8
  <2> QED
    BY <1>1, <1>3, <2>1 DEF ToSweep
<1>9. CASE j # 1
  <2>1. j \in 2 .. Len(sweeps)
    BY <1>2, <1>7, <1>9
  <2> QED
    BY <1>1, <1>3, <1>7, <2>1 DEF ToSweep
<1> QED
  BY <1>8, <1>9

LEMMA DropCurrent ==
  ASSUME TypeInv, CurrentInv, ~Concurrent, NEW r \in Requests, Drop(r)
  PROVE  FreshOrSwept'
<1> DEFINE sweeps == local[r].sweeps
           rest == Tail(sweeps)
<1>1. /\ pc[r] = "drop" /\ docs' = docs /\ NextSweep(r)
      /\ cache' = [key \in Keys |-> IF key \in local[r].scanned THEN Miss ELSE cache[key]]
  BY DEF Drop
<1>2. sweeps \in Seq(SUBSET Keys) /\ sweeps # <<>>
  BY <1>1, LocalFields DEF TypeInv, Carries
<1>3. \A s \in Requests \ {r} : pc[s] = "idle"
  BY ActsAlone DEF Step, CurrentInv
<1> SUFFICES ASSUME NEW key \in Keys, key.kind \in Owned, ~KeyFresh(key)'
             PROVE  ToSweep(r, key)'
  BY DEF FreshOrSwept
<1>4. ~KeyFresh(key)
  BY <1>1, QuietStep
<1>5. ToSweep(r, key)
  BY <1>3, <1>4 DEF CurrentInv, FreshOrSwept, ToSweep
<1>6. key \notin local[r].scanned
  BY <1>1 DEF KeyFresh, Miss
<1>7. PICK j \in 2 .. Len(sweeps) : key \in sweeps[j]
  BY <1>1, <1>5, <1>6 DEF ToSweep
<1>8. j - 1 \in 1 .. Len(rest) /\ rest[j - 1] = sweeps[j]
  BY <1>2, <1>7
<1>9. rest # <<>>
  <2>1. Len(rest) = Len(sweeps) - 1 /\ Len(sweeps) >= 2 /\ Len(sweeps) \in Nat
    BY <1>2, <1>7
  <2> HIDE DEF rest
  <2> QED
    BY <2>1
<1> HIDE DEF rest
<1>10. /\ pc' = [pc EXCEPT ![r] = "scan"]
       /\ local' = [local EXCEPT ![r] = [local[r] EXCEPT !.sweeps = rest, !.scanned = {}]]
  BY <1>1, <1>9 DEF NextSweep, Go, Learn, rest
<1>11. pc'[r] = "scan" /\ local'[r].sweeps = rest
  BY <1>10, LocalFields DEF TypeInv, TypeOK, Local
<1> QED
  BY <1>7, <1>8, <1>11 DEF ToSweep

-----------------------------------------------------------------------------
\* The writes: what they write has the kind they sweep.
LEMMA CreateCurrent ==
  ASSUME TypeInv, CurrentInv, ~Concurrent, NEW r \in Requests,
         NEW c \in Companies \cup {Staff}, NEW k \in Kinds,
         NEW o \in Owners, NEW n \in Names, NEW i \in Ids, Create(r, c, k, o, n, i), Arrive(r)
  PROVE  FreshOrSwept'
<1> DEFINE d == [kind |-> k, owner |-> o, name |-> n, deleted |-> FALSE]
<1>1. /\ docs' = [docs EXCEPT ![i] = d] /\ docs[i] = Absent /\ cache' = cache
      /\ pc[r] = "idle"
  BY DEF Create, BeginWrite, Begin
<1>2. d \in Doc /\ d.kind = k /\ d.owner = o
  BY DEF Doc
<1>3. c = Staff \/ o = c
  BY DEF Create, MayCreate
<1>4. \A key \in Keys : key.kind \in Owned => KeyFresh(key)
  BY <1>1, FreshAlone
<1>5. CASE k \in Owned
  <2>1. pc'[r] = "scan" /\ local'[r].sweeps = invalidate(c, k)
    BY <1>5 DEF Create, Go, Learn, TypeInv, TypeOK, Idle
  <2> HIDE DEF d
  <2> QED
    BY <1>1, <1>2, <1>3, <1>4, <2>1, WriteSweeps
<1>6. CASE k \notin Owned
  <2> HIDE DEF d
  <2> SUFFICES ASSUME NEW key \in Keys, key.kind \in Owned PROVE KeyFresh(key)'
    BY DEF FreshOrSwept
  <2>1. /\ Unseen(key.scope, key.kind, docs[i]) /\ Unseen(key.scope, key.kind, docs'[i])
        /\ \A j \in Ids \ {i} : docs'[j] = docs[j]
    BY <1>1, <1>2, <1>6 DEF Absent, Unseen, TypeInv, TypeOK
  <2>2. AnswerOf(docs', key.scope, key.kind, key.query)
          = AnswerOf(docs, key.scope, key.kind, key.query)
    BY <2>1, KeyFacts, AnswerKept
  <2> QED
    BY <1>1, <1>4, <2>2 DEF KeyFresh, Answer, AnswerOf, Live, visible
<1> QED
  BY <1>5, <1>6

LEMMA ReplaceCurrent ==
  ASSUME TypeInv, CopyInv, CurrentInv, ~Concurrent, NEW r \in Requests,
         UpdateReplace(r) \/ DeleteRetire(r)
  PROVE  FreshOrSwept' /\ pc'[r] = "scan"
<1> DEFINE l == local[r]
           i == l.query
<1>1. pc[r] \in {"replace", "retire"} /\ cache' = cache
  BY DEF UpdateReplace, DeleteRetire
<1>2. /\ i \in Ids /\ docs[i] \in Doc
      /\ l.kind = docs[i].kind /\ l.caller \in Companies \cup {Staff}
      /\ l.doc = docs[i] /\ l.caller \in {Staff, docs[i].owner}
      /\ l.name \in Names /\ l.kind \in Kinds
  BY <1>1, LocalFields DEF TypeInv, Carries, CopyInv, CurrentInv, LoadedCopy
<1>3. PICK d \in Doc : /\ docs' = [docs EXCEPT ![i] = d]
                       /\ d.kind = l.kind /\ d.owner = docs[i].owner
  <2>1. CASE UpdateReplace(r)
    <3>1. /\ Merged(docs[i], l.name) \in Doc
          /\ Merged(docs[i], l.name).kind = docs[i].kind
          /\ Merged(docs[i], l.name).owner = docs[i].owner
      BY <1>2 DEF Merged, Doc
    <3> QED
      BY <1>2, <2>1, <3>1 DEF UpdateReplace
  <2>2. CASE DeleteRetire(r)
    <3> DEFINE d == [docs[i] EXCEPT !.deleted = TRUE]
    <3>1. d \in Doc /\ d.kind = docs[i].kind /\ d.owner = docs[i].owner
      BY <1>2 DEF Doc
    <3>2. docs' = [docs EXCEPT ![i] = d]
      BY <2>2 DEF DeleteRetire
    <3> HIDE DEF d
    <3> QED
      BY <1>2, <3>1, <3>2
  <2> QED
    BY <2>1, <2>2
<1>4. Invalidating(r, TRUE) \/ Invalidating(r, FALSE)
  BY DEF UpdateReplace, DeleteRetire
<1>5. pc'[r] = "scan" /\ local'[r].sweeps = invalidate(l.caller, l.kind)
  <2>1. PICK b \in BOOLEAN : Invalidating(r, b)
    BY <1>4
  <2> DEFINE sw == invalidate(l.caller, l.kind)
  <2>2. /\ pc' = [pc EXCEPT ![r] = "scan"]
        /\ local' = [local EXCEPT ![r] = [l EXCEPT !.doc = Absent, !.readsBack = b, !.sweeps = sw]]
    BY <2>1 DEF Invalidating, Go, Learn
  <2> HIDE DEF sw
  <2>3. pc'[r] = "scan" /\ local'[r].sweeps = sw
    BY <2>2, LocalFields DEF TypeInv, TypeOK, Local
  <2> QED
    BY <2>3 DEF sw
<1>6. \A key \in Keys : key.kind \in Owned => KeyFresh(key)
  BY <1>1, FreshAlone DEF Step
<1>7. FreshOrSwept'
  BY <1>1, <1>2, <1>3, <1>5, <1>6, WriteSweeps
<1> QED
  BY <1>5, <1>7

-----------------------------------------------------------------------------
LEMMA CurrentStep ==
  ASSUME ~Concurrent, ~CanFail, TypeInv, CopyInv, CurrentInv, [Next]_vars
  PROVE  CurrentInv'
\* A request that goes neither to a write nor to a fill.
<1>1. ASSUME NEW r \in Requests, Arrive(r) \/ Step(r), FreshOrSwept',
             pc'[r] \notin {"replace", "retire", "fill"}
      PROVE  CurrentInv'
  BY <1>1, AloneMoves DEF LoadedCopy, AnswerStands
<1>2. ASSUME NEW r \in Requests, NEW c, NEW k, NEW q, ReadMiss(r, c, k, q), Arrive(r)
      PROVE  CurrentInv'
  <2>1. pc[r] = "idle" /\ pc'[r] = "find" /\ docs' = docs /\ cache' = cache
    BY <1>2 DEF ReadMiss, Begin, Go, TypeInv, TypeOK
  <2> QED
    BY <1>1, <1>2, <2>1, QuietAlone
<1>3. ASSUME NEW r \in Requests, NEW c \in Companies \cup {Staff}, NEW k \in Kinds,
             NEW o \in Owners, NEW n \in Names, NEW i \in Ids, Create(r, c, k, o, n, i), Arrive(r)
      PROVE  CurrentInv'
  <2>1. pc'[r] \in {"scan", "get"}
    BY <1>3 DEF Create, Go, TypeInv, TypeOK
  <2> QED
    BY <1>1, <1>3, <2>1, CreateCurrent
<1>4. ASSUME NEW r \in Requests, NEW c \in Companies \cup {Staff}, NEW i \in Ids, NEW n,
             NEW p \in {"replace", "retire"}, Load(r, c, i, n, p), Arrive(r)
      PROVE  CurrentInv'
  <2>1. /\ pc[r] = "idle" /\ pc'[r] = p /\ docs' = docs /\ cache' = cache
        /\ local'[r] = [Idle EXCEPT !.caller = c, !.kind = docs[i].kind, !.query = i,
                                    !.name = n, !.doc = docs[i]]
    BY <1>4 DEF Load, BeginWrite, Begin, Go, Learn, TypeInv, TypeOK
  <2>2. /\ local'[r].caller = c /\ local'[r].query = i /\ local'[r].doc = docs[i]
        /\ local'[r].kind = docs[i].kind
    BY <2>1 DEF Idle
  <2>3. LoadedCopy(r)' /\ AnswerStands(r)'
    BY <2>1, <2>2 DEF LoadedCopy, AnswerStands
  <2>4. FreshOrSwept'
    BY <1>4, <2>1, QuietAlone
  <2> QED
    BY <1>4, <2>3, <2>4, AloneMoves
<1>5. ASSUME NEW r \in Requests, Arrive(r) PROVE CurrentInv'
  BY <1>2, <1>3, <1>4, <1>5, Arrivals DEF UpdateLoad, DeleteLoad
<1>6. ASSUME NEW r \in Requests, ReadBack(r) \/ UpdateDuplicate(r) PROVE CurrentInv'
  <2>1. /\ pc[r] \in {"get", "replace"} /\ pc'[r] \in {"idle", "find"}
        /\ docs' = docs /\ cache' = cache
    BY <1>6 DEF ReadBack, UpdateDuplicate, End, Go, TypeInv, TypeOK
  <2> QED
    BY <1>1, <1>6, <2>1, QuietAlone DEF Step
<1>7. ASSUME NEW r \in Requests, Find(r) PROVE CurrentInv'
  <2> DEFINE found == Answer(local[r].caller, local[r].kind, local[r].query)
  <2>1. /\ pc[r] = "find" /\ pc'[r] \in {"idle", "fill"} /\ docs' = docs /\ cache' = cache
    BY <1>7 DEF Find, End, Go, TypeInv, TypeOK
  <2>2. FreshOrSwept'
    BY <1>7, <2>1, QuietAlone DEF Step
  <2>3. CASE pc'[r] = "idle"
    BY <1>1, <1>7, <2>2, <2>3 DEF Step
  <2>4. CASE pc'[r] = "fill"
    <3>1. local' = [local EXCEPT ![r] = [local[r] EXCEPT !.entries = found]]
      BY <1>7, <2>4 DEF Find, End, Go, Learn, TypeInv, TypeOK
    <3> HIDE DEF found
    <3>2. /\ local'[r].entries = found /\ local'[r].caller = local[r].caller
          /\ local'[r].kind = local[r].kind /\ local'[r].query = local[r].query
      BY <3>1, LocalFields DEF TypeInv, TypeOK, Local
    <3>3. AnswerStands(r)'
      BY <2>1, <3>2 DEF AnswerStands, Answer, Live, visible, found
    <3>4. LoadedCopy(r)'
      BY <2>4 DEF LoadedCopy
    <3> QED
      BY <1>7, <2>2, <3>3, <3>4, AloneMoves DEF Step
  <2> QED
    BY <2>1, <2>3, <2>4
<1>8. ASSUME NEW r \in Requests, Fill(r) PROVE CurrentInv'
  <2>1. pc'[r] = "idle"
    BY <1>8 DEF Fill, End, Go, TypeInv, TypeOK
  <2> QED
    BY <1>1, <1>8, <2>1, FillCurrent DEF Step
<1>9. ASSUME NEW r \in Requests, UpdateReplace(r) \/ DeleteRetire(r) PROVE CurrentInv'
  BY <1>1, <1>9, ReplaceCurrent DEF Step
<1>10. ASSUME NEW r \in Requests, Scan(r) PROVE CurrentInv'
  <2>1. pc'[r] = "drop"
    BY <1>10 DEF Scan, Go, TypeInv, TypeOK
  <2> QED
    BY <1>1, <1>10, <2>1, ScanCurrent DEF Step
<1>11. ASSUME NEW r \in Requests, Drop(r) PROVE CurrentInv'
  <2>1. pc'[r] \in {"idle", "get", "scan"}
    BY <1>11 DEF Drop, NextSweep, End, Go, TypeInv, TypeOK
  <2> QED
    BY <1>1, <1>11, <2>1, DropCurrent DEF Step
<1>12. ASSUME NEW k \in Keys, Expire(k) PROVE CurrentInv'
  <2>1. /\ docs' = docs /\ pc' = pc /\ local' = local
        /\ \A key \in Keys : cache'[key] = cache[key] \/ cache'[key] = Miss
    BY <1>12 DEF Expire, TypeInv, TypeOK
  <2>2. FreshOrSwept'
    BY <2>1, QuietStep DEF CurrentInv, FreshOrSwept, ToSweep
  <2> QED
    BY <2>1, <2>2 DEF CurrentInv, OneAtATime, LoadedCopy, AnswerStands, Answer, Live, visible
<1>13. CASE UNCHANGED vars
  <2>1. FreshOrSwept'
    BY <1>13, QuietStep DEF CurrentInv, FreshOrSwept, ToSweep, vars
  <2> QED
    BY <1>13, <2>1
       DEF vars, CurrentInv, OneAtATime, LoadedCopy, AnswerStands, Answer, Live, visible
<1> QED
  BY <1>5, <1>6, <1>7, <1>8, <1>9, <1>10, <1>11, <1>12, <1>13
     DEF Next, Step, SweepFails, Die

\* When requests come one at a time and no cache call fails, what the cache
\* holds between requests is what the database would answer: the two prefixes a
\* company's write sweeps, and the whole cache a staff write sweeps, are all the
\* keys the write could have made stale.  It is of the kinds a company can own,
\* for a Create of another kind sweeps nothing.
THEOREM CacheFollowsWrites ==
  ASSUME ~Concurrent, ~CanFail, Kinds = Owned
  PROVE  Spec => []CacheCurrent
<1>1. Init => CurrentInv
  BY DEF Init, CurrentInv, OneAtATime, LoadedCopy, AnswerStands, FreshOrSwept, KeyFresh, Miss
<1>2. TypeInv /\ CopyInv /\ CurrentInv /\ [Next]_vars => CurrentInv'
  BY CurrentStep
<1>3. TypeInv /\ CurrentInv => CacheCurrent
  <2> SUFFICES ASSUME TypeInv, CurrentInv, \A r \in Requests : pc[r] = "idle",
                      NEW c \in Callers, NEW k \in Kinds, NEW q \in Queries
               PROVE  Fresh(c, k, q)
    BY DEF CacheCurrent
  <2> DEFINE key == KeyOf(c, k, q)
  <2>1. /\ key \in Keys /\ key.scope = c /\ key.kind = k /\ key.query = q
    BY DEF Keys, KeyOf, catalogScope
  <2> HIDE DEF key
  <2>2. KeyFresh(key)
    BY <2>1 DEF CurrentInv, FreshOrSwept, ToSweep
  <2> QED
    BY <2>1, <2>2 DEF KeyFresh, Fresh, key
<1> QED
  BY <1>1, <1>2, <1>3, CatalogInvariant, PTL DEF Spec
=============================================================================
