-------------------------------- MODULE Seed --------------------------------
(***************************************************************************)
(* Loading the shared reference lists (internal/seed/seed.go): every entry *)
(* of a file is matched with a shared document by its code or its name and *)
(* updated, or inserted, kind after kind, while people go on editing the   *)
(* same lists.                                                             *)
(*                                                                         *)
(* An upsert that finds nothing and its insert are two steps: without a    *)
(* unique index nothing keeps another writer out from between them.        *)
(***************************************************************************)
EXTENDS Naturals, Sequences, SequencesExt

CONSTANTS
  Seeders,   \* the tasks that may run
  Files,     \* the files they may be given: a list of entries for each kind
  Absent,    \* no code, no name, no parent
  Names,     \* the spellings of names
  Norm,      \* normalise.Name: what a spelling is compared by
  Codes,
  HandEntries, \* bound: the entries people add while the tasks run
  MaxHands,  \* bound: edits by people
  MaxRuns    \* bound: runs of the task

collections == {"truckType", "truckBody", "truckHead", "truckClass", "brand", "cargoType",
                "itemType", "itemCharacter", "paymentType", "pricingType", "requirement",
                "currency", "provinsi", "kota"}

\* The collections whose live shared entries have one name each
\* (schema/master_data.js); the others have no index at all.
NamedOnce == {"truckBody", "truckHead", "truckClass", "brand", "cargoType"}

Entries == [code : Codes \cup {Absent}, name : Names \cup {Absent}, parent : Codes \cup {Absent}]

\* In a file no two entries of a kind have a code or a name in common.
ASSUME SeedAssumption ==
  /\ Norm \in [Names -> Names]
  /\ Absent \notin Names \cup Codes
  /\ \A f \in Files : \A kind \in DOMAIN f :
       /\ f[kind] \in Seq(Entries)
       /\ \A i, j \in DOMAIN f[kind] :
            LET d == f[kind][i]
                e == f[kind][j] IN
            i # j /\ d.name # Absent /\ e.name # Absent =>
              d.code # e.code /\ Norm[d.name] # Norm[e.name]

VARIABLES
  store,   \* the documents, by identifier
  task,    \* the tasks
  hands,   \* edits by people so far
  runs,    \* runs started
  quiet    \* nobody has edited anything since the last run began

seedVars == <<store, task, hands, runs, quiet>>

Resting == [stage |-> "none"]

SeedInit ==
  /\ store = <<>>
  /\ task = [s \in Seeders |-> Resting]
  /\ hands = 0 /\ runs = 0 /\ quiet = TRUE

Ids == DOMAIN store

\* Match by code, or by name; retired entries match too, a company's own do not.
Matches(kind, e) ==
  {i \in Ids : /\ store[i].kind = kind /\ store[i].shared
               /\ store[i].code = e.code \/ Norm[store[i].name] = Norm[e.name]}

\* A write the unique index of the collection refuses.
Duplicate(after, i) ==
  /\ after[i].kind \in NamedOnce
  /\ \E j \in DOMAIN after \ {i} :
       /\ after[j].kind = after[i].kind /\ after[j].shared /\ after[j].live
       /\ after[i].shared /\ after[i].live
       /\ Norm[after[j].name] = Norm[after[i].name]

\* Run: the file is read whole before anything is written.
Run(s, file, dryRun) ==
  /\ task[s].stage \in {"none", "done", "failed"}
  /\ runs < MaxRuns
  /\ runs' = runs + 1 /\ quiet' = TRUE
  /\ task' = [task EXCEPT ![s] =
       [stage |-> "run", file |-> file, todo |-> DOMAIN file, kind |-> Absent, left |-> <<>>,
        provinceIDs |-> <<>>, dryRun |-> dryRun, missed |-> FALSE]]
  /\ UNCHANGED <<store, hands>>

\* Any kind may be next.
NextKindsAny(todo) == todo

\* Provinces first, then cities, then the rest as the map is walked.
NextKinds(todo) ==
  IF "provinsi" \in todo THEN {"provinsi"} ELSE IF "kota" \in todo THEN {"kota"} ELSE todo

\* A kind that has no collection is skipped.
BeginKind(s) ==
  /\ task[s].stage = "run" /\ task[s].left = <<>>
  /\ \E kind \in NextKinds(task[s].todo) :
       task' = [task EXCEPT ![s].todo = @ \ {kind}, ![s].kind = kind,
                            ![s].left = IF kind \in collections THEN task[s].file[kind]
                                                                ELSE <<>>]
  /\ UNCHANGED <<store, hands, runs, quiet>>

Done(s) ==
  /\ task[s].stage = "run" /\ task[s].left = <<>> /\ task[s].todo = {}
  /\ task' = [task EXCEPT ![s].stage = "done"]
  /\ UNCHANGED <<store, hands, runs, quiet>>

Failed(s) == task' = [task EXCEPT ![s].stage = "failed"]

Incomplete(e) == e.code = Absent \/ e.name = Absent

\* An entry that lacks a code or a name ends the run where it is.
Reject(s) ==
  /\ task[s].stage = "run" /\ task[s].left # <<>>
  /\ Incomplete(Head(task[s].left))
  /\ Failed(s)
  /\ UNCHANGED <<store, hands, runs, quiet>>

\* A rehearsal counts and writes nothing.
Rehearse(s) ==
  /\ task[s].stage = "run" /\ task[s].left # <<>> /\ task[s].dryRun
  /\ ~Incomplete(Head(task[s].left))
  /\ task' = [task EXCEPT ![s].left = Tail(@)]
  /\ UNCHANGED <<store, hands, runs, quiet>>

\* What an entry sets: a city points at its province only if this run wrote it.
Set(s, doc, e) ==
  LET ids == task[s].provinceIDs IN
  [doc EXCEPT !.code = e.code, !.name = e.name, !.live = TRUE,
              !.province = IF task[s].kind = "kota" /\ e.parent \in DOMAIN ids
                           THEN ids[e.parent] ELSE @]

\* The entry is written under identifier i, and the next one is up.
Wrote(s, i, e) ==
  task' = [task EXCEPT ![s].left = Tail(@), ![s].missed = FALSE,
             ![s].provinceIDs = IF task[s].kind = "provinsi"
               THEN [c \in DOMAIN @ \cup {e.code} |-> IF c = e.code THEN i ELSE @[c]] ELSE @]

Writing(s) ==
  /\ task[s].stage = "run" /\ task[s].left # <<>> /\ ~task[s].dryRun
  /\ ~Incomplete(Head(task[s].left))

\* FindOneAndUpdate finds one, any one, of the documents that match.
Update(s) ==
  /\ Writing(s) /\ ~task[s].missed
  /\ LET e == Head(task[s].left) IN
     \E i \in Matches(task[s].kind, e) :
       LET after == [store EXCEPT ![i] = Set(s, @, e)] IN
       \/ ~Duplicate(after, i) /\ store' = after /\ Wrote(s, i, e)
       \/ Duplicate(after, i) /\ Failed(s) /\ UNCHANGED store
  /\ UNCHANGED <<hands, runs, quiet>>

\* It finds none, and will insert.
Miss(s) ==
  /\ Writing(s) /\ ~task[s].missed
  /\ Matches(task[s].kind, Head(task[s].left)) = {}
  /\ task' = [task EXCEPT ![s].missed = TRUE]
  /\ UNCHANGED <<store, hands, runs, quiet>>

Insert(s) ==
  /\ Writing(s) /\ task[s].missed
  /\ LET e == Head(task[s].left)
         new == [kind |-> task[s].kind, shared |-> TRUE, code |-> e.code, name |-> e.name,
                 live |-> TRUE, province |-> 0]
         after == Append(store, Set(s, new, e)) IN
     \/ ~Duplicate(after, Len(after)) /\ store' = after /\ Wrote(s, Len(after), e)
     \/ Duplicate(after, Len(after)) /\ Failed(s) /\ UNCHANGED store
  /\ UNCHANGED <<hands, runs, quiet>>

\* The store does not answer, or the task is killed: what was written stays.
Abort(s) ==
  /\ task[s].stage = "run"
  /\ Failed(s)
  /\ UNCHANGED <<store, hands, runs, quiet>>

\* People: staff add a shared entry or retire one, a company adds its own.
HandAdd(e) ==
  /\ hands < MaxHands
  /\ \E shared \in BOOLEAN :
       LET after == Append(store, [kind |-> e.kind, shared |-> shared, code |-> e.code,
                                   name |-> e.name, live |-> TRUE, province |-> 0]) IN
       ~Duplicate(after, Len(after)) /\ store' = after
  /\ hands' = hands + 1 /\ quiet' = FALSE
  /\ UNCHANGED <<task, runs>>

HandRetire(i) ==
  /\ hands < MaxHands
  /\ store[i].live
  /\ store' = [store EXCEPT ![i].live = FALSE]
  /\ hands' = hands + 1 /\ quiet' = FALSE
  /\ UNCHANGED <<task, runs>>

SeedStep(s) ==
  \/ BeginKind(s) \/ Done(s) \/ Reject(s) \/ Rehearse(s) \/ Update(s) \/ Miss(s) \/ Insert(s)
  \/ Abort(s)

People == (\E e \in HandEntries : HandAdd(e)) \/ \E i \in Ids : HandRetire(i)

SeedNext ==
  \/ People
  \/ \E s \in Seeders : SeedStep(s) \/ \E file \in Files, dryRun \in BOOLEAN : Run(s, file, dryRun)

SeedSpec == SeedInit /\ [][SeedNext]_seedVars

-----------------------------------------------------------------------------
\* A run that went through, and that nobody edited under, has left every entry
\* of its file live under its own code and name, and every city pointing at the
\* live province its file names (seed.go: "Provinces first, so a city can point
\* at its province's id").
SeedTakes ==
  \A s \in Seeders :
    task[s].stage = "done" /\ ~task[s].dryRun /\ quiet =>
      LET file == task[s].file IN
      \A kind \in DOMAIN file \cap collections : \A e \in ToSet(file[kind]) :
        \E i \in Ids :
          /\ store[i].kind = kind /\ store[i].shared /\ store[i].live
          /\ store[i].code = e.code /\ store[i].name = e.name
          /\ kind = "kota" /\ "provinsi" \in DOMAIN file
               /\ e.parent \in {p.code : p \in ToSet(file["provinsi"])} =>
             LET p == store[i].province IN
             p \in Ids /\ store[p].kind = "provinsi" /\ store[p].live /\ store[p].code = e.parent

\* What a seed inserts was not there before (seed.go: "so a seed never
\* duplicates what an earlier hand has already written").
NothingTwice ==
  [][\A s \in Seeders :
       Insert(s) => Matches(task[s].kind, Head(task[s].left)) = {}]_seedVars
=============================================================================
