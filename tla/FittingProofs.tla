---------------------------- MODULE FittingProofs ----------------------------
(***************************************************************************)
(* Theorems about Fitting, for any number of requests, companies, devices  *)
(* and vehicles.                                                           *)
(***************************************************************************)
EXTENDS Fitting, TLAPS

(***************************************************************************)
(* What a request carries once it is under way.                            *)
(***************************************************************************)
DeviceLabels == FitLabels \cup
  {"announceFit", "unfit", "unfitCommit", "unfitClear",
   "countOfTracker", "deleteTracker", "replaceTracker"}
VehicleLabels == FitLabels \cup
  {"announceFit", "countOnVehicle", "deleteVehicle", "replaceVehicle"}

LocalOK ==
  \A r \in Requests :
    /\ pc[r] \in DeviceLabels => local[r].tracker \in Trackers
    /\ pc[r] \in VehicleLabels => local[r].vehicle \in Vehicles

TypeInv == TypeOK /\ LocalOK

LEMMA NoLocalType == NoLocal \in Local
  BY DEF NoLocal, Local, Carry

LEMMA NoSnapshotType == NoSnapshot \in Snapshot
  BY DEF NoSnapshot, Snapshot

LEMMA NoDocsType == NoDocs \in Docs
  BY DEF NoDocs, Docs

\* A request's first action stores a well-typed record.
LEMMA BeginType ==
  ASSUME TypeInv,
         NEW r \in Requests, NEW op, NEW to \in Labels, NEW l \in Local,
         Begin(r, op, to, l),
         to \in DeviceLabels => l.tracker \in Trackers,
         to \in VehicleLabels => l.vehicle \in Vehicles
  PROVE  /\ pc' \in [Requests -> Labels]
         /\ local' \in [Requests -> Local]
         /\ LocalOK'
  BY DEF TypeInv, TypeOK, LocalOK, Begin, Step

\* Ending a request forgets it.
LEMMA EndType ==
  ASSUME TypeInv, NEW r \in Requests, End(r)
  PROVE  /\ pc' \in [Requests -> Labels]
         /\ local' \in [Requests -> Local]
         /\ LocalOK'
  BY NoLocalType DEF TypeInv, TypeOK, LocalOK, End, Labels, FitLabels,
     DeviceLabels, VehicleLabels

\* Moving to the next label keeps the record it carries.
LEMMA StepType ==
  ASSUME TypeInv, NEW r \in Requests, NEW from, NEW to \in Labels,
         Step(r, from, to), UNCHANGED local,
         to \in DeviceLabels => from \in DeviceLabels,
         to \in VehicleLabels => from \in VehicleLabels
  PROVE  pc' \in [Requests -> Labels] /\ LocalOK'
  BY DEF TypeInv, TypeOK, LocalOK, Step

LEMMA WroteType ==
  ASSUME TypeInv, NEW r \in Requests, NEW R \in SUBSET Trackers,
         NEW V \in SUBSET Vehicles, Wrote(r, R, V)
  PROVE  missed' \in [Requests -> Docs]
  BY NoDocsType DEF TypeInv, TypeOK, Wrote, Docs

LEMMA FitDocsType ==
  ASSUME TypeInv, NEW r \in Requests, pc[r] = "fitCommit"
  PROVE  /\ local[r].tracker \in Trackers
         /\ local[r].vehicle \in Vehicles
         /\ FitRows(r) \in SUBSET Trackers
         /\ FitVehicles(r) \in SUBSET Vehicles
  BY DEF TypeInv, TypeOK, LocalOK, DeviceLabels, VehicleLabels, FitLabels,
     FitRows, FitCloses, RowsOfDevice, RowsOfKindOn, FitVehicles,
     ShortcutsElsewhere, Snapshot

LEMMA UnfitDocsType ==
  ASSUME TypeInv, NEW r \in Requests, pc[r] = "unfitCommit"
  PROVE  /\ local[r].tracker \in Trackers
         /\ UnfitVehicles(r) \in SUBSET Vehicles
  BY DEF TypeInv, TypeOK, LocalOK, DeviceLabels, UnfitVehicles

\* The steps of a Fit keep the types.
LEMMA FitTypes ==
  ASSUME TypeInv, NEW r \in Requests, FitSteps(r)
  PROVE  TypeInv'
<1> USE DEF Labels, FitLabels, DeviceLabels, VehicleLabels
<1>1. ASSUME NEW c \in Companies, NEW t \in Trackers, NEW v \in Vehicles,
             FitRead(r, c, t, v)
      PROVE  TypeInv'
  <2> DEFINE l == Carry(t, v, SameKindLive(t), None, None, FALSE)
  <2>1. l \in Local /\ l.tracker = t /\ l.vehicle = v
    BY DEF Carry, Local, SameKindLive
  <2>2. Begin(r, "Fit", "fit", l) /\ UNCHANGED <<db, txn>>
    BY <1>1 DEF FitRead
  <2> HIDE DEF l
  <2>3. pc' \in [Requests -> Labels] /\ local' \in [Requests -> Local] /\ LocalOK'
    BY <2>1, <2>2, BeginType
  <2> QED
    BY <2>2, <2>3 DEF TypeInv, TypeOK, db, txn
<1>2. CASE FitBegin(r)
  <2>1. pc' \in [Requests -> Labels] /\ LocalOK'
    BY <1>2, StepType DEF FitBegin
  <2> QED
    BY <1>2, <2>1, NoDocsType DEF FitBegin, TakeSnapshot, TypeInv, TypeOK, Snapshot, db
<1>3. CASE FitConflict(r)
  <2>1. pc' \in [Requests -> Labels] /\ LocalOK'
    BY <1>3, StepType DEF FitConflict
  <2> QED
    BY <1>3, <2>1, NoDocsType, NoSnapshotType
       DEF FitConflict, DropSnapshot, TypeInv, TypeOK, db
<1>4. CASE FitCommit(r)
  <2>1. pc' \in [Requests -> Labels] /\ LocalOK'
    BY <1>4, StepType DEF FitCommit
  <2>2. /\ local[r].tracker \in Trackers /\ local[r].vehicle \in Vehicles
        /\ FitRows(r) \in SUBSET Trackers /\ FitVehicles(r) \in SUBSET Vehicles
    BY <1>4, FitDocsType DEF FitCommit, Step
  <2>3. missed' \in [Requests -> Docs]
    BY <1>4, <2>2, WroteType DEF FitCommit
  <2>4. open' \in SUBSET (Trackers \X Vehicles) /\ unannounced' \in SUBSET Vehicles
    BY <1>4, <2>2 DEF FitCommit, NewRow, TypeInv, TypeOK
  <2>5. trackerId' \in [Vehicles -> Trackers \cup {None}]
    BY <1>4, <2>2 DEF FitCommit, TypeInv, TypeOK
  <2>6. snap' \in [Requests -> Snapshot]
    BY <1>4, NoSnapshotType DEF FitCommit, DropSnapshot, TypeInv, TypeOK
  <2> QED
    BY <1>4, <2>1, <2>3, <2>4, <2>5, <2>6 DEF FitCommit, TypeInv, TypeOK
<1>5. CASE FitCloseDevice(r)
  <2>1. pc' \in [Requests -> Labels] /\ LocalOK'
    BY <1>5, StepType DEF FitCloseDevice
  <2> QED
    BY <1>5, <2>1 DEF FitCloseDevice, TypeInv, TypeOK, txn
<1>6. CASE FitCloseKind(r)
  <2>1. pc' \in [Requests -> Labels] /\ LocalOK'
    BY <1>6, StepType DEF FitCloseKind
  <2> QED
    BY <1>6, <2>1 DEF FitCloseKind, TypeInv, TypeOK, txn
<1>7. CASE FitInsert(r)
  <2>1. pc' \in [Requests -> Labels] /\ LocalOK'
    BY <1>7, StepType DEF FitInsert
  <2>2. local[r].tracker \in Trackers /\ local[r].vehicle \in Vehicles
    BY <1>7 DEF FitInsert, Step, TypeInv, LocalOK
  <2> QED
    BY <1>7, <2>1, <2>2 DEF FitInsert, NewRow, TypeInv, TypeOK, txn
<1>8. CASE FitDuplicate(r)
  BY <1>8, EndType DEF FitDuplicate, TypeInv, TypeOK, db, txn
<1>9. CASE FitClearElsewhere(r)
  <2>1. pc' \in [Requests -> Labels] /\ LocalOK'
    BY <1>9, StepType DEF FitClearElsewhere
  <2> QED
    BY <1>9, <2>1 DEF FitClearElsewhere, ShortcutsElsewhere, TypeInv, TypeOK, txn
<1>10. CASE FitSetShortcut(r)
  <2>1. pc' \in [Requests -> Labels] /\ LocalOK'
    BY <1>10, StepType DEF FitSetShortcut
  <2>2. local[r].tracker \in Trackers /\ local[r].vehicle \in Vehicles
    BY <1>10 DEF FitSetShortcut, Step, TypeInv, LocalOK
  <2> QED
    BY <1>10, <2>1, <2>2 DEF FitSetShortcut, TypeInv, TypeOK, txn
<1> QED
  BY <1>1, <1>2, <1>3, <1>4, <1>5, <1>6, <1>7, <1>8, <1>9, <1>10 DEF FitSteps

\* The steps of an Unfit keep the types.
LEMMA UnfitTypes ==
  ASSUME TypeInv, NEW r \in Requests, UnfitSteps(r)
  PROVE  TypeInv'
<1> USE DEF Labels, FitLabels, DeviceLabels, VehicleLabels
<1>1. ASSUME NEW c \in Companies, NEW t \in Trackers, UnfitRead(r, c, t)
      PROVE  TypeInv'
  <2>1. PICK v \in Vehicles \cup {None} :
          Begin(r, "Unfit", "unfit", Carry(t, v, {}, None, None, FALSE))
    BY <1>1 DEF UnfitRead
  <2> DEFINE l == Carry(t, v, {}, None, None, FALSE)
  <2>2. l \in Local /\ l.tracker = t
    BY DEF Carry, Local
  <2>3. Begin(r, "Unfit", "unfit", l)
    BY <2>1
  <2> HIDE DEF l
  <2>4. pc' \in [Requests -> Labels] /\ local' \in [Requests -> Local] /\ LocalOK'
    BY <2>2, <2>3, BeginType
  <2> QED
    BY <1>1, <2>4 DEF UnfitRead, TypeInv, TypeOK, db, txn
<1>2. CASE UnfitBegin(r)
  <2>1. pc' \in [Requests -> Labels] /\ LocalOK'
    BY <1>2, StepType DEF UnfitBegin
  <2> QED
    BY <1>2, <2>1, NoDocsType
       DEF UnfitBegin, TakeSnapshot, TypeInv, TypeOK, Snapshot, db
<1>3. CASE UnfitConflict(r)
  <2>1. pc' \in [Requests -> Labels] /\ LocalOK'
    BY <1>3, StepType DEF UnfitConflict
  <2> QED
    BY <1>3, <2>1, NoDocsType, NoSnapshotType
       DEF UnfitConflict, DropSnapshot, TypeInv, TypeOK, db
<1>4. CASE UnfitCommit(r)
  <2>1. pc' \in [Requests -> Labels] /\ LocalOK'
    BY <1>4, StepType DEF UnfitCommit
  <2>2. local[r].tracker \in Trackers /\ UnfitVehicles(r) \in SUBSET Vehicles
    BY <1>4, UnfitDocsType DEF UnfitCommit, Step
  <2>3. missed' \in [Requests -> Docs]
    BY <1>4, <2>2, WroteType DEF UnfitCommit
  <2>4. open' \in SUBSET (Trackers \X Vehicles) /\ unannounced' \in SUBSET Vehicles
    BY <1>4, <2>2 DEF UnfitCommit, TypeInv, TypeOK
  <2>5. trackerId' \in [Vehicles -> Trackers \cup {None}]
    BY <1>4, <2>2 DEF UnfitCommit, TypeInv, TypeOK
  <2>6. snap' \in [Requests -> Snapshot]
    BY <1>4, NoSnapshotType DEF UnfitCommit, DropSnapshot, TypeInv, TypeOK
  <2> QED
    BY <1>4, <2>1, <2>3, <2>4, <2>5, <2>6 DEF UnfitCommit, TypeInv, TypeOK
<1>5. CASE UnfitNothing(r)
  BY <1>5, EndType, NoDocsType, NoSnapshotType
     DEF UnfitNothing, DropSnapshot, TypeInv, TypeOK, db
<1>6. CASE UnfitClose(r)
  <2>1. pc' \in [Requests -> Labels] /\ LocalOK'
    BY <1>6, StepType DEF UnfitClose
  <2> QED
    BY <1>6, <2>1 DEF UnfitClose, TypeInv, TypeOK, txn
<1>7. CASE UnfitClear(r)
  <2>1. pc' \in [Requests -> Labels] /\ LocalOK'
    BY <1>7, StepType DEF UnfitClear
  <2> QED
    BY <1>7, <2>1 DEF UnfitClear, TypeInv, TypeOK, txn
<1> QED
  BY <1>1, <1>2, <1>3, <1>4, <1>5, <1>6, <1>7 DEF UnfitSteps

\* The steps on vehicle documents keep the types.
LEMMA VehicleTypes ==
  ASSUME TypeInv, NEW r \in Requests, VehicleSteps(r)
  PROVE  TypeInv'
<1> USE DEF Labels, FitLabels, DeviceLabels, VehicleLabels, DocStates
<1>1. ASSUME NEW v \in Vehicles, CreateVehicle(r, v)
      PROVE  TypeInv'
  <2> DEFINE l == Carry(None, v, {}, None, None, FALSE)
  <2>1. l \in Local
    BY DEF Carry, Local
  <2>2. Begin(r, "CreateVehicle", "announce", l)
    BY <1>1 DEF CreateVehicle
  <2> HIDE DEF l
  <2>3. pc' \in [Requests -> Labels] /\ local' \in [Requests -> Local] /\ LocalOK'
    BY <2>1, <2>2, BeginType
  <2> QED
    BY <1>1, <2>3 DEF CreateVehicle, TypeInv, TypeOK, txn
<1>2. ASSUME NEW c \in Companies, NEW v \in Vehicles,
             UpdateVehicleRead(r, c, v) \/ DeleteVehicleRead(r, c, v)
      PROVE  TypeInv'
  <2> DEFINE l == Carry(None, v, {}, trackerId[v], None, FALSE)
  <2>1. l \in Local /\ l.vehicle = v
    BY DEF Carry, Local, TypeInv, TypeOK
  <2>2. /\ \/ Begin(r, "UpdateVehicle", "replaceVehicle", l)
           \/ Begin(r, "DeleteVehicle", "countOnVehicle", l)
        /\ UNCHANGED <<db, txn>>
    BY <1>2 DEF UpdateVehicleRead, DeleteVehicleRead
  <2> HIDE DEF l
  <2>3. pc' \in [Requests -> Labels] /\ local' \in [Requests -> Local] /\ LocalOK'
    BY <2>1, <2>2, BeginType
  <2> QED
    BY <2>2, <2>3 DEF TypeInv, TypeOK, db, txn
<1>3. CASE UpdateVehicleReplace(r)
  <2>1. pc' \in [Requests -> Labels] /\ LocalOK'
    BY <1>3, StepType DEF UpdateVehicleReplace
  <2>2. local[r].vehicle \in Vehicles /\ local[r].trackerId \in Trackers \cup {None}
    BY <1>3 DEF UpdateVehicleReplace, Step, TypeInv, TypeOK, LocalOK, Local
  <2>3. missed' \in [Requests -> Docs]
    BY <1>3, <2>2, WroteType DEF UpdateVehicleReplace
  <2> QED
    BY <1>3, <2>1, <2>2, <2>3 DEF UpdateVehicleReplace, TypeInv, TypeOK
<1>4. CASE DeleteVehicleCount(r)
  BY <1>4, StepType DEF DeleteVehicleCount, TypeInv, TypeOK, db, txn
<1>5. CASE DeleteVehicleRefuse(r)
  BY <1>5, EndType DEF DeleteVehicleRefuse, TypeInv, TypeOK, db, txn
<1>6. CASE DeleteVehicleWrite(r)
  <2>1. pc' \in [Requests -> Labels] /\ LocalOK'
    BY <1>6, StepType DEF DeleteVehicleWrite
  <2>2. local[r].vehicle \in Vehicles
    BY <1>6 DEF DeleteVehicleWrite, Step, TypeInv, LocalOK
  <2>3. missed' \in [Requests -> Docs]
    BY <1>6, <2>2, WroteType DEF DeleteVehicleWrite
  <2> QED
    BY <1>6, <2>1, <2>2, <2>3 DEF DeleteVehicleWrite, TypeInv, TypeOK
<1> QED
  BY <1>1, <1>2, <1>3, <1>4, <1>5, <1>6 DEF VehicleSteps

\* The steps on device documents keep the types.
LEMMA TrackerTypes ==
  ASSUME TypeInv, NEW r \in Requests, TrackerSteps(r)
  PROVE  TypeInv'
<1> USE DEF Labels, FitLabels, DeviceLabels, VehicleLabels, DocStates
<1>1. ASSUME NEW t \in Trackers, NEW c \in Companies \cup {None},
             NEW a \in BOOLEAN, CreateTracker(r, t, c, a)
      PROVE  TypeInv'
  <2> DEFINE l == Carry(t, None, {}, None, None, FALSE)
  <2>1. l \in Local
    BY DEF Carry, Local
  <2>2. Begin(r, "CreateTracker", "announce", l)
    BY <1>1 DEF CreateTracker
  <2> HIDE DEF l
  <2>3. pc' \in [Requests -> Labels] /\ local' \in [Requests -> Local] /\ LocalOK'
    BY <2>1, <2>2, BeginType
  <2> QED
    BY <1>1, <2>3 DEF CreateTracker, TypeInv, TypeOK, txn
<1>2. ASSUME NEW scope \in Companies \cup {None}, NEW d \in Companies \cup {None},
             NEW t \in Trackers, NEW a \in BOOLEAN,
             UpdateTrackerRead(r, scope, t, d, a)
      PROVE  TypeInv'
  <2> DEFINE l == Carry(t, None, {}, None, d, a)
  <2>1. l \in Local /\ l.tracker = t
    BY DEF Carry, Local
  <2>2. Begin(r, "UpdateTracker", "replaceTracker", l) /\ UNCHANGED <<db, txn>>
    BY <1>2 DEF UpdateTrackerRead
  <2> HIDE DEF l
  <2>3. pc' \in [Requests -> Labels] /\ local' \in [Requests -> Local] /\ LocalOK'
    BY <2>1, <2>2, BeginType
  <2> QED
    BY <2>2, <2>3 DEF TypeInv, TypeOK, db, txn
<1>3. CASE UpdateTrackerReplace(r)
  <2>1. pc' \in [Requests -> Labels] /\ LocalOK'
    BY <1>3, StepType DEF UpdateTrackerReplace
  <2>2. local[r].company \in Companies \cup {None} /\ local[r].active \in BOOLEAN
    BY DEF TypeInv, TypeOK, Local
  <2> QED
    BY <1>3, <2>1, <2>2 DEF UpdateTrackerReplace, TypeInv, TypeOK, txn
<1>4. ASSUME NEW scope \in Companies \cup {None}, NEW t \in Trackers,
             DeleteTrackerRead(r, scope, t)
      PROVE  TypeInv'
  <2> DEFINE l == Carry(t, None, {}, None, None, FALSE)
  <2>1. l \in Local /\ l.tracker = t
    BY DEF Carry, Local
  <2>2. Begin(r, "DeleteTracker", "countOfTracker", l) /\ UNCHANGED <<db, txn>>
    BY <1>4 DEF DeleteTrackerRead
  <2> HIDE DEF l
  <2>3. pc' \in [Requests -> Labels] /\ local' \in [Requests -> Local] /\ LocalOK'
    BY <2>1, <2>2, BeginType
  <2> QED
    BY <2>2, <2>3 DEF TypeInv, TypeOK, db, txn
<1>5. CASE DeleteTrackerCount(r)
  BY <1>5, StepType DEF DeleteTrackerCount, TypeInv, TypeOK, db, txn
<1>6. CASE DeleteTrackerRefuse(r)
  BY <1>6, EndType DEF DeleteTrackerRefuse, TypeInv, TypeOK, db, txn
<1>7. CASE DeleteTrackerWrite(r)
  <2>1. pc' \in [Requests -> Labels] /\ LocalOK'
    BY <1>7, StepType DEF DeleteTrackerWrite
  <2> QED
    BY <1>7, <2>1 DEF DeleteTrackerWrite, TypeInv, TypeOK, txn
<1> QED
  BY <1>1, <1>2, <1>3, <1>4, <1>5, <1>6, <1>7 DEF TrackerSteps

\* Every step keeps the types.
LEMMA TypeStep == TypeInv /\ [Next]_vars => TypeInv'
<1> SUFFICES ASSUME TypeInv, [Next]_vars PROVE TypeInv'
  OBVIOUS
<1>1. ASSUME NEW r \in Requests, Announce(r) PROVE TypeInv'
  BY <1>1, EndType DEF Announce, TypeInv, TypeOK, txn
<1>2. ASSUME NEW r \in Requests, Fail(r) PROVE TypeInv'
  BY <1>2, EndType, NoDocsType, NoSnapshotType
     DEF Fail, DropSnapshot, TypeInv, TypeOK, db
<1>3. CASE UNCHANGED vars
  BY <1>3 DEF vars, TypeInv, TypeOK, LocalOK
<1> QED
  BY <1>1, <1>2, <1>3, FitTypes, UnfitTypes, VehicleTypes, TrackerTypes DEF Next, Steps

\* The model is type-correct: whatever the requests do, each variable keeps
\* its type and a request that is under way carries the ids it works on.
THEOREM TypeCorrect == Spec => []TypeOK
<1>1. Init => TypeInv
  BY NoLocalType, NoSnapshotType, NoDocsType
     DEF Init, TypeInv, TypeOK, LocalOK, DocStates, Labels, FitLabels,
         DeviceLabels, VehicleLabels
<1>2. TypeInv => TypeOK
  BY DEF TypeInv
<1> QED
  BY <1>1, <1>2, TypeStep, PTL DEF Spec

-----------------------------------------------------------------------------
(***************************************************************************)
(* One live row per device.  What makes it inductive is the link between a *)
(* transaction's snapshot and the collection: they agree on every device   *)
(* nobody else has written since.                                          *)
(***************************************************************************)
PlainLabels == {"fitClose2", "fitInsert", "fitClear", "fitSet", "unfitClear"}

\* A request is in a transaction only where the server has transactions.
ModeOK ==
  \A q \in Requests :
    /\ InTxn(q) => Transactional
    /\ pc[q] \in PlainLabels => ~Transactional

RowsCurrent ==
  \A q \in Requests : InTxn(q) =>
    \A t \in Trackers \ missed[q].rows, v \in Vehicles :
      <<t, v>> \in snap[q].open <=> <<t, v>> \in open

\* One device is on one vehicle: what the index uq_assignment_live asks.
OneLivePerDevice ==
  \A t \in Trackers, v, w \in Vehicles :
    <<t, v>> \in open /\ <<t, w>> \in open => v = w

RowInv == TypeInv /\ ModeOK /\ RowsCurrent /\ OneLivePerDevice

\* A step that leaves rows, snapshots and transactions alone.
LEMMA RowFrame ==
  ASSUME RowInv, TypeInv', NEW r \in Requests,
         open' = open,
         \A q \in Requests : q # r => pc'[q] = pc[q],
         pc'[r] \notin {"fitCommit", "unfitCommit"} \cup PlainLabels,
         \A q \in Requests : q # r =>
           snap'[q] = snap[q] /\ missed[q].rows \subseteq missed'[q].rows
  PROVE  RowInv'
<1>1. ModeOK'
  BY DEF RowInv, ModeOK, InTxn
<1>2. RowsCurrent'
  BY DEF RowInv, RowsCurrent, InTxn
<1>3. OneLivePerDevice'
  BY DEF RowInv, OneLivePerDevice
<1> QED
  BY <1>1, <1>2, <1>3 DEF RowInv

\* A transaction that starts reads the rows as they are.
LEMMA RowSnapshot ==
  ASSUME RowInv, TypeInv', NEW r \in Requests, NEW from, NEW to,
         Transactional, Step(r, from, to), TakeSnapshot(r), UNCHANGED db,
         to \notin PlainLabels
  PROVE  RowInv'
<1> USE DEF RowInv, TypeInv, TypeOK
<1>1. ModeOK'
  BY DEF ModeOK, InTxn, Step
<1>2. RowsCurrent'
  BY DEF RowsCurrent, InTxn, Step, TakeSnapshot, db, Docs
<1>3. OneLivePerDevice'
  BY DEF OneLivePerDevice, db
<1> QED
  BY <1>1, <1>2, <1>3

\* A plain write of rows: no transaction is open to be disturbed.
LEMMA RowPlain ==
  ASSUME RowInv, TypeInv', NEW r \in Requests, NEW from, NEW to,
         ~Transactional, Step(r, from, to),
         to \notin {"fitCommit", "unfitCommit"}, OneLivePerDevice'
  PROVE  RowInv'
<1>1. ModeOK'
  BY DEF RowInv, TypeInv, TypeOK, ModeOK, InTxn, Step
<1>2. RowsCurrent'
  BY <1>1 DEF ModeOK, RowsCurrent, InTxn
<1> QED
  BY <1>1, <1>2 DEF RowInv

\* A transaction that commits leaves every other snapshot behind on exactly the
\* devices whose rows it wrote.
LEMMA RowCommit ==
  ASSUME RowInv, TypeInv', NEW r \in Requests, NEW from, NEW to,
         NEW R \in SUBSET Trackers, NEW V,
         Step(r, from, to), Wrote(r, R, V), DropSnapshot(r),
         to \notin {"fitCommit", "unfitCommit"} \cup PlainLabels,
         \A t \in Trackers \ R, v \in Vehicles : <<t, v>> \in open' <=> <<t, v>> \in open,
         OneLivePerDevice'
  PROVE  RowInv'
<1> USE DEF RowInv, TypeInv, TypeOK
<1>1. ModeOK'
  BY DEF ModeOK, InTxn, Step
<1>2. ASSUME NEW q \in Requests, InTxn(q)',
             NEW t \in Trackers \ missed'[q].rows, NEW v \in Vehicles
      PROVE  <<t, v>> \in snap'[q].open <=> <<t, v>> \in open'
  <2>1. q # r /\ InTxn(q)
    BY <1>2 DEF InTxn, Step
  <2>2. missed'[q].rows = missed[q].rows \cup R /\ snap'[q] = snap[q]
    BY <2>1 DEF Wrote, DropSnapshot
  <2> QED
    BY <1>2, <2>1, <2>2 DEF RowsCurrent
<1>3. RowsCurrent'
  BY <1>2 DEF RowsCurrent
<1> QED
  BY <1>1, <1>3

\* A request that only ends, or only begins, writes no row.
LEMMA RowBeginEnd ==
  ASSUME RowInv, TypeInv', NEW r \in Requests, open' = open,
         \/ End(r)
         \/ \E op \in AllOps, l \in Local,
               to \in Labels \ ({"fitCommit", "unfitCommit"} \cup PlainLabels) :
              Begin(r, op, to, l),
         \A q \in Requests : q # r => snap'[q] = snap[q] /\ missed'[q] = missed[q]
  PROVE  RowInv'
<1>1. \A q \in Requests : q # r => pc'[q] = pc[q]
  BY DEF End, Begin, Step, RowInv, TypeInv, TypeOK
<1>2. pc'[r] \notin {"fitCommit", "unfitCommit"} \cup PlainLabels
  BY DEF End, Begin, Step, RowInv, TypeInv, TypeOK, PlainLabels
<1> QED
  BY <1>1, <1>2, RowFrame

LEMMA RowStepFrame ==
  ASSUME RowInv, TypeInv', NEW r \in Requests, NEW from, NEW to,
         Step(r, from, to), open' = open,
         to \notin {"fitCommit", "unfitCommit"} \cup PlainLabels,
         \A q \in Requests : q # r =>
           snap'[q] = snap[q] /\ missed[q].rows \subseteq missed'[q].rows
  PROVE  RowInv'
<1>1. /\ \A q \in Requests : q # r => pc'[q] = pc[q]
      /\ pc'[r] = to
  BY DEF Step, RowInv, TypeInv, TypeOK
<1> QED
  BY <1>1, RowFrame

\* The rows a committing Fit closes and opens belong to the devices it wrote, and
\* its own device has one row left: the others were in its snapshot.
LEMMA FitCommitRows ==
  ASSUME RowInv, NEW r \in Requests, FitCommit(r)
  PROVE  /\ OneLivePerDevice'
         /\ \A t \in Trackers \ FitRows(r), v \in Vehicles :
              <<t, v>> \in open' <=> <<t, v>> \in open
<1> DEFINE t0 == local[r].tracker
           v0 == local[r].vehicle
<1>1. t0 \in Trackers /\ v0 \in Vehicles /\ pc[r] = "fitCommit"
  BY FitDocsType DEF FitCommit, Step, RowInv
<1>2. open' = (open \ FitCloses(r, snap[r].open)) \cup {<<t0, v0>>}
  BY DEF FitCommit, NewRow
<1>3. t0 \notin missed[r].rows
  BY <1>1 DEF FitCommit, Conflicts, FitRows
<1>4. \A v \in Vehicles : <<t0, v>> \in open => <<t0, v>> \in snap[r].open
  BY <1>1, <1>3 DEF RowInv, RowsCurrent, InTxn
<1>5. \A v \in Vehicles : <<t0, v>> \in open' => v = v0
  BY <1>2, <1>4 DEF FitCloses, RowsOfDevice
<1>6. \A t \in Trackers, v \in Vehicles : t # t0 /\ <<t, v>> \in open' => <<t, v>> \in open
  BY <1>2
<1>7. OneLivePerDevice'
  BY <1>5, <1>6 DEF OneLivePerDevice, RowInv
<1>8. ASSUME NEW t \in Trackers \ FitRows(r), NEW v \in Vehicles
      PROVE  <<t, v>> \in open' <=> <<t, v>> \in open
  <2>1. t # t0 /\ <<t, v>> \notin FitCloses(r, snap[r].open)
    BY <1>8 DEF FitRows
  <2> QED
    BY <1>2, <2>1
<1> QED
  BY <1>7, <1>8

\* Every step keeps one live row per device, and each snapshot current on the
\* devices nobody wrote.
LEMMA RowStep == RowInv /\ [Next]_vars => RowInv'
<1> SUFFICES ASSUME RowInv, [Next]_vars PROVE RowInv'
  OBVIOUS
<1>t. TypeInv /\ TypeInv'
  BY TypeStep DEF RowInv
<1> USE <1>t DEF PlainLabels
<1>1. ASSUME NEW r \in Requests, FitSteps(r) PROVE RowInv'
  <2>1. ASSUME NEW c \in Companies, NEW t \in Trackers, NEW v \in Vehicles,
               FitRead(r, c, t, v)
        PROVE  RowInv'
    <3>1. Carry(t, v, SameKindLive(t), None, None, FALSE) \in Local
      BY DEF Carry, Local, SameKindLive
    <3> QED
      BY <2>1, <3>1, RowBeginEnd DEF FitRead, db, txn, AllOps, Labels, FitLabels
  <2>2. CASE FitBegin(r)
    BY <2>2, RowSnapshot DEF FitBegin
  <2>3. CASE FitConflict(r)
    BY <2>3, RowStepFrame DEF FitConflict, DropSnapshot, db, TypeInv, TypeOK
  <2>4. CASE FitCommit(r)
    <3>1. FitRows(r) \in SUBSET Trackers
      BY <2>4, FitDocsType DEF FitCommit, Step
    <3> QED
      BY <2>4, <3>1, FitCommitRows, RowCommit DEF FitCommit
  <2>5. CASE FitCloseDevice(r)
    BY <2>5, RowPlain DEF FitCloseDevice, OneLivePerDevice, RowInv
  <2>6. CASE FitCloseKind(r)
    <3>1. ~Transactional
      BY <2>6 DEF FitCloseKind, Step, RowInv, ModeOK
    <3> QED
      BY <2>6, <3>1, RowPlain DEF FitCloseKind, OneLivePerDevice, RowInv
  <2>7. CASE FitInsert(r)
    <3>1. ~Transactional
      BY <2>7 DEF FitInsert, Step, RowInv, ModeOK
    <3>2. OneLivePerDevice'
      BY <2>7 DEF FitInsert, NewRow, LiveRowExists, RowsOfDevice, OneLivePerDevice, RowInv
    <3> QED
      BY <2>7, <3>1, <3>2, RowPlain DEF FitInsert
  <2>8. CASE FitDuplicate(r)
    BY <2>8, RowBeginEnd DEF FitDuplicate, db, txn
  <2>9. CASE FitClearElsewhere(r)
    <3>1. ~Transactional
      BY <2>9 DEF FitClearElsewhere, Step, RowInv, ModeOK
    <3> QED
      BY <2>9, <3>1, RowPlain DEF FitClearElsewhere, OneLivePerDevice, RowInv
  <2>10. CASE FitSetShortcut(r)
    BY <2>10, RowStepFrame DEF FitSetShortcut, txn
  <2> QED
    BY <1>1, <2>1, <2>2, <2>3, <2>4, <2>5, <2>6, <2>7, <2>8, <2>9, <2>10 DEF FitSteps
<1>2. ASSUME NEW r \in Requests, UnfitSteps(r) PROVE RowInv'
  <2>1. ASSUME NEW c \in Companies, NEW t \in Trackers, UnfitRead(r, c, t)
        PROVE  RowInv'
    <3>1. PICK v \in Vehicles \cup {None} :
            Begin(r, "Unfit", "unfit", Carry(t, v, {}, None, None, FALSE))
      BY <2>1 DEF UnfitRead
    <3>2. Carry(t, v, {}, None, None, FALSE) \in Local
      BY DEF Carry, Local
    <3> QED
      BY <2>1, <3>1, <3>2, RowBeginEnd DEF UnfitRead, db, txn, AllOps, Labels
  <2>2. CASE UnfitBegin(r)
    BY <2>2, RowSnapshot DEF UnfitBegin
  <2>3. CASE UnfitConflict(r)
    BY <2>3, RowStepFrame DEF UnfitConflict, DropSnapshot, db, TypeInv, TypeOK
  <2>4. CASE UnfitCommit(r)
    <3>1. local[r].tracker \in Trackers
      BY <2>4, UnfitDocsType DEF UnfitCommit, Step
    <3>2. OneLivePerDevice'
      BY <2>4 DEF UnfitCommit, OneLivePerDevice, RowInv
    <3>3. \A t \in Trackers \ {local[r].tracker}, v \in Vehicles :
            <<t, v>> \in open' <=> <<t, v>> \in open
      BY <2>4 DEF UnfitCommit, RowsOfDevice
    <3> QED
      BY <2>4, <3>1, <3>2, <3>3, RowCommit DEF UnfitCommit
  <2>5. CASE UnfitNothing(r)
    BY <2>5, RowBeginEnd DEF UnfitNothing, DropSnapshot, db, TypeInv, TypeOK
  <2>6. CASE UnfitClose(r)
    BY <2>6, RowPlain DEF UnfitClose, OneLivePerDevice, RowInv
  <2>7. CASE UnfitClear(r)
    BY <2>7, RowStepFrame DEF UnfitClear, txn
  <2> QED
    BY <1>2, <2>1, <2>2, <2>3, <2>4, <2>5, <2>6, <2>7 DEF UnfitSteps
<1>3. ASSUME NEW r \in Requests, VehicleSteps(r) PROVE RowInv'
  <2>1. ASSUME NEW v \in Vehicles, CreateVehicle(r, v) PROVE RowInv'
    <3>1. Carry(None, v, {}, None, None, FALSE) \in Local
      BY DEF Carry, Local
    <3> QED
      BY <2>1, <3>1, RowBeginEnd DEF CreateVehicle, txn, AllOps, Labels
  <2>2. ASSUME NEW c \in Companies, NEW v \in Vehicles,
               UpdateVehicleRead(r, c, v) \/ DeleteVehicleRead(r, c, v)
        PROVE  RowInv'
    <3>1. Carry(None, v, {}, trackerId[v], None, FALSE) \in Local
      BY DEF Carry, Local, TypeInv, TypeOK
    <3> QED
      BY <2>2, <3>1, RowBeginEnd
         DEF UpdateVehicleRead, DeleteVehicleRead, db, txn, AllOps, Labels
  <2>3. CASE UpdateVehicleReplace(r)
    BY <2>3, RowStepFrame DEF UpdateVehicleReplace, Wrote, TypeInv, TypeOK
  <2>4. CASE DeleteVehicleCount(r)
    BY <2>4, RowStepFrame DEF DeleteVehicleCount, db, txn
  <2>5. CASE DeleteVehicleRefuse(r)
    BY <2>5, RowBeginEnd DEF DeleteVehicleRefuse, db, txn
  <2>6. CASE DeleteVehicleWrite(r)
    BY <2>6, RowStepFrame DEF DeleteVehicleWrite, Wrote, TypeInv, TypeOK
  <2> QED
    BY <1>3, <2>1, <2>2, <2>3, <2>4, <2>5, <2>6 DEF VehicleSteps
<1>4. ASSUME NEW r \in Requests, TrackerSteps(r) PROVE RowInv'
  <2>1. ASSUME NEW t \in Trackers, NEW c \in Companies \cup {None},
               NEW a \in BOOLEAN, CreateTracker(r, t, c, a)
        PROVE  RowInv'
    <3>1. Carry(t, None, {}, None, None, FALSE) \in Local
      BY DEF Carry, Local
    <3> QED
      BY <2>1, <3>1, RowBeginEnd DEF CreateTracker, txn, AllOps, Labels
  <2>2. ASSUME NEW scope \in Companies \cup {None}, NEW d \in Companies \cup {None},
               NEW t \in Trackers, NEW a \in BOOLEAN,
               UpdateTrackerRead(r, scope, t, d, a)
        PROVE  RowInv'
    <3>1. Carry(t, None, {}, None, d, a) \in Local
      BY DEF Carry, Local
    <3> QED
      BY <2>2, <3>1, RowBeginEnd DEF UpdateTrackerRead, db, txn, AllOps, Labels
  <2>3. CASE UpdateTrackerReplace(r)
    BY <2>3, RowStepFrame DEF UpdateTrackerReplace, txn
  <2>4. ASSUME NEW scope \in Companies \cup {None}, NEW t \in Trackers,
               DeleteTrackerRead(r, scope, t)
        PROVE  RowInv'
    <3>1. Carry(t, None, {}, None, None, FALSE) \in Local
      BY DEF Carry, Local
    <3> QED
      BY <2>4, <3>1, RowBeginEnd DEF DeleteTrackerRead, db, txn, AllOps, Labels
  <2>5. CASE DeleteTrackerCount(r)
    BY <2>5, RowStepFrame DEF DeleteTrackerCount, db, txn
  <2>6. CASE DeleteTrackerRefuse(r)
    BY <2>6, RowBeginEnd DEF DeleteTrackerRefuse, db, txn
  <2>7. CASE DeleteTrackerWrite(r)
    BY <2>7, RowStepFrame DEF DeleteTrackerWrite, txn
  <2> QED
    BY <1>4, <2>1, <2>2, <2>3, <2>4, <2>5, <2>6, <2>7 DEF TrackerSteps
<1>5. ASSUME NEW r \in Requests, Announce(r) PROVE RowInv'
  BY <1>5, RowBeginEnd DEF Announce, txn
<1>6. ASSUME NEW r \in Requests, Fail(r) PROVE RowInv'
  BY <1>6, RowBeginEnd DEF Fail, DropSnapshot, db, TypeInv, TypeOK
<1>7. CASE UNCHANGED vars
  BY <1>7 DEF vars, RowInv, ModeOK, RowsCurrent, OneLivePerDevice, InTxn
<1> QED
  BY <1>1, <1>2, <1>3, <1>4, <1>5, <1>6, <1>7 DEF Next, Steps

\* The model's initial states satisfy the row invariant.
LEMMA RowInit == Init => RowInv
<1>1. Init => TypeInv
  BY NoLocalType, NoSnapshotType, NoDocsType
     DEF Init, TypeInv, TypeOK, LocalOK, DocStates, Labels, FitLabels,
         DeviceLabels, VehicleLabels
<1> QED
  BY <1>1 DEF Init, RowInv, ModeOK, RowsCurrent, OneLivePerDevice, InTxn, PlainLabels

\* Whatever requests do, on a replica set or a standalone server, and wherever
\* they die, no device has two open rows.
THEOREM OneLiveRow == Spec => []OneLivePerDevice
<1>1. RowInv => OneLivePerDevice
  BY DEF RowInv
<1> QED
  BY <1>1, RowInit, RowStep, PTL DEF Spec

-----------------------------------------------------------------------------
(***************************************************************************)
(* The shortcut, on a replica set, for clients that fit, unfit, add and    *)
(* retire vehicles and edit devices.  The other three operations are left  *)
(* out because they break it: UpdateVehicle writes back a shortcut it read *)
(* earlier, and registering or retiring a device makes the ids Fit has     *)
(* read stale.                                                             *)
(***************************************************************************)
SafeOps == {"Fit", "Unfit", "CreateVehicle", "DeleteVehicle", "UpdateTracker"}

SafeLabels == Labels \ ({"replaceVehicle", "countOfTracker", "deleteTracker"} \cup PlainLabels)

\* Requests stay within those operations and no device is ever retired.
SafeRun ==
  /\ \A q \in Requests :
       /\ pc[q] \in SafeLabels
       /\ pc[q] \in DeviceLabels => tState[local[q].tracker] = "live"
       /\ pc[q] \in FitLabels =>
            local[q].kindIDs = SameKindLive(local[q].tracker)
  /\ \A t \in Trackers, v \in Vehicles : <<t, v>> \in open => tState[t] = "live"

\* A snapshot agrees with itself, and with the vehicles nobody wrote since.
SnapshotAgrees ==
  \A q \in Requests : InTxn(q) =>
    /\ \A t \in Trackers, v \in Vehicles :
         KindOf[t] = "gps" =>
           (<<t, v>> \in snap[q].open <=> snap[q].trackerId[v] = t)
    /\ \A t \in Trackers, v \in Vehicles :
         <<t, v>> \in snap[q].open => tState[t] = "live"

VehiclesCurrent ==
  \A q \in Requests : InTxn(q) =>
    \A v \in Vehicles \ missed[q].vehicles : snap[q].trackerId[v] = trackerId[v]

ShortcutInv ==
  RowInv /\ SafeRun /\ SnapshotAgrees /\ VehiclesCurrent /\ ShortcutAgrees

\* A committing Fit leaves the shortcut of every vehicle in step with the rows.
LEMMA FitCommitAgrees ==
  ASSUME ShortcutInv, NEW r \in Requests, FitCommit(r)
  PROVE  ShortcutAgrees'
<1> DEFINE t0 == local[r].tracker
           v0 == local[r].vehicle
<1>1. t0 \in Trackers /\ v0 \in Vehicles /\ pc[r] = "fitCommit" /\ InTxn(r)
  BY FitDocsType DEF FitCommit, Step, ShortcutInv, RowInv, InTxn
<1>2. open' = (open \ FitCloses(r, snap[r].open)) \cup {<<t0, v0>>}
  BY DEF FitCommit, NewRow
<1>3. trackerId' = [u \in Vehicles |->
                      IF u \notin FitVehicles(r) THEN trackerId[u]
                      ELSE IF u = v0 THEN t0 ELSE None]
  BY DEF FitCommit
<1>4. /\ t0 \notin missed[r].rows
      /\ FitVehicles(r) \cap missed[r].vehicles = {}
  BY DEF FitCommit, Conflicts, FitRows
<1>5. local[r].kindIDs = SameKindLive(t0)
  BY <1>1 DEF ShortcutInv, SafeRun, FitLabels
<1>6. \A u \in FitVehicles(r) : snap[r].trackerId[u] = trackerId[u]
  BY <1>1, <1>4, FitDocsType DEF ShortcutInv, VehiclesCurrent, RowInv
<1> SUFFICES ASSUME NEW x \in Trackers, NEW u \in Vehicles, KindOf[x] = "gps"
             PROVE  <<x, u>> \in open' <=> trackerId'[u] = x
  BY DEF ShortcutAgrees
<1>n. x # None
  BY ReferencesAssumption
<1>7. <<x, u>> \in open <=> trackerId[u] = x
  BY DEF ShortcutInv, ShortcutAgrees
<1>8. <<x, u>> \in snap[r].open <=> snap[r].trackerId[u] = x
  BY <1>1 DEF ShortcutInv, SnapshotAgrees
<1>9. x = t0 => (<<x, u>> \in snap[r].open <=> <<x, u>> \in open)
  BY <1>1, <1>4 DEF ShortcutInv, RowInv, RowsCurrent
<1>10. <<x, u>> \in FitCloses(r, snap[r].open) <=>
         /\ <<x, u>> \in snap[r].open
         /\ x = t0 \/ (u = v0 /\ x \in local[r].kindIDs)
  BY DEF FitCloses, RowsOfDevice, RowsOfKindOn
<1>11. CASE KindOf[t0] = "gps"
  <2>1. u \in FitVehicles(r) <=> u = v0 \/ snap[r].trackerId[u] = t0
    BY <1>1, <1>11 DEF FitVehicles, IsGPS, ShortcutsElsewhere
  <2>2. CASE x = t0
    BY <2>1, <2>2, <1>1, <1>2, <1>3, <1>7, <1>8, <1>9, <1>10, <1>n
  <2>3. CASE x # t0 /\ u = v0
    <3>1. <<x, u>> \in open => <<x, u>> \in snap[r].open
      BY <2>1, <2>3, <1>6, <1>7, <1>8
    <3>2. <<x, u>> \in snap[r].open => x \in local[r].kindIDs
      BY <1>1, <1>5, <1>11 DEF SameKindLive, ShortcutInv, SnapshotAgrees
    <3> QED
      BY <2>1, <2>3, <3>1, <3>2, <1>2, <1>3, <1>10
  <2>4. CASE x # t0 /\ u # v0
    BY <2>1, <2>4, <1>2, <1>3, <1>6, <1>7, <1>10, <1>n
  <2> QED
    BY <2>2, <2>3, <2>4
<1>12. CASE KindOf[t0] # "gps"
  <2>1. FitVehicles(r) = {}
    BY <1>12 DEF FitVehicles, IsGPS
  <2>2. x # t0 /\ x \notin local[r].kindIDs
    BY <1>5, <1>12 DEF SameKindLive
  <2> QED
    BY <2>1, <2>2, <1>2, <1>3, <1>7, <1>10
<1> QED
  BY <1>11, <1>12

\* So does a committing Unfit.
LEMMA UnfitCommitAgrees ==
  ASSUME ShortcutInv, NEW r \in Requests, UnfitCommit(r)
  PROVE  ShortcutAgrees'
<1> DEFINE t0 == local[r].tracker
<1>1. t0 \in Trackers /\ pc[r] = "unfitCommit" /\ InTxn(r)
  BY UnfitDocsType DEF UnfitCommit, Step, ShortcutInv, RowInv, InTxn
<1>2. open' = open \ RowsOfDevice(snap[r].open, t0)
  BY DEF UnfitCommit
<1>3. trackerId' = [u \in Vehicles |->
                      IF u \in UnfitVehicles(r) THEN None ELSE trackerId[u]]
  BY DEF UnfitCommit
<1>4. /\ t0 \notin missed[r].rows
      /\ UnfitVehicles(r) \cap missed[r].vehicles = {}
  BY DEF UnfitCommit, Conflicts
<1>5. \A u \in UnfitVehicles(r) : snap[r].trackerId[u] = trackerId[u]
  BY <1>1, <1>4, UnfitDocsType DEF ShortcutInv, VehiclesCurrent, RowInv
<1> SUFFICES ASSUME NEW x \in Trackers, NEW u \in Vehicles, KindOf[x] = "gps"
             PROVE  <<x, u>> \in open' <=> trackerId'[u] = x
  BY DEF ShortcutAgrees
<1>n. x # None
  BY ReferencesAssumption
<1>7. <<x, u>> \in open <=> trackerId[u] = x
  BY DEF ShortcutInv, ShortcutAgrees
<1>8. <<x, u>> \in snap[r].open <=> snap[r].trackerId[u] = x
  BY <1>1 DEF ShortcutInv, SnapshotAgrees
<1>9. x = t0 => (<<x, u>> \in snap[r].open <=> <<x, u>> \in open)
  BY <1>1, <1>4 DEF ShortcutInv, RowInv, RowsCurrent
<1>10. <<x, u>> \in RowsOfDevice(snap[r].open, t0) <=> <<x, u>> \in snap[r].open /\ x = t0
  BY DEF RowsOfDevice
<1>11. CASE KindOf[t0] = "gps"
  <2>1. u \in UnfitVehicles(r) <=> snap[r].trackerId[u] = t0
    BY <1>1, <1>11 DEF UnfitVehicles, IsGPS
  <2> QED
    BY <2>1, <1>2, <1>3, <1>5, <1>7, <1>8, <1>9, <1>10, <1>n
<1>12. CASE KindOf[t0] # "gps"
  BY <1>12, <1>2, <1>3, <1>7, <1>10 DEF UnfitVehicles, IsGPS
<1> QED
  BY <1>11, <1>12

\* What SafeRun asks of one request.
SafeRequest(q) ==
  /\ pc[q] \in SafeLabels
  /\ pc[q] \in DeviceLabels => tState[local[q].tracker] = "live"
  /\ pc[q] \in FitLabels => local[q].kindIDs = SameKindLive(local[q].tracker)

\* A step of r that changes no row, no shortcut and no device's state, and does
\* not enter a transaction.
LEMMA ShortcutFrame ==
  ASSUME ShortcutInv, RowInv', NEW r \in Requests,
         open' = open, trackerId' = trackerId, tState' = tState,
         \A q \in Requests : q # r => pc'[q] = pc[q] /\ local'[q] = local[q],
         pc'[r] \notin {"fitCommit", "unfitCommit"}, SafeRequest(r)',
         \A q \in Requests : q # r =>
           snap'[q] = snap[q] /\ missed[q].vehicles \subseteq missed'[q].vehicles
  PROVE  ShortcutInv'
<1>1. SafeRun'
  BY DEF ShortcutInv, SafeRun, SafeRequest, SameKindLive
<1>2. SnapshotAgrees'
  BY DEF ShortcutInv, SnapshotAgrees, InTxn
<1>3. VehiclesCurrent'
  BY DEF ShortcutInv, VehiclesCurrent, InTxn
<1>4. ShortcutAgrees'
  BY DEF ShortcutInv, ShortcutAgrees
<1> QED
  BY <1>1, <1>2, <1>3, <1>4 DEF ShortcutInv

LEMMA ShortcutEnd ==
  ASSUME ShortcutInv, RowInv', NEW r \in Requests,
         open' = open, trackerId' = trackerId, tState' = tState, End(r),
         \A q \in Requests : q # r => snap'[q] = snap[q] /\ missed'[q] = missed[q]
  PROVE  ShortcutInv'
<1>1. /\ \A q \in Requests : q # r => pc'[q] = pc[q] /\ local'[q] = local[q]
      /\ pc'[r] = "idle"
  BY DEF End, ShortcutInv, RowInv, TypeInv, TypeOK
<1>2. SafeRequest(r)'
  BY <1>1 DEF SafeRequest, SafeLabels, Labels, DeviceLabels, FitLabels, PlainLabels
<1> QED
  BY <1>1, <1>2, ShortcutFrame

LEMMA ShortcutBegin ==
  ASSUME ShortcutInv, RowInv', NEW r \in Requests,
         NEW op, NEW to \in SafeLabels, NEW l \in Local,
         Begin(r, op, to, l),
         to \notin {"fitCommit", "unfitCommit"},
         to \in DeviceLabels => tState[l.tracker] = "live",
         to \in FitLabels => l.kindIDs = SameKindLive(l.tracker),
         open' = open, trackerId' = trackerId, tState' = tState, UNCHANGED txn
  PROVE  ShortcutInv'
<1>1. /\ \A q \in Requests : q # r => pc'[q] = pc[q] /\ local'[q] = local[q]
      /\ pc'[r] = to /\ local'[r] = l
  BY DEF Begin, Step, ShortcutInv, RowInv, TypeInv, TypeOK
<1>2. SafeRequest(r)'
  BY <1>1 DEF SafeRequest, SameKindLive
<1> QED
  BY <1>1, <1>2, ShortcutFrame DEF txn

\* A transaction that starts takes an agreeing snapshot.
LEMMA ShortcutSnapshot ==
  ASSUME ShortcutInv, RowInv', NEW r \in Requests,
         NEW from, NEW to, <<from, to>> \in {<<"fit", "fitCommit">>, <<"unfit", "unfitCommit">>},
         Step(r, from, to), TakeSnapshot(r), UNCHANGED <<db, local>>
  PROVE  ShortcutInv'
<1> USE DEF ShortcutInv, RowInv, TypeInv, TypeOK
<1>1. /\ pc[r] = from /\ pc'[r] = to
      /\ \A q \in Requests : q # r =>
           pc'[q] = pc[q] /\ snap'[q] = snap[q] /\ missed'[q] = missed[q]
      /\ snap'[r].open = open /\ snap'[r].trackerId = trackerId
  BY DEF Step, TakeSnapshot
<1>2. SafeRun'
  BY <1>1 DEF SafeRun, SameKindLive, db, SafeLabels, Labels, DeviceLabels, FitLabels,
     PlainLabels
<1>3. SnapshotAgrees'
  BY <1>1 DEF SnapshotAgrees, ShortcutAgrees, SafeRun, InTxn, db
<1>4. VehiclesCurrent'
  BY <1>1 DEF VehiclesCurrent, InTxn, db
<1>5. ShortcutAgrees'
  BY DEF ShortcutAgrees, db
<1> QED
  BY <1>2, <1>3, <1>4, <1>5

\* A transaction that commits leaves the others behind on the vehicles it wrote.
LEMMA ShortcutCommit ==
  ASSUME ShortcutInv, RowInv', NEW r \in Requests, NEW from, NEW R, NEW V,
         NEW to \in {"announceFit", "announce"},
         Step(r, from, to), Wrote(r, R, V), DropSnapshot(r),
         UNCHANGED <<tState, local>>,
         pc[r] \in DeviceLabels,
         \A u \in Vehicles \ V : trackerId'[u] = trackerId[u],
         \A t \in Trackers, v \in Vehicles : <<t, v>> \in open' =>
           <<t, v>> \in open \/ t = local[r].tracker,
         ShortcutAgrees'
  PROVE  ShortcutInv'
<1> USE DEF ShortcutInv, RowInv, TypeInv, TypeOK
<1>1. /\ pc'[r] = to
      /\ \A q \in Requests : q # r => pc'[q] = pc[q] /\ snap'[q] = snap[q]
  BY DEF Step, DropSnapshot
<1>2. SafeRun'
  BY <1>1 DEF SafeRun, SameKindLive, SafeLabels, Labels, DeviceLabels, FitLabels,
     PlainLabels
<1>3. SnapshotAgrees'
  BY <1>1 DEF SnapshotAgrees, InTxn
<1>4. ASSUME NEW q \in Requests, InTxn(q)', NEW v \in Vehicles \ missed'[q].vehicles
      PROVE  snap'[q].trackerId[v] = trackerId'[v]
  <2>1. q # r /\ InTxn(q)
    BY <1>1, <1>4 DEF InTxn
  <2>2. missed'[q].vehicles = missed[q].vehicles \cup V
    BY <2>1 DEF Wrote
  <2> QED
    BY <1>1, <1>4, <2>1, <2>2 DEF VehiclesCurrent
<1>5. VehiclesCurrent'
  BY <1>4 DEF VehiclesCurrent
<1> QED
  BY <1>2, <1>3, <1>5

LEMMA ShortcutStepFrame ==
  ASSUME ShortcutInv, RowInv', NEW r \in Requests, NEW from, NEW to \in SafeLabels,
         Step(r, from, to), UNCHANGED local,
         to \notin {"fitCommit", "unfitCommit"},
         to \in DeviceLabels => from \in DeviceLabels,
         to \in FitLabels => from \in FitLabels,
         open' = open, trackerId' = trackerId, tState' = tState,
         \A q \in Requests : q # r =>
           snap'[q] = snap[q] /\ missed[q].vehicles \subseteq missed'[q].vehicles
  PROVE  ShortcutInv'
<1>1. /\ \A q \in Requests : q # r => pc'[q] = pc[q]
      /\ pc[r] = from /\ pc'[r] = to
  BY DEF Step, ShortcutInv, RowInv, TypeInv, TypeOK
<1>2. SafeRequest(r)'
  BY <1>1 DEF SafeRequest, SameKindLive, ShortcutInv, SafeRun
<1> QED
  BY <1>1, <1>2, ShortcutFrame

\* Every step of the safe operations keeps the shortcut in step.
LEMMA ShortcutStep ==
  ASSUME Transactional, \A r \in Requests : OpsOf(r) \subseteq SafeOps
  PROVE  ShortcutInv /\ [Next]_vars => ShortcutInv'
<1> SUFFICES ASSUME ShortcutInv, [Next]_vars PROVE ShortcutInv'
  OBVIOUS
<1>t. RowInv /\ RowInv' /\ TypeInv
  BY RowStep DEF ShortcutInv, RowInv
<1>s. \A q \in Requests : pc[q] \in SafeLabels
  BY DEF ShortcutInv, SafeRun
<1> USE <1>t DEF SafeLabels, PlainLabels, Labels, FitLabels, DeviceLabels
<1>1. ASSUME NEW r \in Requests, FitSteps(r) PROVE ShortcutInv'
  <2>1. ASSUME NEW c \in Companies, NEW t \in Trackers, NEW v \in Vehicles,
               FitRead(r, c, t, v)
        PROVE  ShortcutInv'
    <3> DEFINE l == Carry(t, v, SameKindLive(t), None, None, FALSE)
    <3>1. l \in Local /\ l.tracker = t /\ l.kindIDs = SameKindLive(t)
      BY DEF Carry, Local, SameKindLive
    <3>2. Begin(r, "Fit", "fit", l) /\ tState[t] = "live" /\ UNCHANGED <<db, txn>>
      BY <2>1 DEF FitRead, FoundTracker
    <3> HIDE DEF l
    <3> QED
      BY <3>1, <3>2, ShortcutBegin DEF db
  <2>2. CASE FitBegin(r)
    BY <2>2, ShortcutSnapshot DEF FitBegin
  <2>3. CASE FitConflict(r)
    BY <2>3, ShortcutStepFrame DEF FitConflict, DropSnapshot, db, TypeInv, TypeOK
  <2>4. CASE FitCommit(r)
    <3>1. \A u \in Vehicles \ FitVehicles(r) : trackerId'[u] = trackerId[u]
      BY <2>4 DEF FitCommit
    <3>2. \A t \in Trackers, v \in Vehicles : <<t, v>> \in open' =>
            <<t, v>> \in open \/ t = local[r].tracker
      BY <2>4 DEF FitCommit, NewRow
    <3> QED
      BY <2>4, <3>1, <3>2, FitCommitAgrees, ShortcutCommit DEF FitCommit, Step
  <2>5. CASE FitDuplicate(r)
    BY <2>5, <1>s DEF FitDuplicate
  <2>6. ~FitCloseDevice(r)
    BY DEF FitCloseDevice
  <2>7. ~(FitCloseKind(r) \/ FitInsert(r) \/ FitClearElsewhere(r) \/ FitSetShortcut(r))
    BY <1>s DEF FitCloseKind, FitInsert, FitClearElsewhere, FitSetShortcut, Step
  <2> QED
    BY <1>1, <2>1, <2>2, <2>3, <2>4, <2>5, <2>6, <2>7 DEF FitSteps
<1>2. ASSUME NEW r \in Requests, UnfitSteps(r) PROVE ShortcutInv'
  <2>1. ASSUME NEW c \in Companies, NEW t \in Trackers, UnfitRead(r, c, t)
        PROVE  ShortcutInv'
    <3>1. PICK v \in Vehicles \cup {None} :
            Begin(r, "Unfit", "unfit", Carry(t, v, {}, None, None, FALSE))
      BY <2>1 DEF UnfitRead
    <3> DEFINE l == Carry(t, v, {}, None, None, FALSE)
    <3>2. l \in Local /\ l.tracker = t
      BY DEF Carry, Local
    <3>3. Begin(r, "Unfit", "unfit", l) /\ tState[t] = "live" /\ UNCHANGED <<db, txn>>
      BY <2>1, <3>1 DEF UnfitRead, FoundTracker
    <3> HIDE DEF l
    <3> QED
      BY <3>2, <3>3, ShortcutBegin DEF db
  <2>2. CASE UnfitBegin(r)
    BY <2>2, ShortcutSnapshot DEF UnfitBegin
  <2>3. CASE UnfitConflict(r)
    BY <2>3, ShortcutStepFrame DEF UnfitConflict, DropSnapshot, db, TypeInv, TypeOK
  <2>4. CASE UnfitCommit(r)
    <3>1. \A u \in Vehicles \ UnfitVehicles(r) : trackerId'[u] = trackerId[u]
      BY <2>4 DEF UnfitCommit
    <3>2. \A t \in Trackers, v \in Vehicles : <<t, v>> \in open' =>
            <<t, v>> \in open \/ t = local[r].tracker
      BY <2>4 DEF UnfitCommit
    <3> QED
      BY <2>4, <3>1, <3>2, UnfitCommitAgrees, ShortcutCommit DEF UnfitCommit, Step
  <2>5. CASE UnfitNothing(r)
    BY <2>5, ShortcutEnd DEF UnfitNothing, DropSnapshot, db, TypeInv, TypeOK
  <2>6. ~UnfitClose(r)
    BY DEF UnfitClose
  <2>7. ~UnfitClear(r)
    BY <1>s DEF UnfitClear, Step
  <2> QED
    BY <1>2, <2>1, <2>2, <2>3, <2>4, <2>5, <2>6, <2>7 DEF UnfitSteps
<1>3. ASSUME NEW r \in Requests, VehicleSteps(r) PROVE ShortcutInv'
  <2>1. ASSUME NEW v \in Vehicles, CreateVehicle(r, v) PROVE ShortcutInv'
    <3> DEFINE l == Carry(None, v, {}, None, None, FALSE)
    <3>1. l \in Local
      BY DEF Carry, Local
    <3>2. /\ Begin(r, "CreateVehicle", "announce", l)
          /\ open' = open /\ trackerId' = trackerId /\ tState' = tState
          /\ UNCHANGED txn
      BY <2>1 DEF CreateVehicle
    <3> HIDE DEF l
    <3> QED
      BY <3>1, <3>2, ShortcutBegin
  <2>2. ASSUME NEW c \in Companies, NEW v \in Vehicles, DeleteVehicleRead(r, c, v)
        PROVE  ShortcutInv'
    <3> DEFINE l == Carry(None, v, {}, trackerId[v], None, FALSE)
    <3>1. l \in Local
      BY DEF Carry, Local, TypeInv, TypeOK
    <3>2. /\ Begin(r, "DeleteVehicle", "countOnVehicle", l)
          /\ UNCHANGED <<db, txn>>
      BY <2>2 DEF DeleteVehicleRead
    <3> HIDE DEF l
    <3> QED
      BY <3>1, <3>2, ShortcutBegin DEF db
  <2>3. ASSUME NEW c \in Companies, NEW v \in Vehicles
        PROVE  ~UpdateVehicleRead(r, c, v)
    BY DEF UpdateVehicleRead, Begin, SafeOps
  <2>4. ~UpdateVehicleReplace(r)
    BY <1>s DEF UpdateVehicleReplace, Step
  <2>5. CASE DeleteVehicleCount(r)
    BY <2>5, ShortcutStepFrame DEF DeleteVehicleCount, db, txn
  <2>6. CASE DeleteVehicleRefuse(r)
    BY <2>6, ShortcutEnd DEF DeleteVehicleRefuse, db, txn
  <2>7. CASE DeleteVehicleWrite(r)
    BY <2>7, ShortcutStepFrame DEF DeleteVehicleWrite, Wrote, TypeInv, TypeOK
  <2> QED
    BY <1>3, <2>1, <2>2, <2>3, <2>4, <2>5, <2>6, <2>7 DEF VehicleSteps
<1>4. ASSUME NEW r \in Requests, TrackerSteps(r) PROVE ShortcutInv'
  <2>1. ASSUME NEW t \in Trackers, NEW c \in Companies \cup {None}, NEW a \in BOOLEAN
        PROVE  ~CreateTracker(r, t, c, a)
    BY DEF CreateTracker, Begin, SafeOps
  <2>2. ASSUME NEW scope \in Companies \cup {None}, NEW d \in Companies \cup {None},
               NEW t \in Trackers, NEW a \in BOOLEAN,
               UpdateTrackerRead(r, scope, t, d, a)
        PROVE  ShortcutInv'
    <3> DEFINE l == Carry(t, None, {}, None, d, a)
    <3>1. l \in Local /\ l.tracker = t
      BY DEF Carry, Local
    <3>2. /\ Begin(r, "UpdateTracker", "replaceTracker", l)
          /\ tState[t] = "live"
          /\ UNCHANGED <<db, txn>>
      BY <2>2 DEF UpdateTrackerRead, FoundTracker
    <3> HIDE DEF l
    <3> QED
      BY <3>1, <3>2, ShortcutBegin DEF db
  <2>3. CASE UpdateTrackerReplace(r)
    <3>1. tState[local[r].tracker] = "live"
      BY <2>3 DEF UpdateTrackerReplace, Step, ShortcutInv, SafeRun
    <3>2. tState' = tState
      BY <2>3, <3>1 DEF UpdateTrackerReplace, TypeInv, TypeOK
    <3> QED
      BY <2>3, <3>2, ShortcutStepFrame DEF UpdateTrackerReplace, txn
  <2>4. ASSUME NEW scope \in Companies \cup {None}, NEW t \in Trackers
        PROVE  ~DeleteTrackerRead(r, scope, t)
    BY DEF DeleteTrackerRead, Begin, SafeOps
  <2>5. ~(DeleteTrackerCount(r) \/ DeleteTrackerRefuse(r) \/ DeleteTrackerWrite(r))
    BY <1>s DEF DeleteTrackerCount, DeleteTrackerRefuse, DeleteTrackerWrite, Step
  <2> QED
    BY <1>4, <2>1, <2>2, <2>3, <2>4, <2>5 DEF TrackerSteps
<1>5. ASSUME NEW r \in Requests, Announce(r) PROVE ShortcutInv'
  BY <1>5, ShortcutEnd DEF Announce, txn
<1>6. ASSUME NEW r \in Requests, Fail(r) PROVE ShortcutInv'
  BY <1>6, ShortcutEnd DEF Fail, DropSnapshot, db, TypeInv, TypeOK
<1>7. CASE UNCHANGED vars
  BY <1>7 DEF vars, ShortcutInv, SafeRun, SnapshotAgrees, VehiclesCurrent,
     ShortcutAgrees, InTxn, SameKindLive
<1> QED
  BY <1>1, <1>2, <1>3, <1>4, <1>5, <1>6, <1>7 DEF Next, Steps

\* The model's initial states satisfy the shortcut invariant.
LEMMA ShortcutInit == Init => ShortcutInv
<1> SUFFICES ASSUME Init PROVE ShortcutInv
  OBVIOUS
<1>1. RowInv
  BY RowInit
<1>2. SafeRun
  BY DEF Init, SafeRun, SafeLabels, Labels, FitLabels, DeviceLabels, PlainLabels
<1>3. SnapshotAgrees /\ VehiclesCurrent
  BY DEF Init, SnapshotAgrees, VehiclesCurrent, InTxn
<1>4. ShortcutAgrees
  BY ReferencesAssumption DEF Init, ShortcutAgrees
<1> QED
  BY <1>1, <1>2, <1>3, <1>4 DEF ShortcutInv

\* On a replica set, as long as clients only fit, unfit, edit devices and add or
\* retire vehicles, Vehicle.TrackerID is exactly the live GPS fitting, for any
\* number of concurrent requests and wherever they die.
THEOREM ShortcutInStep ==
  ASSUME Transactional, \A r \in Requests : OpsOf(r) \subseteq SafeOps
  PROVE  Spec => []ShortcutAgrees
<1>1. Init => ShortcutInv
  BY ShortcutInit
<1>2. ShortcutInv => ShortcutAgrees
  BY DEF ShortcutInv
<1>3. ShortcutInv /\ [Next]_vars => ShortcutInv'
  BY ShortcutStep
<1> QED
  BY <1>1, <1>2, <1>3, PTL DEF Spec

\* Two GPS units are never both fitted to one vehicle: the copy can name only one.
LEMMA AgreeingShortcutNamesOne == ShortcutAgrees => OneGPSPerVehicle
  BY DEF ShortcutAgrees, OneGPSPerVehicle

\* Under the same conditions a vehicle carries one GPS unit, not two.
THEOREM OneGPS ==
  ASSUME Transactional, \A r \in Requests : OpsOf(r) \subseteq SafeOps
  PROVE  Spec => []OneGPSPerVehicle
<1>1. Spec => []ShortcutAgrees
  BY ShortcutInStep
<1> QED
  BY <1>1, AgreeingShortcutNamesOne, PTL

\* A committing Fit of a GPS unit is a Put of the promise; of a dashcam, nothing.
LEMMA FitCommitPuts ==
  ASSUME ShortcutInv, NEW r \in Requests, FitCommit(r)
  PROVE  \/ trackerId' = trackerId
         \/ /\ KindOf[local[r].tracker] = "gps"
            /\ Promise!Put(local[r].tracker, local[r].vehicle)
<1> DEFINE t0 == local[r].tracker
           v0 == local[r].vehicle
<1>1. t0 \in Trackers /\ v0 \in Vehicles /\ pc[r] = "fitCommit" /\ InTxn(r)
  BY FitDocsType DEF FitCommit, Step, ShortcutInv, RowInv, InTxn
<1>2. trackerId' = [u \in Vehicles |->
                      IF u \notin FitVehicles(r) THEN trackerId[u]
                      ELSE IF u = v0 THEN t0 ELSE None]
  BY DEF FitCommit
<1>3. CASE KindOf[t0] # "gps"
  BY <1>2, <1>3 DEF FitVehicles, IsGPS, ShortcutInv, RowInv, TypeInv, TypeOK
<1>4. CASE KindOf[t0] = "gps"
  <2>1. t0 \notin missed[r].rows /\ FitVehicles(r) \cap missed[r].vehicles = {}
    BY DEF FitCommit, Conflicts, FitRows
  <2>2. ASSUME NEW u \in Vehicles
        PROVE  u \in FitVehicles(r) <=> u = v0 \/ trackerId[u] = t0
    <3>1. <<t0, u>> \in open <=> trackerId[u] = t0
      BY <1>1, <1>4 DEF ShortcutInv, ShortcutAgrees
    <3>2. <<t0, u>> \in snap[r].open <=> snap[r].trackerId[u] = t0
      BY <1>1, <1>4 DEF ShortcutInv, SnapshotAgrees
    <3>3. <<t0, u>> \in snap[r].open <=> <<t0, u>> \in open
      BY <1>1, <2>1 DEF ShortcutInv, RowInv, RowsCurrent
    <3> QED
      BY <1>1, <1>4, <3>1, <3>2, <3>3 DEF FitVehicles, IsGPS, ShortcutsElsewhere
  <2>3. trackerId' = [u \in Vehicles |->
                        IF u = v0 THEN t0
                        ELSE IF trackerId[u] = t0 THEN None ELSE trackerId[u]]
    BY <1>2, <2>2
  <2> QED
    BY <1>4, <2>3 DEF Promise!Put
<1> QED
  BY <1>3, <1>4

\* A committing Unfit of a GPS unit is a TakeOff of the promise.
LEMMA UnfitCommitTakesOff ==
  ASSUME ShortcutInv, NEW r \in Requests, UnfitCommit(r)
  PROVE  \/ trackerId' = trackerId
         \/ /\ KindOf[local[r].tracker] = "gps"
            /\ Promise!TakeOff(local[r].tracker)
<1> DEFINE t0 == local[r].tracker
<1>1. t0 \in Trackers /\ pc[r] = "unfitCommit" /\ InTxn(r)
  BY UnfitDocsType DEF UnfitCommit, Step, ShortcutInv, RowInv, InTxn
<1>2. trackerId' = [u \in Vehicles |->
                      IF u \in UnfitVehicles(r) THEN None ELSE trackerId[u]]
  BY DEF UnfitCommit
<1>3. CASE KindOf[t0] # "gps"
  BY <1>2, <1>3 DEF UnfitVehicles, IsGPS, ShortcutInv, RowInv, TypeInv, TypeOK
<1>4. CASE KindOf[t0] = "gps"
  <2>1. t0 \notin missed[r].rows
    BY DEF UnfitCommit, Conflicts
  <2>2. ASSUME NEW u \in Vehicles
        PROVE  /\ u \in UnfitVehicles(r) <=> trackerId[u] = t0
               /\ <<t0, u>> \in snap[r].open <=> trackerId[u] = t0
    <3>1. <<t0, u>> \in open <=> trackerId[u] = t0
      BY <1>1, <1>4 DEF ShortcutInv, ShortcutAgrees
    <3>2. <<t0, u>> \in snap[r].open <=> snap[r].trackerId[u] = t0
      BY <1>1, <1>4 DEF ShortcutInv, SnapshotAgrees
    <3>3. <<t0, u>> \in snap[r].open <=> <<t0, u>> \in open
      BY <1>1, <2>1 DEF ShortcutInv, RowInv, RowsCurrent
    <3> QED
      BY <1>1, <1>4, <3>1, <3>2, <3>3 DEF UnfitVehicles, IsGPS
  <2>3. \E u \in Vehicles : trackerId[u] = t0
    <3>1. PICK row \in snap[r].open : row[1] = t0
      BY DEF UnfitCommit, RowsOfDevice
    <3>2. row \in Trackers \X Vehicles
      BY DEF ShortcutInv, RowInv, TypeInv, TypeOK, Snapshot
    <3>3. row = <<t0, row[2]>> /\ row[2] \in Vehicles
      BY <3>1, <3>2
    <3> QED
      BY <3>3, <2>2
  <2>4. trackerId' = [u \in Vehicles |->
                        IF trackerId[u] = t0 THEN None ELSE trackerId[u]]
    BY <1>2, <2>2
  <2> QED
    BY <1>4, <2>3, <2>4 DEF Promise!TakeOff
<1> QED
  BY <1>3, <1>4

\* Under the conditions of ShortcutInStep the detailed protocol implements the
\* promise: readers of Vehicle.TrackerID see devices moved in single steps.
THEOREM FittingKeepsPromise ==
  ASSUME Transactional, \A r \in Requests : OpsOf(r) \subseteq SafeOps
  PROVE  Spec => KeepsPromise
<1>1. Init => ShortcutInv /\ Promise!Init
  BY ShortcutInit DEF Init, Promise!Init
<1>2. ShortcutInv /\ [Next]_vars => ShortcutInv'
  BY ShortcutStep
<1>3. ShortcutInv /\ [Next]_vars => [Promise!Next]_trackerId
  <2> SUFFICES ASSUME ShortcutInv, [Next]_vars, trackerId' # trackerId
               PROVE  Promise!Next
    OBVIOUS
  <2>s. \A q \in Requests : pc[q] \in SafeLabels
    BY DEF ShortcutInv, SafeRun
  <2>1. PICK r \in Requests : FitCommit(r) \/ UnfitCommit(r)
    <3>1. ~UNCHANGED vars
      BY DEF vars
    <3>2. PICK r \in Requests :
            FitSteps(r) \/ UnfitSteps(r) \/ VehicleSteps(r) \/ TrackerSteps(r)
            \/ Announce(r) \/ Fail(r)
      BY <3>1 DEF Next, Steps
    <3>3. ~(FitClearElsewhere(r) \/ FitSetShortcut(r) \/ UnfitClear(r)
            \/ UpdateVehicleReplace(r))
      BY <2>s DEF FitClearElsewhere, FitSetShortcut, UnfitClear, UpdateVehicleReplace,
         Step, SafeLabels, PlainLabels
    <3>4. FitSteps(r) => FitCommit(r)
      BY <3>3 DEF FitSteps, FitRead, FitBegin, FitConflict, FitCloseDevice, FitCloseKind,
         FitInsert, FitDuplicate, db
    <3>5. UnfitSteps(r) => UnfitCommit(r)
      BY <3>3 DEF UnfitSteps, UnfitRead, UnfitBegin, UnfitConflict, UnfitNothing,
         UnfitClose, db
    <3>6. ~VehicleSteps(r)
      BY <3>3 DEF VehicleSteps, CreateVehicle, UpdateVehicleRead, DeleteVehicleRead,
         DeleteVehicleCount, DeleteVehicleRefuse, DeleteVehicleWrite, db
    <3>7. ~TrackerSteps(r)
      BY DEF TrackerSteps, CreateTracker, UpdateTrackerRead, UpdateTrackerReplace,
         DeleteTrackerRead, DeleteTrackerCount, DeleteTrackerRefuse,
         DeleteTrackerWrite, db
    <3>8. ~(Announce(r) \/ Fail(r))
      BY DEF Announce, Fail, db
    <3> QED
      BY <3>2, <3>4, <3>5, <3>6, <3>7, <3>8
  <2>2. CASE FitCommit(r)
    <3>1. local[r].tracker \in Trackers /\ local[r].vehicle \in Vehicles
      BY <2>2, FitDocsType DEF FitCommit, Step, ShortcutInv, RowInv
    <3> QED
      BY <2>2, <3>1, FitCommitPuts DEF Promise!Next
  <2>3. CASE UnfitCommit(r)
    <3>1. local[r].tracker \in Trackers
      BY <2>3, UnfitDocsType DEF UnfitCommit, Step, ShortcutInv, RowInv
    <3> QED
      BY <2>3, <3>1, UnfitCommitTakesOff DEF Promise!Next
  <2> QED
    BY <2>1, <2>2, <2>3
<1> QED
  BY <1>1, <1>2, <1>3, PTL DEF Spec, KeepsPromise, Promise!Spec

-----------------------------------------------------------------------------
(***************************************************************************)
(* Theorems about Fitting when requests come one at a time, for any number *)
(* of devices and vehicles, every operation, with and without transactions *)
(* and whatever statement a request dies after.                            *)
(***************************************************************************)

OneRequest == \A q, r \in Requests : q = r

(***************************************************************************)
(* Where a Fit stands with its device t and its vehicle v.                 *)
(***************************************************************************)
Off(t) == \A u \in Vehicles : <<t, u>> \notin open
Without(v, k) == \A x \in Trackers : KindOf[x] = k => <<x, v>> \notin open
Only(t, v) ==
  /\ \A u \in Vehicles : <<t, u>> \in open <=> u = v
  /\ \A x \in Trackers : KindOf[x] = KindOf[t] => (<<x, v>> \in open <=> x = t)

\* What it read still holds.
StillThere(r) ==
  pc[r] \in FitLabels \cup {"announceFit"} =>
    /\ tState[local[r].tracker] = "live" /\ vState[local[r].vehicle] = "live"
    /\ local[r].kindIDs = SameKindLive(local[r].tracker)

\* What it has done so far.
DoneSoFar(r) ==
  LET t == local[r].tracker
      v == local[r].vehicle
  IN /\ pc[r] \in {"fitClose2", "fitInsert"} => Off(t)
     /\ pc[r] = "fitInsert" => Without(v, KindOf[t])
     /\ pc[r] \in {"fitClear", "fitSet", "announceFit"} => Only(t, v)
     /\ pc[r] = "fitSet" => \A u \in Vehicles : u # v => trackerId[u] # t
     /\ pc[r] = "announceFit" /\ KindOf[t] = "gps" =>
          \A u \in Vehicles : trackerId[u] = t <=> u = v

\* A transaction sees what there is.
SeesAll(r) == InTxn(r) => snap[r].open = open /\ snap[r].trackerId = trackerId

\* What is about to be retired is not fitted.
Unused(r) ==
  /\ pc[r] = "deleteVehicle" => \A t \in Trackers : <<t, local[r].vehicle>> \notin open
  /\ pc[r] = "deleteTracker" => Off(local[r].tracker)

Alone(r) == StillThere(r) /\ DoneSoFar(r) /\ SeesAll(r) /\ Unused(r)

AloneInv ==
  /\ TypeInv
  /\ OneDevicePerKind
  /\ NothingFittedOnRetired
  /\ \A r \in Requests : Alone(r)

\* What the filters of Fit and Unfit close.
LEMMA Closing ==
  ASSUME NEW o \in SUBSET (Trackers \X Vehicles), NEW t, NEW v, NEW K,
         NEW x \in Trackers, NEW u \in Vehicles
  PROVE  /\ <<x, u>> \in RowsOfDevice(o, t) <=> <<x, u>> \in o /\ x = t
         /\ <<x, u>> \in RowsOfKindOn(o, v, K) <=> <<x, u>> \in o /\ u = v /\ x \in K
  BY DEF RowsOfDevice, RowsOfKindOn

LEMMA NoRow ==
  ASSUME NEW t \in Trackers, open \in SUBSET (Trackers \X Vehicles)
  PROVE  ~LiveRowExists(t) <=> Off(t)
<1>1. ASSUME NEW row \in open, row[1] = t
      PROVE  row[2] \in Vehicles /\ <<t, row[2]>> \in open
  BY <1>1
<1> QED
  BY <1>1 DEF LiveRowExists, RowsOfDevice, Off

\* A step that leaves rows and documents alone and ends, or begins, a request at
\* a label that promises nothing.
Nothing == {"idle", "announce", "unfit", "unfitClear", "countOnVehicle", "countOfTracker"}

LEMMA AtNothing ==
  ASSUME NEW r \in Requests, pc'[r] \in Nothing
  PROVE  Alone(r)'
  BY DEF Alone, StillThere, DoneSoFar, SeesAll, Unused, InTxn, Nothing, FitLabels

LEMMA SameRegister ==
  ASSUME OneDevicePerKind, NothingFittedOnRetired, UNCHANGED <<tState, vState, open>>
  PROVE  OneDevicePerKind' /\ NothingFittedOnRetired'
  BY DEF OneDevicePerKind, NothingFittedOnRetired

LEMMA FewerRows ==
  ASSUME OneDevicePerKind, NothingFittedOnRetired, UNCHANGED <<tState, vState>>,
         \A x \in Trackers, u \in Vehicles : <<x, u>> \in open' => <<x, u>> \in open
  PROVE  OneDevicePerKind' /\ NothingFittedOnRetired'
  BY DEF OneDevicePerKind, NothingFittedOnRetired

\* The row a Fit adds.
LEMMA OneRowMore ==
  ASSUME OneDevicePerKind, NothingFittedOnRetired, UNCHANGED <<tState, vState>>,
         NEW t \in Trackers, NEW v \in Vehicles, tState[t] = "live", vState[v] = "live",
         \A x \in Trackers, u \in Vehicles :
           <<x, u>> \in open' <=>
             \/ x = t /\ u = v
             \/ <<x, u>> \in open /\ x # t /\ ~(u = v /\ KindOf[x] = KindOf[t])
  PROVE  OneDevicePerKind' /\ NothingFittedOnRetired' /\ Only(t, v)'
  BY DEF OneDevicePerKind, NothingFittedOnRetired, Only

-----------------------------------------------------------------------------
LEMMA AloneFit ==
  ASSUME AloneInv, NEW r \in Requests, FitSteps(r)
  PROVE  OneDevicePerKind' /\ NothingFittedOnRetired' /\ Alone(r)'
<1>p. /\ pc \in [Requests -> Labels] /\ local \in [Requests -> Local]
      /\ snap \in [Requests -> Snapshot] /\ open \in SUBSET (Trackers \X Vehicles)
      /\ trackerId \in [Vehicles -> Trackers \cup {None}] /\ None \notin Trackers
  BY ReferencesAssumption DEF AloneInv, TypeInv, TypeOK
<1>a. OneDevicePerKind /\ NothingFittedOnRetired /\ Alone(r)
  BY DEF AloneInv
<1>f. pc[r] \in FitLabels => local[r].tracker \in Trackers /\ local[r].vehicle \in Vehicles
  BY DEF AloneInv, TypeInv, LocalOK, DeviceLabels, VehicleLabels
<1> DEFINE t == local[r].tracker
           v == local[r].vehicle
           K == local[r].kindIDs
<1>1. ASSUME NEW c \in Companies, NEW x \in Trackers, NEW u \in Vehicles, FitRead(r, c, x, u)
      PROVE  OneDevicePerKind' /\ NothingFittedOnRetired' /\ Alone(r)'
  <2>1. /\ UNCHANGED <<tState, vState, open>> /\ pc'[r] = "fit"
        /\ tState[x] = "live" /\ vState[u] = "live"
        /\ local'[r].tracker = x /\ local'[r].vehicle = u /\ local'[r].kindIDs = SameKindLive(x)
    BY <1>1, <1>p DEF FitRead, FoundTracker, FoundVehicle, Begin, Step, Carry, db
  <2> QED
    BY <1>a, <2>1, SameRegister DEF Alone, StillThere, DoneSoFar, SeesAll, Unused, InTxn, SameKindLive
<1>2. CASE FitBegin(r)
  <2>1. /\ UNCHANGED <<tState, vState, open, trackerId, local>>
        /\ pc[r] = "fit" /\ pc'[r] = "fitCommit"
        /\ snap'[r].open = open /\ snap'[r].trackerId = trackerId
    BY <1>2, <1>p DEF FitBegin, TakeSnapshot, Step, db
  <2> QED
    BY <1>a, <2>1, SameRegister
       DEF Alone, StillThere, DoneSoFar, SeesAll, Unused, InTxn, SameKindLive, FitLabels
<1>3. CASE FitConflict(r)
  <2>1. /\ UNCHANGED <<tState, vState, open, trackerId, local>>
        /\ pc[r] = "fitCommit" /\ pc'[r] = "fit"
    BY <1>3, <1>p DEF FitConflict, Step, db
  <2> QED
    BY <1>a, <2>1, SameRegister
       DEF Alone, StillThere, DoneSoFar, SeesAll, Unused, InTxn, SameKindLive, FitLabels
<1>4. CASE FitCommit(r)
  <2>1. /\ UNCHANGED <<tState, vState, local>> /\ pc[r] = "fitCommit" /\ pc'[r] = "announceFit"
        /\ t \in Trackers /\ v \in Vehicles
        /\ snap[r].open = open /\ snap[r].trackerId = trackerId
        /\ tState[t] = "live" /\ vState[v] = "live" /\ K = SameKindLive(t)
    BY <1>4, <1>p, <1>a, <1>f DEF FitCommit, Step, Alone, SeesAll, InTxn, StillThere, FitLabels
  <2>2. open' = (open \ (RowsOfDevice(open, t) \cup RowsOfKindOn(open, v, K))) \cup {<<t, v>>}
    BY <1>4, <2>1 DEF FitCommit, FitCloses, NewRow
  <2>3. \A x \in Trackers, u \in Vehicles :
           <<x, u>> \in open' <=>
             \/ x = t /\ u = v
             \/ <<x, u>> \in open /\ x # t /\ ~(u = v /\ KindOf[x] = KindOf[t])
    <3> SUFFICES ASSUME NEW x \in Trackers, NEW u \in Vehicles
                 PROVE  <<x, u>> \in open' <=>
                          \/ x = t /\ u = v
                          \/ <<x, u>> \in open /\ x # t /\ ~(u = v /\ KindOf[x] = KindOf[t])
      OBVIOUS
    <3>1. <<x, u>> \in open => (x \in K <=> KindOf[x] = KindOf[t])
      BY <1>a, <2>1 DEF NothingFittedOnRetired, SameKindLive
    <3> HIDE DEF t, v, K
    <3> QED
      BY <1>p, <2>2, <3>1, Closing
  <2>4. OneDevicePerKind' /\ NothingFittedOnRetired' /\ Only(t, v)'
    BY <1>a, <2>1, <2>3, OneRowMore
  <2>5. KindOf[t] = "gps" => \A u \in Vehicles : trackerId'[u] = t <=> u = v
    <3>1. ASSUME KindOf[t] = "gps", NEW u \in Vehicles
          PROVE  trackerId'[u] = t <=> u = v
      <4>1. trackerId'[u] = IF u \notin FitVehicles(r) THEN trackerId[u]
                            ELSE IF u = v THEN t ELSE None
        BY <1>4, <3>1 DEF FitCommit
      <4>2. u \in FitVehicles(r) <=> u = v \/ trackerId[u] = t
        BY <2>1, <3>1 DEF FitVehicles, IsGPS, ShortcutsElsewhere
      <4> QED
        BY <4>1, <4>2, <1>p, <2>1
    <3> QED
      BY <3>1
  <2>6. StillThere(r)'
    BY <2>1 DEF StillThere, SameKindLive
  <2>7. DoneSoFar(r)'
    BY <2>1, <2>4, <2>5 DEF DoneSoFar, Only
  <2> QED
    BY <2>1, <2>4, <2>6, <2>7 DEF Alone, SeesAll, Unused, InTxn
<1>5. CASE FitCloseDevice(r)
  <2>1. /\ UNCHANGED <<tState, vState, local>> /\ pc[r] = "fit" /\ pc'[r] = "fitClose2"
        /\ t \in Trackers /\ open' = open \ RowsOfDevice(open, t)
    BY <1>5, <1>p, <1>f DEF FitCloseDevice, Step, FitLabels
  <2>2. \A x \in Trackers, u \in Vehicles : <<x, u>> \in open' <=> <<x, u>> \in open /\ x # t
    BY <2>1 DEF RowsOfDevice
  <2> QED
    BY <1>a, <2>1, <2>2, FewerRows
       DEF Alone, StillThere, DoneSoFar, SeesAll, Unused, InTxn, SameKindLive, FitLabels, Off
<1>6. CASE FitCloseKind(r)
  <2>1. /\ UNCHANGED <<tState, vState, local>> /\ pc[r] = "fitClose2" /\ pc'[r] = "fitInsert"
        /\ t \in Trackers /\ v \in Vehicles /\ open' = open \ RowsOfKindOn(open, v, K)
        /\ Off(t) /\ K = SameKindLive(t)
    BY <1>6, <1>a, <1>p, <1>f DEF FitCloseKind, Step, FitLabels, Alone, DoneSoFar, StillThere
  <2>2. \A x \in Trackers, u \in Vehicles :
          <<x, u>> \in open' <=> <<x, u>> \in open /\ ~(u = v /\ x \in K)
    BY <2>1 DEF RowsOfKindOn
  <2>3. OneDevicePerKind' /\ NothingFittedOnRetired'
    BY <1>a, <2>1, <2>2, FewerRows
  <2>4. Off(t)' /\ Without(v, KindOf[t])'
    BY <1>a, <2>1, <2>2 DEF Off, Without, NothingFittedOnRetired, SameKindLive
  <2>5. StillThere(r)'
    BY <1>a, <2>1 DEF Alone, StillThere, SameKindLive, FitLabels
  <2> QED
    BY <2>1, <2>3, <2>4, <2>5 DEF Alone, DoneSoFar, Off, Without, SeesAll, Unused, InTxn
<1>7. CASE FitInsert(r)
  <2>1. /\ UNCHANGED <<tState, vState, trackerId, local>> /\ pc[r] = "fitInsert"
        /\ pc'[r] = (IF KindOf[t] = "gps" THEN "fitClear" ELSE "announceFit")
        /\ t \in Trackers /\ v \in Vehicles /\ open' = open \cup {<<t, v>>}
        /\ Off(t) /\ Without(v, KindOf[t]) /\ tState[t] = "live" /\ vState[v] = "live"
    BY <1>7, <1>a, <1>p, <1>f
       DEF FitInsert, NewRow, IsGPS, Step, FitLabels, Alone, DoneSoFar, StillThere
  <2>2. \A x \in Trackers, u \in Vehicles :
           <<x, u>> \in open' <=>
             \/ x = t /\ u = v
             \/ <<x, u>> \in open /\ x # t /\ ~(u = v /\ KindOf[x] = KindOf[t])
    BY <2>1 DEF Off, Without
  <2>3. OneDevicePerKind' /\ NothingFittedOnRetired' /\ Only(t, v)'
    BY <1>a, <2>1, <2>2, OneRowMore
  <2>4. StillThere(r)'
    BY <1>a, <2>1 DEF Alone, StillThere, SameKindLive, FitLabels
  <2> QED
    BY <2>1, <2>3, <2>4 DEF Alone, DoneSoFar, Only, SeesAll, Unused, InTxn
<1>8. CASE FitDuplicate(r)
  <2>1. UNCHANGED <<tState, vState, open>> /\ pc'[r] \in Nothing
    BY <1>8, <1>p DEF FitDuplicate, End, db, Nothing
  <2> QED
    BY <1>a, <2>1, SameRegister, AtNothing
<1>9. CASE FitClearElsewhere(r)
  <2>1. /\ UNCHANGED <<tState, vState, open, local>> /\ pc[r] = "fitClear" /\ pc'[r] = "fitSet"
        /\ t \in Trackers
        /\ \A u \in Vehicles : trackerId'[u] = IF u # v /\ trackerId[u] = t THEN None ELSE trackerId[u]
    BY <1>9, <1>p, <1>f DEF FitClearElsewhere, ShortcutsElsewhere, Step, FitLabels
  <2>2. StillThere(r)' /\ Only(t, v)'
    BY <1>a, <2>1 DEF Alone, StillThere, DoneSoFar, Only, SameKindLive, FitLabels
  <2> QED
    BY <1>a, <1>p, <2>1, <2>2, SameRegister DEF Alone, DoneSoFar, Only, SeesAll, Unused, InTxn
<1>10. CASE FitSetShortcut(r)
  <2>1. /\ UNCHANGED <<tState, vState, open, local>> /\ pc[r] = "fitSet" /\ pc'[r] = "announceFit"
        /\ v \in Vehicles
        /\ \A u \in Vehicles : trackerId'[u] = IF u = v THEN t ELSE trackerId[u]
    BY <1>10, <1>p, <1>f DEF FitSetShortcut, Step, FitLabels
  <2>2. /\ StillThere(r)' /\ Only(t, v)'
        /\ \A u \in Vehicles : u # v => trackerId[u] # t
    BY <1>a, <2>1 DEF Alone, StillThere, DoneSoFar, Only, SameKindLive, FitLabels
  <2> QED
    BY <1>a, <1>p, <2>1, <2>2, SameRegister DEF Alone, DoneSoFar, Only, SeesAll, Unused, InTxn
<1> QED
  BY <1>1, <1>2, <1>3, <1>4, <1>5, <1>6, <1>7, <1>8, <1>9, <1>10 DEF FitSteps

LEMMA AloneUnfit ==
  ASSUME AloneInv, NEW r \in Requests, UnfitSteps(r)
  PROVE  OneDevicePerKind' /\ NothingFittedOnRetired' /\ Alone(r)'
<1>p. /\ pc \in [Requests -> Labels] /\ local \in [Requests -> Local]
      /\ snap \in [Requests -> Snapshot] /\ open \in SUBSET (Trackers \X Vehicles)
  BY DEF AloneInv, TypeInv, TypeOK
<1>a. OneDevicePerKind /\ NothingFittedOnRetired /\ Alone(r)
  BY DEF AloneInv
<1>1. ASSUME UNCHANGED <<tState, vState>>, pc'[r] \in Nothing,
             \A x \in Trackers, u \in Vehicles : <<x, u>> \in open' => <<x, u>> \in open
      PROVE  OneDevicePerKind' /\ NothingFittedOnRetired' /\ Alone(r)'
  BY <1>1, <1>a, FewerRows, AtNothing
<1>2. ASSUME NEW c \in Companies, NEW t \in Trackers, UnfitRead(r, c, t)
      PROVE  OneDevicePerKind' /\ NothingFittedOnRetired' /\ Alone(r)'
  BY <1>2, <1>1, <1>p DEF UnfitRead, Begin, Step, db, Nothing
<1>3. CASE UnfitBegin(r)
  <2>1. /\ UNCHANGED <<tState, vState, open, trackerId, local>>
        /\ pc'[r] = "unfitCommit"
        /\ snap'[r].open = open /\ snap'[r].trackerId = trackerId
    BY <1>3, <1>p DEF UnfitBegin, TakeSnapshot, Step, db
  <2> QED
    BY <1>a, <2>1, SameRegister
       DEF Alone, StillThere, DoneSoFar, SeesAll, Unused, InTxn, FitLabels
<1>4. CASE UnfitConflict(r) \/ UnfitNothing(r)
  BY <1>4, <1>1, <1>p DEF UnfitConflict, UnfitNothing, Step, End, db, Nothing
<1>5. CASE UnfitCommit(r) \/ UnfitClose(r)
  BY <1>5, <1>1, <1>p DEF UnfitCommit, UnfitClose, Step, Nothing
<1>6. CASE UnfitClear(r)
  BY <1>6, <1>1, <1>p DEF UnfitClear, Step, Nothing
<1> QED
  BY <1>2, <1>3, <1>4, <1>5, <1>6 DEF UnfitSteps

LEMMA AloneVehicle ==
  ASSUME AloneInv, NEW r \in Requests, VehicleSteps(r)
  PROVE  OneDevicePerKind' /\ NothingFittedOnRetired' /\ Alone(r)'
<1>p. /\ pc \in [Requests -> Labels] /\ local \in [Requests -> Local]
      /\ vState \in [Vehicles -> DocStates]
  BY DEF AloneInv, TypeInv, TypeOK
<1>a. OneDevicePerKind /\ NothingFittedOnRetired /\ Alone(r)
  BY DEF AloneInv
<1>v. pc[r] \in {"replaceVehicle", "deleteVehicle", "countOnVehicle"} => local[r].vehicle \in Vehicles
  BY DEF AloneInv, TypeInv, LocalOK, VehicleLabels
<1>1. ASSUME NEW v \in Vehicles, CreateVehicle(r, v)
      PROVE  OneDevicePerKind' /\ NothingFittedOnRetired' /\ Alone(r)'
  <2>1. /\ UNCHANGED <<tState, open>> /\ pc'[r] \in Nothing
        /\ \A u \in Vehicles : vState[u] = "live" => vState'[u] = "live"
    BY <1>1, <1>p DEF CreateVehicle, Begin, Step, Nothing
  <2> QED
    BY <1>a, <2>1, AtNothing DEF OneDevicePerKind, NothingFittedOnRetired
<1>2. ASSUME NEW c \in Companies, NEW v \in Vehicles, UpdateVehicleRead(r, c, v)
      PROVE  OneDevicePerKind' /\ NothingFittedOnRetired' /\ Alone(r)'
  <2>1. /\ UNCHANGED <<tState, vState, open>> /\ pc'[r] = "replaceVehicle"
        /\ vState[local'[r].vehicle] = "live"
    BY <1>2, <1>p DEF UpdateVehicleRead, FoundVehicle, Begin, Step, Carry, db
  <2> QED
    BY <1>a, <2>1, SameRegister
       DEF Alone, StillThere, DoneSoFar, SeesAll, Unused, InTxn, FitLabels
<1>3. ASSUME NEW c \in Companies, NEW v \in Vehicles, DeleteVehicleRead(r, c, v)
      PROVE  OneDevicePerKind' /\ NothingFittedOnRetired' /\ Alone(r)'
  <2>1. UNCHANGED <<tState, vState, open>> /\ pc'[r] \in Nothing
    BY <1>3, <1>p DEF DeleteVehicleRead, Begin, Step, db, Nothing
  <2> QED
    BY <1>a, <2>1, SameRegister, AtNothing
<1>4. CASE UpdateVehicleReplace(r)
  <2>1. /\ UNCHANGED <<tState, open>> /\ pc'[r] \in Nothing
        /\ \A u \in Vehicles : vState[u] = "live" => vState'[u] = "live"
    BY <1>4, <1>p DEF UpdateVehicleReplace, Step, Nothing
  <2> QED
    BY <1>a, <2>1, AtNothing DEF OneDevicePerKind, NothingFittedOnRetired
<1>5. CASE DeleteVehicleCount(r)
  <2>1. /\ UNCHANGED <<tState, vState, open, local>> /\ pc'[r] = "deleteVehicle"
        /\ \A t \in Trackers : <<t, local[r].vehicle>> \notin open
    BY <1>5, <1>p DEF DeleteVehicleCount, StillFitted, Step, db
  <2> QED
    BY <1>a, <2>1, SameRegister
       DEF Alone, StillThere, DoneSoFar, SeesAll, Unused, InTxn, FitLabels
<1>6. CASE DeleteVehicleRefuse(r)
  <2>1. UNCHANGED <<tState, vState, open>> /\ pc'[r] \in Nothing
    BY <1>6, <1>p DEF DeleteVehicleRefuse, End, db, Nothing
  <2> QED
    BY <1>a, <2>1, SameRegister, AtNothing
<1>7. CASE DeleteVehicleWrite(r)
  <2>1. /\ UNCHANGED <<tState, open>> /\ pc'[r] \in Nothing
        /\ \A u \in Vehicles : u # local[r].vehicle => vState'[u] = vState[u]
        /\ \A t \in Trackers : <<t, local[r].vehicle>> \notin open
    BY <1>7, <1>a, <1>p DEF DeleteVehicleWrite, Step, Nothing, Alone, Unused
  <2> QED
    BY <1>a, <2>1, AtNothing DEF OneDevicePerKind, NothingFittedOnRetired
<1> QED
  BY <1>1, <1>2, <1>3, <1>4, <1>5, <1>6, <1>7 DEF VehicleSteps

LEMMA AloneTracker ==
  ASSUME AloneInv, NEW r \in Requests, TrackerSteps(r)
  PROVE  OneDevicePerKind' /\ NothingFittedOnRetired' /\ Alone(r)'
<1>p. /\ pc \in [Requests -> Labels] /\ local \in [Requests -> Local]
      /\ tState \in [Trackers -> DocStates] /\ open \in SUBSET (Trackers \X Vehicles)
  BY DEF AloneInv, TypeInv, TypeOK
<1>a. OneDevicePerKind /\ NothingFittedOnRetired /\ Alone(r)
  BY DEF AloneInv
<1>t. pc[r] \in {"replaceTracker", "deleteTracker", "countOfTracker"} => local[r].tracker \in Trackers
  BY DEF AloneInv, TypeInv, LocalOK, DeviceLabels
<1>1. ASSUME NEW t \in Trackers, NEW c, NEW a, CreateTracker(r, t, c, a)
      PROVE  OneDevicePerKind' /\ NothingFittedOnRetired' /\ Alone(r)'
  <2>1. /\ UNCHANGED <<vState, open>> /\ pc'[r] \in Nothing
        /\ \A x \in Trackers : tState[x] = "live" => tState'[x] = "live"
    BY <1>1, <1>p DEF CreateTracker, Begin, Step, Nothing
  <2> QED
    BY <1>a, <2>1, AtNothing DEF OneDevicePerKind, NothingFittedOnRetired
<1>2. ASSUME NEW scope, NEW d, NEW t \in Trackers, NEW a, UpdateTrackerRead(r, scope, t, d, a)
      PROVE  OneDevicePerKind' /\ NothingFittedOnRetired' /\ Alone(r)'
  <2>1. /\ UNCHANGED <<tState, vState, open>> /\ pc'[r] = "replaceTracker"
        /\ tState[local'[r].tracker] = "live"
    BY <1>2, <1>p DEF UpdateTrackerRead, FoundTracker, Begin, Step, Carry, db
  <2> QED
    BY <1>a, <2>1, SameRegister
       DEF Alone, StillThere, DoneSoFar, SeesAll, Unused, InTxn, FitLabels
<1>3. CASE UpdateTrackerReplace(r)
  <2>1. /\ UNCHANGED <<vState, open>> /\ pc'[r] \in Nothing
        /\ \A x \in Trackers : tState[x] = "live" => tState'[x] = "live"
    BY <1>3, <1>p DEF UpdateTrackerReplace, Step, Nothing
  <2> QED
    BY <1>a, <2>1, AtNothing DEF OneDevicePerKind, NothingFittedOnRetired
<1>4. ASSUME NEW scope, NEW t \in Trackers, DeleteTrackerRead(r, scope, t)
      PROVE  OneDevicePerKind' /\ NothingFittedOnRetired' /\ Alone(r)'
  <2>1. UNCHANGED <<tState, vState, open>> /\ pc'[r] \in Nothing
    BY <1>4, <1>p DEF DeleteTrackerRead, Begin, Step, db, Nothing
  <2> QED
    BY <1>a, <2>1, SameRegister, AtNothing
<1>5. CASE DeleteTrackerCount(r)
  <2>1. /\ UNCHANGED <<tState, vState, open, local>> /\ pc[r] = "countOfTracker"
        /\ pc'[r] = "deleteTracker" /\ ~LiveRowExists(local[r].tracker)
    BY <1>5, <1>p DEF DeleteTrackerCount, Step, db
  <2>2. Off(local[r].tracker)
    BY <1>p, <1>t, <2>1, NoRow
  <2> QED
    BY <1>a, <2>1, <2>2, SameRegister
       DEF Alone, StillThere, DoneSoFar, SeesAll, Unused, InTxn, FitLabels, Off
<1>6. CASE DeleteTrackerRefuse(r)
  <2>1. UNCHANGED <<tState, vState, open>> /\ pc'[r] \in Nothing
    BY <1>6, <1>p DEF DeleteTrackerRefuse, End, db, Nothing
  <2> QED
    BY <1>a, <2>1, SameRegister, AtNothing
<1>7. CASE DeleteTrackerWrite(r)
  <2>1. /\ UNCHANGED <<vState, open>> /\ pc'[r] \in Nothing
        /\ \A x \in Trackers : x # local[r].tracker => tState'[x] = tState[x]
        /\ Off(local[r].tracker)
    BY <1>7, <1>a, <1>p DEF DeleteTrackerWrite, Step, Nothing, Alone, Unused
  <2> QED
    BY <1>a, <2>1, AtNothing DEF OneDevicePerKind, NothingFittedOnRetired, Off
<1> QED
  BY <1>1, <1>2, <1>3, <1>4, <1>5, <1>6, <1>7 DEF TrackerSteps

LEMMA AloneStep ==
  ASSUME OneRequest, AloneInv, [Next]_vars
  PROVE  AloneInv'
<1>1. TypeInv /\ TypeInv'
  BY TypeStep DEF AloneInv
<1>2. CASE UNCHANGED vars
  BY <1>1, <1>2 DEF vars, AloneInv, OneDevicePerKind, NothingFittedOnRetired, Alone, StillThere,
     DoneSoFar, SeesAll, Unused, InTxn, SameKindLive, Off, Without, Only
<1>3. SUFFICES ASSUME NEW r \in Requests,
                      \/ FitSteps(r) \/ UnfitSteps(r) \/ VehicleSteps(r) \/ TrackerSteps(r)
                      \/ Announce(r) \/ Fail(r)
               PROVE  OneDevicePerKind' /\ NothingFittedOnRetired' /\ Alone(r)'
  <2>1. \A q, r \in Requests : q = r
    BY DEF OneRequest
  <2> QED
    BY <1>1, <1>2, <2>1 DEF Next, Steps, AloneInv
<1>4. CASE Announce(r) \/ Fail(r)
  <2>1. UNCHANGED <<tState, vState, open>> /\ pc'[r] \in Nothing
    BY <1>1, <1>4 DEF Announce, Fail, End, db, Nothing, TypeInv, TypeOK
  <2> QED
    BY <2>1, SameRegister, AtNothing DEF AloneInv
<1> QED
  BY <1>3, <1>4, AloneFit, AloneUnfit, AloneVehicle, AloneTracker

LEMMA AloneInit == Init => AloneInv
<1> SUFFICES ASSUME Init PROVE AloneInv
  OBVIOUS
<1>1. TypeInv
  BY NoLocalType, NoSnapshotType, NoDocsType
     DEF Init, TypeInv, TypeOK, LocalOK, DocStates, Labels, FitLabels, DeviceLabels, VehicleLabels
<1> QED
  BY <1>1 DEF Init, AloneInv, OneDevicePerKind, NothingFittedOnRetired, Alone, StillThere,
     DoneSoFar, SeesAll, Unused, InTxn, FitLabels

-----------------------------------------------------------------------------
\* One request at a time, a vehicle never carries two devices of one kind:
\* every Fit closes the rows of its kind, because the list it read is the list
\* of the devices in service and nothing else is fitted.
THEOREM OneOfEachKind ==
  ASSUME OneRequest
  PROVE  Spec => []OneDevicePerKind
<1>1. AloneInv => OneDevicePerKind
  BY DEF AloneInv
<1>2. AloneInv /\ [Next]_vars => AloneInv'
  BY AloneStep
<1> QED
  BY <1>1, <1>2, AloneInit, PTL DEF Spec

\* One request at a time, nothing is fitted to a retired vehicle and no retired
\* device is fitted: the count of open rows is still good when the document is
\* retired.
THEOREM NothingOnRetired ==
  ASSUME OneRequest
  PROVE  Spec => []NothingFittedOnRetired
<1>1. AloneInv => NothingFittedOnRetired
  BY DEF AloneInv
<1>2. AloneInv /\ [Next]_vars => AloneInv'
  BY AloneStep
<1> QED
  BY <1>1, <1>2, AloneInit, PTL DEF Spec

-----------------------------------------------------------------------------
(***************************************************************************)
(* A Fit that has the register to itself.  It starts from whatever the     *)
(* requests before it left, those that died and those that ran into each   *)
(* other; what it has done so far nobody undoes.                           *)
(***************************************************************************)
\* On v there is none of the devices K but those of T.
OnlyOf(T, v, K) == \A x \in K : x \in Trackers /\ <<x, v>> \in open => x \in T

On(t, v) == \A u \in Vehicles : <<t, u>> \in open <=> u = v

Repairing(r) ==
  LET t == local[r].tracker
      v == local[r].vehicle
      K == local[r].kindIDs
  IN /\ pc[r] \in FitLabels \cup {"announceFit"} => t \in K
     /\ pc[r] \in {"fitClose2", "fitInsert"} => Off(t)
     /\ pc[r] = "fitInsert" => OnlyOf({}, v, K)
     /\ pc[r] \in {"fitClear", "fitSet", "announceFit"} => On(t, v) /\ OnlyOf({t}, v, K)
     /\ pc[r] = "fitSet" => \A u \in Vehicles : u # v => trackerId[u] # t
     /\ pc[r] = "announceFit" /\ KindOf[t] = "gps" =>
          \A u \in Vehicles : trackerId[u] = t <=> u = v

RepairInv ==
  /\ TypeInv
  /\ \A r \in Lone : /\ Repairing(r) /\ SeesAll(r) /\ StillThere(r) /\ Unused(r)
                     /\ pc[r] # "idle" => \A q \in Requests \ {r} : pc[q] = "idle"

\* At any other label it promises nothing.
LEMMA RestRepairing ==
  ASSUME NEW r, pc'[r] \notin FitLabels \cup {"announceFit", "unfitCommit"}
  PROVE  Repairing(r)' /\ SeesAll(r)'
  BY DEF Repairing, SeesAll, InTxn, FitLabels

LEMMA RepairFit ==
  ASSUME TypeInv, NEW r \in Requests, Repairing(r), SeesAll(r), FitSteps(r)
  PROVE  Repairing(r)' /\ SeesAll(r)'
<1>p. /\ pc \in [Requests -> Labels] /\ local \in [Requests -> Local]
      /\ snap \in [Requests -> Snapshot] /\ open \in SUBSET (Trackers \X Vehicles)
      /\ trackerId \in [Vehicles -> Trackers \cup {None}] /\ None \notin Trackers
  BY ReferencesAssumption DEF TypeInv, TypeOK
<1>f. pc[r] \in FitLabels => local[r].tracker \in Trackers /\ local[r].vehicle \in Vehicles
  BY DEF TypeInv, LocalOK, DeviceLabels, VehicleLabels
<1> DEFINE t == local[r].tracker
           v == local[r].vehicle
           K == local[r].kindIDs
<1>1. ASSUME NEW c \in Companies, NEW x \in Trackers, NEW u \in Vehicles, FitRead(r, c, x, u)
      PROVE  Repairing(r)' /\ SeesAll(r)'
  <2>1. /\ pc'[r] = "fit" /\ local'[r].tracker = x /\ local'[r].kindIDs = SameKindLive(x)
        /\ x \in SameKindLive(x)
    BY <1>1, <1>p DEF FitRead, FoundTracker, SameKindLive, Begin, Step, Carry
  <2> QED
    BY <2>1 DEF Repairing, SeesAll, InTxn
<1>2. CASE FitBegin(r)
  <2>1. /\ UNCHANGED <<open, trackerId, local>> /\ pc[r] = "fit" /\ pc'[r] = "fitCommit"
        /\ snap'[r].open = open /\ snap'[r].trackerId = trackerId
    BY <1>2, <1>p DEF FitBegin, TakeSnapshot, Step, db
  <2> QED
    BY <2>1 DEF Repairing, SeesAll, FitLabels
<1>3. CASE FitConflict(r)
  <2>1. local' = local /\ pc[r] = "fitCommit" /\ pc'[r] = "fit"
    BY <1>3, <1>p DEF FitConflict, Step
  <2> QED
    BY <2>1 DEF Repairing, SeesAll, InTxn, FitLabels
<1>4. CASE FitCommit(r)
  <2>1. /\ local' = local /\ pc[r] = "fitCommit" /\ pc'[r] = "announceFit"
        /\ t \in Trackers /\ v \in Vehicles /\ t \in K
        /\ snap[r].open = open /\ snap[r].trackerId = trackerId
    BY <1>4, <1>p, <1>f DEF FitCommit, Step, Repairing, SeesAll, InTxn, FitLabels
  <2>2. open' = (open \ (RowsOfDevice(open, t) \cup RowsOfKindOn(open, v, K))) \cup {<<t, v>>}
    BY <1>4, <2>1 DEF FitCommit, FitCloses, NewRow
  <2>3. On(t, v)' /\ OnlyOf({t}, v, K)'
    <3>1. ASSUME NEW x \in Trackers, NEW u \in Vehicles
          PROVE  <<x, u>> \in open' <=>
                   (x = t /\ u = v) \/ (<<x, u>> \in open /\ x # t /\ ~(u = v /\ x \in K))
      <4> HIDE DEF t, v, K
      <4> QED BY <1>p, <2>2, Closing
    <3>2. /\ \A u \in Vehicles : <<t, u>> \in open' <=> u = v
          /\ \A x \in K : x \in Trackers /\ <<x, v>> \in open' => x \in {t}
      BY <2>1, <3>1
    <3> QED BY <2>1, <3>2 DEF On, OnlyOf
  <2>4. ASSUME KindOf[t] = "gps", NEW u \in Vehicles PROVE trackerId'[u] = t <=> u = v
    <3>1. trackerId'[u] = IF u \notin FitVehicles(r) THEN trackerId[u]
                          ELSE IF u = v THEN t ELSE None
      BY <1>4, <2>4 DEF FitCommit
    <3>2. u \in FitVehicles(r) <=> u = v \/ trackerId[u] = t
      BY <2>1, <2>4 DEF FitVehicles, IsGPS, ShortcutsElsewhere
    <3> QED
      BY <1>p, <2>1, <3>1, <3>2
  <2> QED
    BY <2>1, <2>3, <2>4 DEF Repairing, On, OnlyOf, SeesAll, InTxn
<1>5. CASE FitCloseDevice(r)
  <2>1. /\ local' = local /\ pc[r] = "fit" /\ pc'[r] = "fitClose2" /\ t \in K
        /\ open' = open \ RowsOfDevice(open, t)
    BY <1>5, <1>p, <1>f DEF FitCloseDevice, Step, FitLabels, Repairing
  <2>2. Off(t)'
    BY <2>1 DEF Off, RowsOfDevice
  <2> QED
    BY <2>1, <2>2 DEF Repairing, Off, SeesAll, InTxn
<1>6. CASE FitCloseKind(r)
  <2>1. /\ local' = local /\ pc[r] = "fitClose2" /\ pc'[r] = "fitInsert" /\ t \in K
        /\ open' = open \ RowsOfKindOn(open, v, K) /\ Off(t) /\ v \in Vehicles
    BY <1>6, <1>p, <1>f DEF FitCloseKind, Step, FitLabels, Repairing
  <2>2. Off(t)' /\ OnlyOf({}, v, K)'
    BY <2>1 DEF Off, OnlyOf, RowsOfKindOn
  <2> QED
    BY <2>1, <2>2 DEF Repairing, Off, OnlyOf, SeesAll, InTxn
<1>7. CASE FitInsert(r)
  <2>1. /\ local' = local /\ pc[r] = "fitInsert" /\ t \in K /\ trackerId' = trackerId
        /\ pc'[r] = (IF KindOf[t] = "gps" THEN "fitClear" ELSE "announceFit")
        /\ open' = open \cup {<<t, v>>} /\ Off(t) /\ OnlyOf({}, v, K)
        /\ t \in Trackers /\ v \in Vehicles
    BY <1>7, <1>p, <1>f DEF FitInsert, NewRow, IsGPS, Step, FitLabels, Repairing
  <2>2. On(t, v)' /\ OnlyOf({t}, v, K)'
    BY <2>1 DEF Off, On, OnlyOf
  <2> QED
    BY <2>1, <2>2 DEF Repairing, On, OnlyOf, SeesAll, InTxn
<1>8. CASE FitDuplicate(r)
  BY <1>8, <1>p, RestRepairing DEF FitDuplicate, End, FitLabels
<1>9. CASE FitClearElsewhere(r)
  <2>1. /\ UNCHANGED <<open, local>> /\ pc[r] = "fitClear" /\ pc'[r] = "fitSet" /\ t \in K
        /\ \A u \in Vehicles : trackerId'[u] = IF u # v /\ trackerId[u] = t THEN None ELSE trackerId[u]
        /\ t \in Trackers /\ On(t, v) /\ OnlyOf({t}, v, K)
    BY <1>9, <1>p, <1>f DEF FitClearElsewhere, ShortcutsElsewhere, Step, FitLabels, Repairing
  <2> QED
    BY <1>p, <2>1 DEF Repairing, On, OnlyOf, SeesAll, InTxn
<1>10. CASE FitSetShortcut(r)
  <2>1. /\ UNCHANGED <<open, local>> /\ pc[r] = "fitSet" /\ pc'[r] = "announceFit" /\ t \in K
        /\ \A u \in Vehicles : trackerId'[u] = IF u = v THEN t ELSE trackerId[u]
        /\ On(t, v) /\ OnlyOf({t}, v, K) /\ \A u \in Vehicles : u # v => trackerId[u] # t
    BY <1>10, <1>p, <1>f DEF FitSetShortcut, Step, FitLabels, Repairing
  <2> QED
    BY <2>1 DEF Repairing, On, OnlyOf, SeesAll, InTxn
<1> QED
  BY <1>1, <1>2, <1>3, <1>4, <1>5, <1>6, <1>7, <1>8, <1>9, <1>10 DEF FitSteps

LEMMA RepairRest ==
  ASSUME TypeInv, NEW r \in Requests,
         UnfitSteps(r) \/ VehicleSteps(r) \/ TrackerSteps(r) \/ Announce(r) \/ Fail(r)
  PROVE  Repairing(r)' /\ SeesAll(r)'
<1>p. pc \in [Requests -> Labels] /\ snap \in [Requests -> Snapshot]
  BY DEF TypeInv, TypeOK
<1>1. CASE UnfitBegin(r)
  <2>1. /\ pc'[r] = "unfitCommit" /\ UNCHANGED <<open, trackerId>>
        /\ snap'[r].open = open /\ snap'[r].trackerId = trackerId
    BY <1>1, <1>p DEF UnfitBegin, TakeSnapshot, Step, db
  <2> QED
    BY <2>1 DEF Repairing, SeesAll, FitLabels
<1>2. CASE UnfitSteps(r) /\ ~UnfitBegin(r)
  BY <1>2, <1>p, RestRepairing DEF UnfitSteps, UnfitRead, UnfitConflict, UnfitCommit, UnfitNothing,
     UnfitClose, UnfitClear, Begin, Step, End, FitLabels
<1>3. CASE VehicleSteps(r)
  BY <1>3, <1>p, RestRepairing DEF VehicleSteps, CreateVehicle, UpdateVehicleRead, DeleteVehicleRead,
     UpdateVehicleReplace, DeleteVehicleCount, DeleteVehicleRefuse, DeleteVehicleWrite, Begin, Step,
     End, FitLabels
<1>4. CASE TrackerSteps(r)
  BY <1>4, <1>p, RestRepairing DEF TrackerSteps, CreateTracker, UpdateTrackerRead, DeleteTrackerRead,
     UpdateTrackerReplace, DeleteTrackerCount, DeleteTrackerRefuse, DeleteTrackerWrite, Begin, Step,
     End, FitLabels
<1>5. CASE Announce(r) \/ Fail(r)
  BY <1>5, <1>p, RestRepairing DEF Announce, Fail, End, FitLabels
<1> QED
  BY <1>1, <1>2, <1>3, <1>4, <1>5

\* What a Fit that nobody disturbs has read still holds.
LEMMA LoneFit ==
  ASSUME TypeInv, NEW r \in Requests, StillThere(r), FitSteps(r)
  PROVE  StillThere(r)' /\ Unused(r)'
<1>p. pc \in [Requests -> Labels] /\ local \in [Requests -> Local]
  BY DEF TypeInv, TypeOK
<1>1. ASSUME NEW c \in Companies, NEW x \in Trackers, NEW u \in Vehicles, FitRead(r, c, x, u)
      PROVE  StillThere(r)' /\ Unused(r)'
  <2>1. /\ UNCHANGED <<tState, vState>> /\ pc'[r] = "fit"
        /\ tState[x] = "live" /\ vState[u] = "live"
        /\ local'[r].tracker = x /\ local'[r].vehicle = u /\ local'[r].kindIDs = SameKindLive(x)
    BY <1>1, <1>p DEF FitRead, FoundTracker, FoundVehicle, Begin, Step, Carry, db
  <2> QED
    BY <2>1 DEF StillThere, SameKindLive, Unused
<1>2. CASE FitDuplicate(r)
  <2>1. pc'[r] = "idle"
    BY <1>2, <1>p DEF FitDuplicate, End
  <2> QED
    BY <2>1 DEF StillThere, Unused, FitLabels
<1>3. CASE \/ FitBegin(r) \/ FitConflict(r) \/ FitCommit(r) \/ FitCloseDevice(r) \/ FitCloseKind(r)
           \/ FitInsert(r) \/ FitClearElsewhere(r) \/ FitSetShortcut(r)
  <2>1. /\ UNCHANGED <<tState, vState, local>> /\ pc[r] \in FitLabels
        /\ pc'[r] \in FitLabels \cup {"announceFit"}
    BY <1>3, <1>p DEF FitBegin, FitConflict, FitCommit, FitCloseDevice, FitCloseKind, FitInsert,
       FitClearElsewhere, FitSetShortcut, Step, db, FitLabels
  <2> QED
    BY <2>1 DEF StillThere, SameKindLive, Unused, FitLabels
<1> QED
  BY <1>1, <1>2, <1>3 DEF FitSteps

\* What a retirement has counted is still not fitted.
LEMMA LoneRest ==
  ASSUME TypeInv, NEW r \in Requests,
         UnfitSteps(r) \/ VehicleSteps(r) \/ TrackerSteps(r) \/ Announce(r) \/ Fail(r)
  PROVE  StillThere(r)' /\ Unused(r)'
<1>p. pc \in [Requests -> Labels] /\ local \in [Requests -> Local]
      /\ open \in SUBSET (Trackers \X Vehicles)
  BY DEF TypeInv, TypeOK
<1>r. ASSUME pc'[r] \notin FitLabels \cup {"announceFit", "deleteVehicle", "deleteTracker"}
      PROVE  StillThere(r)' /\ Unused(r)'
  BY <1>r DEF StillThere, Unused
<1>1. CASE UnfitSteps(r) \/ Announce(r) \/ Fail(r)
  BY <1>1, <1>p, <1>r DEF UnfitSteps, UnfitRead, UnfitBegin, UnfitConflict, UnfitCommit,
     UnfitNothing, UnfitClose, UnfitClear, Announce, Fail, Begin, Step, End, FitLabels
<1>2. CASE DeleteVehicleCount(r)
  <2>1. /\ UNCHANGED <<open, local>> /\ pc'[r] = "deleteVehicle"
        /\ \A t \in Trackers : <<t, local[r].vehicle>> \notin open
    BY <1>2, <1>p DEF DeleteVehicleCount, StillFitted, Step, db
  <2> QED
    BY <2>1 DEF StillThere, Unused, FitLabels
<1>3. CASE DeleteTrackerCount(r)
  <2>1. /\ UNCHANGED <<open, local>> /\ pc[r] = "countOfTracker" /\ pc'[r] = "deleteTracker"
        /\ ~LiveRowExists(local[r].tracker)
    BY <1>3, <1>p DEF DeleteTrackerCount, Step, db
  <2>2. local[r].tracker \in Trackers
    BY <2>1 DEF TypeInv, LocalOK, DeviceLabels
  <2>3. Off(local[r].tracker)
    BY <1>p, <2>1, <2>2, NoRow
  <2> QED
    BY <2>1, <2>3 DEF StillThere, Unused, Off, FitLabels
<1>4. CASE VehicleSteps(r) /\ ~DeleteVehicleCount(r)
  BY <1>4, <1>p, <1>r DEF VehicleSteps, CreateVehicle, UpdateVehicleRead, DeleteVehicleRead,
     UpdateVehicleReplace, DeleteVehicleRefuse, DeleteVehicleWrite, Begin, Step, End, FitLabels
<1>5. CASE TrackerSteps(r) /\ ~DeleteTrackerCount(r)
  BY <1>5, <1>p, <1>r DEF TrackerSteps, CreateTracker, UpdateTrackerRead, DeleteTrackerRead,
     UpdateTrackerReplace, DeleteTrackerRefuse, DeleteTrackerWrite, Begin, Step, End, FitLabels
<1> QED
  BY <1>1, <1>2, <1>3, <1>4, <1>5

\* So what it adds is in service, and what it retires is not fitted.
LEMMA LoneRows ==
  ASSUME TypeInv, NEW r \in Requests, StillThere(r), Unused(r),
         \/ FitSteps(r) \/ UnfitSteps(r) \/ VehicleSteps(r) \/ TrackerSteps(r)
         \/ Announce(r) \/ Fail(r)
  PROVE  \A t \in Trackers, v \in Vehicles : OnRetired(t, v)' => OnRetired(t, v)
<1>p. /\ pc \in [Requests -> Labels] /\ local \in [Requests -> Local]
      /\ tState \in [Trackers -> DocStates] /\ vState \in [Vehicles -> DocStates]
      /\ open \in SUBSET (Trackers \X Vehicles)
  BY DEF TypeInv, TypeOK
<1>r. ASSUME open' \subseteq open,
             \A t \in Trackers : tState[t] = "live" => tState'[t] = "live",
             \A v \in Vehicles : vState[v] = "live" => vState'[v] = "live"
      PROVE  \A t \in Trackers, v \in Vehicles : OnRetired(t, v)' => OnRetired(t, v)
  BY <1>r DEF OnRetired
<1>1. CASE FitSteps(r)
  <2>1. CASE FitCommit(r) \/ FitInsert(r)
    <3> DEFINE t == local[r].tracker
               v == local[r].vehicle
    <3>1. /\ UNCHANGED <<tState, vState>> /\ tState[t] = "live" /\ vState[v] = "live"
      BY <2>1 DEF FitCommit, FitInsert, NewRow, Step, StillThere, FitLabels
    <3>2. \A row \in open' : row \in open \/ row = <<t, v>>
      BY <2>1 DEF FitCommit, FitInsert, NewRow
    <3> HIDE DEF t, v
    <3> QED
      BY <1>p, <3>1, <3>2 DEF OnRetired
  <2>2. CASE ~(FitCommit(r) \/ FitInsert(r))
    BY <1>1, <1>r, <2>2 DEF FitSteps, FitRead, FitBegin, FitConflict, FitCloseDevice, FitCloseKind,
       FitDuplicate, FitClearElsewhere, FitSetShortcut, db
  <2> QED BY <2>1, <2>2
<1>2. CASE UnfitSteps(r)
  BY <1>2, <1>r DEF UnfitSteps, UnfitRead, UnfitBegin, UnfitConflict, UnfitCommit, UnfitNothing,
     UnfitClose, UnfitClear, db
<1>3. CASE DeleteVehicleWrite(r)
  <2>1. /\ UNCHANGED <<tState, open>>
        /\ \A u \in Vehicles : u # local[r].vehicle => vState'[u] = vState[u]
        /\ \A t \in Trackers : <<t, local[r].vehicle>> \notin open
    BY <1>3, <1>p DEF DeleteVehicleWrite, Step, Unused
  <2> QED
    BY <2>1 DEF OnRetired
<1>4. CASE DeleteTrackerWrite(r)
  <2>1. /\ UNCHANGED <<vState, open>>
        /\ \A x \in Trackers : x # local[r].tracker => tState'[x] = tState[x]
        /\ Off(local[r].tracker)
    BY <1>4, <1>p DEF DeleteTrackerWrite, Step, Unused
  <2> QED
    BY <2>1 DEF OnRetired, Off
<1>5. CASE VehicleSteps(r) /\ ~DeleteVehicleWrite(r)
  BY <1>5, <1>p, <1>r DEF VehicleSteps, CreateVehicle, UpdateVehicleRead, DeleteVehicleRead,
     UpdateVehicleReplace, DeleteVehicleCount, DeleteVehicleRefuse, db
<1>6. CASE TrackerSteps(r) /\ ~DeleteTrackerWrite(r)
  BY <1>6, <1>p, <1>r DEF TrackerSteps, CreateTracker, UpdateTrackerRead, UpdateTrackerReplace,
     DeleteTrackerRead, DeleteTrackerCount, DeleteTrackerRefuse, db
<1>7. CASE Announce(r) \/ Fail(r)
  BY <1>7, <1>r DEF Announce, Fail, db
<1> QED
  BY <1>1, <1>2, <1>3, <1>4, <1>5, <1>6, <1>7

\* A request moves nobody's label but its own.
LEMMA OthersWait ==
  ASSUME TypeInv, NEW r \in Requests, Steps(r)
  PROVE  \A q \in Requests : q # r => pc'[q] = pc[q]
<1>p. pc \in [Requests -> Labels]
  BY DEF TypeInv, TypeOK
<1>1. CASE FitSteps(r) \/ UnfitSteps(r)
  BY <1>1, <1>p DEF FitSteps, FitRead, FitBegin, FitConflict, FitCommit, FitCloseDevice,
     FitCloseKind, FitInsert, FitDuplicate, FitClearElsewhere, FitSetShortcut, UnfitSteps,
     UnfitRead, UnfitBegin, UnfitConflict, UnfitCommit, UnfitNothing, UnfitClose, UnfitClear,
     Begin, Step, End
<1>2. CASE VehicleSteps(r) \/ TrackerSteps(r) \/ Announce(r) \/ Fail(r)
  BY <1>2, <1>p DEF VehicleSteps, CreateVehicle, UpdateVehicleRead, DeleteVehicleRead,
     UpdateVehicleReplace, DeleteVehicleCount, DeleteVehicleRefuse, DeleteVehicleWrite,
     TrackerSteps, CreateTracker, UpdateTrackerRead, UpdateTrackerReplace, DeleteTrackerRead,
     DeleteTrackerCount, DeleteTrackerRefuse, DeleteTrackerWrite, Announce, Fail, Begin, Step, End
<1> QED
  BY <1>1, <1>2 DEF Steps

\* A request that moves from "idle" begins, in its turn.
LEMMA BeginsInTurn ==
  ASSUME NEW r \in Requests, Steps(r), pc[r] = "idle"
  PROVE  InTurn(r)
<1>1. CASE FitSteps(r) \/ UnfitSteps(r)
  BY <1>1 DEF FitSteps, FitRead, FitBegin, FitConflict, FitCommit, FitCloseDevice,
     FitCloseKind, FitInsert, FitDuplicate, FitClearElsewhere, FitSetShortcut, UnfitSteps,
     UnfitRead, UnfitBegin, UnfitConflict, UnfitCommit, UnfitNothing, UnfitClose, UnfitClear,
     Begin, Step
<1>2. CASE VehicleSteps(r) \/ TrackerSteps(r) \/ Announce(r) \/ Fail(r)
  BY <1>2 DEF VehicleSteps, CreateVehicle, UpdateVehicleRead, DeleteVehicleRead,
     UpdateVehicleReplace, DeleteVehicleCount, DeleteVehicleRefuse, DeleteVehicleWrite,
     TrackerSteps, CreateTracker, UpdateTrackerRead, UpdateTrackerReplace, DeleteTrackerRead,
     DeleteTrackerCount, DeleteTrackerRefuse, DeleteTrackerWrite, Announce, Fail, Begin, Step
<1> QED
  BY <1>1, <1>2 DEF Steps

\* While a request of Lone is under way nobody else acts.
LEMMA NobodyElse ==
  ASSUME RepairInv, NEW r \in Requests, Steps(r), NEW s \in Lone
  PROVE  /\ s = r => \A q \in Requests \ {s} : pc'[q] = "idle"
         /\ s # r => pc'[s] = "idle"
<1>1. s \in Requests /\ TypeInv
  BY DeploymentAssumption DEF RepairInv
<1>2. pc[s] # "idle" => \A q \in Requests \ {s} : pc[q] = "idle"
  BY DEF RepairInv
<1>3. CASE s = r
  BY <1>1, <1>2, <1>3, BeginsInTurn, OthersWait DEF InTurn
<1>4. CASE s # r
  BY <1>1, <1>2, <1>4, BeginsInTurn, OthersWait DEF InTurn
<1> QED
  BY <1>3, <1>4

LEMMA RepairStep ==
  ASSUME RepairInv, [Next]_vars
  PROVE  RepairInv'
<1>1. TypeInv /\ TypeInv'
  BY TypeStep DEF RepairInv
<1>2. CASE UNCHANGED vars
  BY <1>1, <1>2 DEF vars, RepairInv, Repairing, SeesAll, InTxn, Off, On, OnlyOf, StillThere,
     SameKindLive, Unused
<1>3. ASSUME NEW r \in Requests, Steps(r), NEW s \in Lone
      PROVE  /\ Repairing(s)' /\ SeesAll(s)' /\ StillThere(s)' /\ Unused(s)'
             /\ pc'[s] # "idle" => \A q \in Requests \ {s} : pc'[q] = "idle"
  <2>2. CASE s = r
    <3>1. \A q \in Requests \ {s} : pc'[q] = "idle"
      BY <1>3, <2>2, NobodyElse
    <3>2. Repairing(s)' /\ SeesAll(s)'
      BY <1>1, <1>3, <2>2, RepairFit, RepairRest DEF Steps, RepairInv
    <3>3. StillThere(s)' /\ Unused(s)'
      BY <1>1, <1>3, <2>2, LoneFit, LoneRest DEF Steps, RepairInv
    <3> QED BY <3>1, <3>2, <3>3
  <2>3. CASE s # r
    <3>1. pc'[s] = "idle"
      BY <1>3, <2>3, NobodyElse
    <3> QED BY <3>1, RestRepairing DEF FitLabels, StillThere, Unused
  <2> QED BY <2>2, <2>3
<1> QED
  BY <1>1, <1>2, <1>3 DEF RepairInv, Next

LEMMA RepairInit == Init => RepairInv
<1> SUFFICES ASSUME Init PROVE RepairInv
  OBVIOUS
<1>1. TypeInv
  BY AloneInit DEF AloneInv
<1> QED
  BY <1>1, DeploymentAssumption
     DEF Init, RepairInv, Repairing, SeesAll, InTxn, StillThere, Unused, FitLabels

\* Whatever earlier requests left, when they died or ran into each other, a Fit
\* that has the register to itself and ran to its end has its device on its
\* vehicle and nowhere else, with transactions and without.
THEOREM TheNextFitRepairs == Spec => []FitRepairs
<1>1. ASSUME RepairInv PROVE FitRepairs
  <2> SUFFICES ASSUME NEW r \in Lone, pc[r] = "announceFit"
               PROVE  LET t == local[r].tracker
                          v == local[r].vehicle
                      IN /\ RowsOfDevice(open, t) = {<<t, v>>}
                         /\ \A u \in SameKindLive(t) : <<u, v>> \in open => u = t
                         /\ KindOf[t] = "gps" => {u \in Vehicles : trackerId[u] = t} = {v}
    BY DEF FitRepairs
  <2> DEFINE t == local[r].tracker
             v == local[r].vehicle
             K == local[r].kindIDs
  <2>1. /\ t \in Trackers /\ v \in Vehicles /\ open \in SUBSET (Trackers \X Vehicles)
        /\ On(t, v) /\ OnlyOf({t}, v, K) /\ K = SameKindLive(t)
        /\ KindOf[t] = "gps" => \A u \in Vehicles : trackerId[u] = t <=> u = v
    BY <1>1, DeploymentAssumption
       DEF RepairInv, TypeInv, TypeOK, LocalOK, DeviceLabels, VehicleLabels, Repairing, StillThere
  <2> HIDE DEF t, v, K
  <2>2. \A row \in open : row = <<row[1], row[2]>> /\ row[1] \in Trackers /\ row[2] \in Vehicles
    BY <2>1
  <2>3. RowsOfDevice(open, t) = {<<t, v>>}
    BY <2>1, <2>2 DEF RowsOfDevice, On
  <2>4. \A u \in SameKindLive(t) : <<u, v>> \in open => u = t
    BY <2>1 DEF OnlyOf, SameKindLive
  <2>5. KindOf[t] = "gps" => {u \in Vehicles : trackerId[u] = t} = {v}
    BY <2>1
  <2> QED
    BY <2>3, <2>4, <2>5 DEF t, v, K
<1> QED
  BY <1>1, RepairInit, RepairStep, PTL DEF Spec

\* A request that has the register to itself fits nothing to what is retired and
\* retires nothing that is fitted, whatever the requests before it left.
THEOREM AloneFitsNothingRetired == Spec => FitsNothingRetired
<1>1. ASSUME RepairInv, [Next]_vars, NEW s \in Lone, pc'[s] # pc[s]
      PROVE  \A t \in Trackers, v \in Vehicles : OnRetired(t, v)' => OnRetired(t, v)
  <2>1. PICK r \in Requests : Steps(r)
    BY <1>1 DEF Next, vars
  <2>2. s = r
    BY <1>1, <2>1, DeploymentAssumption, OthersWait DEF RepairInv
  <2>3. TypeInv /\ StillThere(r) /\ Unused(r)
    BY <1>1, <2>2 DEF RepairInv
  <2> QED
    BY <2>1, <2>3, LoneRows DEF Steps
<1>2. RepairInv /\ [Next]_vars => [\A r \in Lone : pc'[r] # pc[r] =>
        \A t \in Trackers, v \in Vehicles : OnRetired(t, v)' => OnRetired(t, v)]_vars
  BY <1>1
<1> QED
  BY <1>2, RepairInit, RepairStep, PTL DEF Spec, FitsNothingRetired
=============================================================================
