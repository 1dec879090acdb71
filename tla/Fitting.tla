------------------------------- MODULE Fitting -------------------------------
(***************************************************************************)
(* Devices on vehicles: the part of internal/services/registry.go that     *)
(* fits a device to a vehicle, takes it off, and registers, edits and      *)
(* retires the two.                                                        *)
(*                                                                         *)
(* A request is a process: it reads documents, keeps copies of them, and   *)
(* writes later.  Every MongoDB statement that writes is one action, and   *)
(* so is every group of reads whose results nobody else can tell apart.    *)
(* Between two actions of a request every other request may act.           *)
(*                                                                         *)
(* Only the open rows of tracker_assignments (unfittedAt null) are state   *)
(* here: closing a row removes it from `open'.  What the closed rows say   *)
(* about the past is another question.                                     *)
(***************************************************************************)
EXTENDS Integers, FiniteSets

CONSTANTS
  Requests,       \* requests in flight at once
  Lone,           \* those that have the register to themselves
  Companies,      \* tenants
  Trackers,       \* device documents
  Vehicles,       \* vehicle documents
  None,           \* a null reference
  KindOf,         \* models.Tracker.Kind, which no operation changes
  CompanyOf,      \* models.Vehicle.CompanyID, which no operation changes
  Transactional,  \* TRUE: a replica set; FALSE: a standalone MongoDB
  Ops,            \* the operations that requests not of Lone call
  CanFail         \* TRUE: a request may die between two statements

AllOps == {"Fit", "Unfit", "CreateVehicle", "UpdateVehicle", "DeleteVehicle",
           "CreateTracker", "UpdateTracker", "DeleteTracker"}

ASSUME ReferencesAssumption ==
  /\ None \notin Trackers \cup Vehicles \cup Companies
  /\ KindOf \in [Trackers -> {"gps", "dashcam"}]
  /\ CompanyOf \in [Vehicles -> Companies]

ASSUME DeploymentAssumption ==
  /\ Transactional \in BOOLEAN
  /\ CanFail \in BOOLEAN
  /\ Ops \subseteq AllOps
  /\ Lone \subseteq Requests

VARIABLES
  tState,       \* tracker documents: absent, live or (soft) deleted
  tCompany,     \* Tracker.CompanyID, None while in stock
  tActive,      \* Tracker.Status is "active" or ""
  vState,       \* vehicle documents: absent, live or (soft) deleted
  trackerId,    \* Vehicle.TrackerID, the copy of the live GPS fitting
  open,         \* open rows of tracker_assignments, as <<tracker, vehicle>>
  unannounced,  \* vehicles written since the last notice about them
  pc,           \* where each request is
  local,        \* what each request has read or been given
  snap,         \* a transaction's snapshot of the two collections it writes
  missed        \* documents others wrote since that snapshot

db == <<tState, tCompany, tActive, vState, trackerId, open, unannounced>>
proc == <<pc, local>>
txn == <<snap, missed>>
vars == <<tState, tCompany, tActive, vState, trackerId, open, unannounced,
          pc, local, snap, missed>>

DocStates == {"absent", "live", "deleted"}
FitLabels == {"fit", "fitCommit", "fitClose2", "fitInsert", "fitClear", "fitSet"}
Labels == FitLabels \cup
          {"idle", "unfit", "unfitCommit", "unfitClear",
           "countOnVehicle", "deleteVehicle", "countOfTracker", "deleteTracker",
           "replaceVehicle", "replaceTracker", "announceFit", "announce"}

Local == [tracker: Trackers \cup {None}, vehicle: Vehicles \cup {None},
          kindIDs: SUBSET Trackers, trackerId: Trackers \cup {None},
          company: Companies \cup {None}, active: BOOLEAN]
\* A device, a vehicle, the ids of a kind, and the fields copied from a document.
Carry(t, v, ids, id, c, a) ==
  [tracker |-> t, vehicle |-> v, kindIDs |-> ids,
   trackerId |-> id, company |-> c, active |-> a]
NoLocal == Carry(None, None, {}, None, None, FALSE)

Snapshot == [open: SUBSET (Trackers \X Vehicles),
             trackerId: [Vehicles -> Trackers \cup {None}]]
NoSnapshot == [open |-> {}, trackerId |-> [v \in Vehicles |-> None]]

Docs == [rows: SUBSET Trackers, vehicles: SUBSET Vehicles]
NoDocs == [rows |-> {}, vehicles |-> {}]

\* Every variable has its type.
TypeOK ==
  /\ tState \in [Trackers -> DocStates]
  /\ tCompany \in [Trackers -> Companies \cup {None}]
  /\ tActive \in [Trackers -> BOOLEAN]
  /\ vState \in [Vehicles -> DocStates]
  /\ trackerId \in [Vehicles -> Trackers \cup {None}]
  /\ open \in SUBSET (Trackers \X Vehicles)
  /\ unannounced \in SUBSET Vehicles
  /\ pc \in [Requests -> Labels]
  /\ local \in [Requests -> Local]
  /\ snap \in [Requests -> Snapshot]
  /\ missed \in [Requests -> Docs]

(***************************************************************************)
(* A register in which nothing has been fitted yet.                        *)
(***************************************************************************)
Init ==
  /\ tState \in [Trackers -> {"absent", "live"}]
  /\ tCompany \in [Trackers -> Companies]
  /\ tActive = [t \in Trackers |-> TRUE]
  /\ vState \in [Vehicles -> {"absent", "live"}]
  /\ trackerId = [v \in Vehicles |-> None]
  /\ open = {}
  /\ unannounced = {}
  /\ pc = [r \in Requests |-> "idle"]
  /\ local = [r \in Requests |-> NoLocal]
  /\ snap = [r \in Requests |-> NoSnapshot]
  /\ missed = [r \in Requests |-> NoDocs]

-----------------------------------------------------------------------------
(***************************************************************************)
(* MongoDB as the service uses it.                                         *)
(***************************************************************************)
InTxn(q) == pc[q] \in {"fitCommit", "unfitCommit"}

\* r writes the live rows of the devices R and the vehicles V: every open
\* transaction that has its snapshot already is now behind on them.
Wrote(r, R, V) ==
  missed' = [q \in Requests |->
               IF q = r THEN NoDocs
               ELSE IF InTxn(q) THEN [rows |-> missed[q].rows \cup R,
                                      vehicles |-> missed[q].vehicles \cup V]
               ELSE missed[q]]

\* A transaction's first statement takes its snapshot.
TakeSnapshot(r) ==
  /\ snap' = [snap EXCEPT ![r] = [open |-> open, trackerId |-> trackerId]]
  /\ missed' = [missed EXCEPT ![r] = NoDocs]

\* The transaction would overwrite a document somebody else wrote since.
Conflicts(r, R, V) ==
  \/ missed[r].rows \cap R # {}
  \/ missed[r].vehicles \cap V # {}

DropSnapshot(r) == snap' = [snap EXCEPT ![r] = NoSnapshot]

Step(r, from, to) ==
  /\ pc[r] = from
  /\ pc' = [pc EXCEPT ![r] = to]

\* A request of Lone is sent when no other is in flight, and no other is sent while
\* it is; it calls any operation.
InTurn(r) == \A q \in Requests \ {r} : r \in Lone \/ q \in Lone => pc[q] = "idle"

OpsOf(r) == IF r \in Lone THEN AllOps ELSE Ops

Begin(r, op, to, l) ==
  /\ op \in OpsOf(r) /\ InTurn(r)
  /\ Step(r, "idle", to)
  /\ local' = [local EXCEPT ![r] = l]

\* The request ends: it has answered, was refused, or died.
End(r) ==
  /\ pc' = [pc EXCEPT ![r] = "idle"]
  /\ local' = [local EXCEPT ![r] = NoLocal]

\* findTracker with a company, and with none (platform staff).
FoundTracker(t, c) == tState[t] = "live" /\ (c = None \/ tCompany[t] = c)

FoundVehicle(v, c) == vState[v] = "live" /\ CompanyOf[v] = c

-----------------------------------------------------------------------------
(***************************************************************************)
(* Fit.  The device, the vehicle and the ids of every device of the kind   *)
(* are read before, and outside, the transaction.                          *)
(***************************************************************************)
SameKindLive(t) == {x \in Trackers : KindOf[x] = KindOf[t] /\ tState[x] = "live"}

FitRead(r, c, t, v) ==
  /\ FoundTracker(t, c)
  /\ tActive[t]
  /\ FoundVehicle(v, c)
  /\ Begin(r, "Fit", "fit",
           Carry(t, v, SameKindLive(t), None, None, FALSE))
  /\ UNCHANGED <<db, txn>>

\* Step 1's rows and step 2's, as a state of the collection gives them.
RowsOfDevice(o, t) == {row \in o : row[1] = t}
NoRowsOfKindOn(o, v, K) == {}
RowsOfKindOn(o, v, K) == {row \in o : row[2] = v /\ row[1] \in K}

FitCloses(r, o) ==
  RowsOfDevice(o, local[r].tracker) \cup
  RowsOfKindOn(o, local[r].vehicle, local[r].kindIDs)

\* Step 3's document.
NewRowSwapped(t, v) == <<v, t>>
NewRow(t, v) == <<t, v>>

AnyKind(r) == TRUE
IsGPS(r) == KindOf[local[r].tracker] = "gps"

NoShortcutsElsewhere(f, t, v) == {}
ShortcutsElsewhere(f, t, v) == {u \in Vehicles \ {v} : f[u] = t}

\* The documents a Fit writes, given its snapshot.
FitRows(r) ==
  {local[r].tracker} \cup {row[1] : row \in FitCloses(r, snap[r].open)}
FitVehicles(r) ==
  IF IsGPS(r)
  THEN {local[r].vehicle} \cup
       ShortcutsElsewhere(snap[r].trackerId, local[r].tracker, local[r].vehicle)
  ELSE {}

FitBegin(r) ==
  /\ Transactional
  /\ Step(r, "fit", "fitCommit")
  /\ TakeSnapshot(r)
  /\ UNCHANGED <<db, local>>

\* WithTransaction runs the function again on a write conflict.
FitConflict(r) ==
  /\ Step(r, "fitCommit", "fit")
  /\ Conflicts(r, FitRows(r), FitVehicles(r))
  /\ DropSnapshot(r)
  /\ missed' = [missed EXCEPT ![r] = NoDocs]
  /\ UNCHANGED <<db, local>>

\* The insert cannot meet uq_assignment_live: step 1 of the same transaction
\* closed the device's rows, and a row opened since the snapshot is a conflict.
FitCommit(r) ==
  LET t == local[r].tracker
      v == local[r].vehicle
  IN /\ Step(r, "fitCommit", "announceFit")
     /\ ~Conflicts(r, FitRows(r), FitVehicles(r))
     /\ open' = (open \ FitCloses(r, snap[r].open)) \cup {NewRow(t, v)}
     /\ trackerId' = [u \in Vehicles |->
                        IF u \notin FitVehicles(r) THEN trackerId[u]
                        ELSE IF u = v THEN t ELSE None]
     /\ unannounced' = unannounced \cup FitVehicles(r)
     /\ Wrote(r, FitRows(r), FitVehicles(r))
     /\ DropSnapshot(r)
     /\ UNCHANGED <<tState, tCompany, tActive, vState, local>>

(***************************************************************************)
(* The same function on a standalone server: one statement at a time.      *)
(***************************************************************************)
FitCloseDevice(r) ==
  /\ ~Transactional
  /\ Step(r, "fit", "fitClose2")
  /\ open' = open \ RowsOfDevice(open, local[r].tracker)
  /\ UNCHANGED <<tState, tCompany, tActive, vState, trackerId, unannounced,
                 local, txn>>

FitCloseKind(r) ==
  /\ Step(r, "fitClose2", "fitInsert")
  /\ open' = open \ RowsOfKindOn(open, local[r].vehicle, local[r].kindIDs)
  /\ UNCHANGED <<tState, tCompany, tActive, vState, trackerId, unannounced,
                 local, txn>>

\* uq_assignment_live: one open row per device.
LiveRowExists(t) == RowsOfDevice(open, t) # {}

FitInsert(r) ==
  /\ Step(r, "fitInsert", IF IsGPS(r) THEN "fitClear" ELSE "announceFit")
  /\ ~LiveRowExists(local[r].tracker)
  /\ open' = open \cup {NewRow(local[r].tracker, local[r].vehicle)}
  /\ UNCHANGED <<tState, tCompany, tActive, vState, trackerId, unannounced,
                 local, txn>>

FitDuplicate(r) ==
  /\ pc[r] = "fitInsert"
  /\ LiveRowExists(local[r].tracker)
  /\ End(r)
  /\ UNCHANGED <<db, txn>>

FitClearElsewhere(r) ==
  LET others == ShortcutsElsewhere(trackerId, local[r].tracker, local[r].vehicle)
  IN /\ Step(r, "fitClear", "fitSet")
     /\ trackerId' = [u \in Vehicles |->
                        IF u \in others THEN None ELSE trackerId[u]]
     /\ unannounced' = unannounced \cup others
     /\ UNCHANGED <<tState, tCompany, tActive, vState, open, local, txn>>

FitSetShortcut(r) ==
  /\ Step(r, "fitSet", "announceFit")
  /\ trackerId' = [trackerId EXCEPT ![local[r].vehicle] = local[r].tracker]
  /\ unannounced' = unannounced \cup {local[r].vehicle}
  /\ UNCHANGED <<tState, tCompany, tActive, vState, open, local, txn>>

-----------------------------------------------------------------------------
(***************************************************************************)
(* Unfit.  The vehicle it comes off is read only to be announced.          *)
(***************************************************************************)
UnfitRead(r, c, t) ==
  /\ FoundTracker(t, c)
  /\ \E v \in Vehicles \cup {None} :
       /\ v = None => ~LiveRowExists(t)
       /\ v # None => <<t, v>> \in open
       /\ Begin(r, "Unfit", "unfit", Carry(t, v, {}, None, None, FALSE))
  /\ UNCHANGED <<db, txn>>

UnfitNoVehicles(r) == {}
UnfitVehicles(r) ==
  IF IsGPS(r) THEN {u \in Vehicles : snap[r].trackerId[u] = local[r].tracker} ELSE {}

UnfitBegin(r) ==
  /\ Transactional
  /\ Step(r, "unfit", "unfitCommit")
  /\ TakeSnapshot(r)
  /\ UNCHANGED <<db, local>>

UnfitConflict(r) ==
  /\ Step(r, "unfitCommit", "unfit")
  /\ RowsOfDevice(snap[r].open, local[r].tracker) # {}
  /\ Conflicts(r, {local[r].tracker}, UnfitVehicles(r))
  /\ DropSnapshot(r)
  /\ missed' = [missed EXCEPT ![r] = NoDocs]
  /\ UNCHANGED <<db, local>>

UnfitCommit(r) ==
  /\ Step(r, "unfitCommit", "announce")
  /\ RowsOfDevice(snap[r].open, local[r].tracker) # {}
  /\ ~Conflicts(r, {local[r].tracker}, UnfitVehicles(r))
  /\ open' = open \ RowsOfDevice(snap[r].open, local[r].tracker)
  /\ trackerId' = [u \in Vehicles |->
                     IF u \in UnfitVehicles(r) THEN None ELSE trackerId[u]]
  /\ unannounced' = unannounced \cup UnfitVehicles(r)
  /\ Wrote(r, {local[r].tracker}, UnfitVehicles(r))
  /\ DropSnapshot(r)
  /\ UNCHANGED <<tState, tCompany, tActive, vState, local>>

\* Nothing matched: ErrConflict, and the shortcut is left as it is.
UnfitNothing(r) ==
  /\ \/ /\ pc[r] = "unfitCommit"
        /\ RowsOfDevice(snap[r].open, local[r].tracker) = {}
     \/ /\ pc[r] = "unfit"
        /\ ~Transactional
        /\ ~LiveRowExists(local[r].tracker)
  /\ End(r)
  /\ DropSnapshot(r)
  /\ missed' = [missed EXCEPT ![r] = NoDocs]
  /\ UNCHANGED db

UnfitClose(r) ==
  /\ ~Transactional
  /\ Step(r, "unfit", IF IsGPS(r) THEN "unfitClear" ELSE "announce")
  /\ LiveRowExists(local[r].tracker)
  /\ open' = open \ RowsOfDevice(open, local[r].tracker)
  /\ UNCHANGED <<tState, tCompany, tActive, vState, trackerId, unannounced,
                 local, txn>>

UnfitClear(r) ==
  LET named == {u \in Vehicles : trackerId[u] = local[r].tracker}
  IN /\ Step(r, "unfitClear", "announce")
     /\ trackerId' = [u \in Vehicles |->
                        IF u \in named THEN None ELSE trackerId[u]]
     /\ unannounced' = unannounced \cup named
     /\ UNCHANGED <<tState, tCompany, tActive, vState, open, local, txn>>

-----------------------------------------------------------------------------
(***************************************************************************)
(* Vehicles.  An update replaces the whole document with the copy it read. *)
(***************************************************************************)
CreateVehicle(r, v) ==
  /\ vState[v] = "absent"
  /\ Begin(r, "CreateVehicle", "announce", Carry(None, v, {}, None, None, FALSE))
  /\ vState' = [vState EXCEPT ![v] = "live"]
  /\ unannounced' = unannounced \cup {v}
  /\ UNCHANGED <<tState, tCompany, tActive, trackerId, open, txn>>

UpdateVehicleRead(r, c, v) ==
  /\ FoundVehicle(v, c)
  /\ Begin(r, "UpdateVehicle", "replaceVehicle",
           Carry(None, v, {}, trackerId[v], None, FALSE))
  /\ UNCHANGED <<db, txn>>

UpdateVehicleReplace(r) ==
  LET v == local[r].vehicle
  IN /\ Step(r, "replaceVehicle", "announce")
     /\ vState' = [vState EXCEPT ![v] = "live"]
     /\ trackerId' = [trackerId EXCEPT ![v] = local[r].trackerId]
     /\ unannounced' = unannounced \cup {v}
     /\ Wrote(r, {}, {v})
     /\ UNCHANGED <<tState, tCompany, tActive, open, local, snap>>

DeleteVehicleRead(r, c, v) ==
  /\ FoundVehicle(v, c)
  /\ Begin(r, "DeleteVehicle", "countOnVehicle",
           Carry(None, v, {}, trackerId[v], None, FALSE))
  /\ UNCHANGED <<db, txn>>

StillNamesDevice(r) == local[r].trackerId # None
StillFitted(r) ==
  \/ \E t \in Trackers : <<t, local[r].vehicle>> \in open
  \/ local[r].trackerId # None

DeleteVehicleCount(r) ==
  /\ Step(r, "countOnVehicle", "deleteVehicle")
  /\ ~StillFitted(r)
  /\ UNCHANGED <<db, local, txn>>

DeleteVehicleRefuse(r) ==
  /\ pc[r] = "countOnVehicle"
  /\ StillFitted(r)
  /\ End(r)
  /\ UNCHANGED <<db, txn>>

DeleteVehicleWrite(r) ==
  LET v == local[r].vehicle
  IN /\ Step(r, "deleteVehicle", "announce")
     /\ vState' = [vState EXCEPT ![v] = "deleted"]
     /\ unannounced' = unannounced \cup {v}
     /\ Wrote(r, {}, {v})
     /\ UNCHANGED <<tState, tCompany, tActive, trackerId, open, local, snap>>

-----------------------------------------------------------------------------
(***************************************************************************)
(* Devices.  No transaction writes a tracker document.                     *)
(***************************************************************************)
CreateTracker(r, t, c, active) ==
  /\ tState[t] = "absent"
  /\ Begin(r, "CreateTracker", "announce", Carry(t, None, {}, None, None, FALSE))
  /\ tState' = [tState EXCEPT ![t] = "live"]
  /\ tCompany' = [tCompany EXCEPT ![t] = c]
  /\ tActive' = [tActive EXCEPT ![t] = active]
  /\ UNCHANGED <<vState, trackerId, open, unannounced, txn>>

\* Staff acting for nobody (scope None) may also move the device to company d.
UpdateTrackerRead(r, scope, t, d, active) ==
  /\ FoundTracker(t, scope)
  /\ scope # None => d = tCompany[t]
  /\ Begin(r, "UpdateTracker", "replaceTracker",
           Carry(t, None, {}, None, d, active))
  /\ UNCHANGED <<db, txn>>

UpdateTrackerReplace(r) ==
  LET t == local[r].tracker
  IN /\ Step(r, "replaceTracker", "announce")
     /\ tState' = [tState EXCEPT ![t] = "live"]
     /\ tCompany' = [tCompany EXCEPT ![t] = local[r].company]
     /\ tActive' = [tActive EXCEPT ![t] = local[r].active]
     /\ UNCHANGED <<vState, trackerId, open, unannounced, local, txn>>

DeleteTrackerRead(r, scope, t) ==
  /\ FoundTracker(t, scope)
  /\ Begin(r, "DeleteTracker", "countOfTracker", Carry(t, None, {}, None, None, FALSE))
  /\ UNCHANGED <<db, txn>>

DeleteTrackerCount(r) ==
  /\ Step(r, "countOfTracker", "deleteTracker")
  /\ ~LiveRowExists(local[r].tracker)
  /\ UNCHANGED <<db, local, txn>>

DeleteTrackerRefuse(r) ==
  /\ pc[r] = "countOfTracker"
  /\ LiveRowExists(local[r].tracker)
  /\ End(r)
  /\ UNCHANGED <<db, txn>>

DeleteTrackerWrite(r) ==
  /\ Step(r, "deleteTracker", "announce")
  /\ tState' = [tState EXCEPT ![local[r].tracker] = "deleted"]
  /\ UNCHANGED <<tCompany, tActive, vState, trackerId, open, unannounced,
                 local, txn>>

-----------------------------------------------------------------------------
(***************************************************************************)
(* The notice about the vehicle, and the answer.                           *)
(***************************************************************************)
Announce(r) ==
  /\ pc[r] \in {"announceFit", "announce"}
  /\ End(r)
  /\ unannounced' = unannounced \ {local[r].vehicle}
  /\ UNCHANGED <<tState, tCompany, tActive, vState, trackerId, open, txn>>

\* The process or its connection dies, or the database refuses the statement:
\* a transaction leaves nothing behind, plain statements stay.
Fail(r) ==
  /\ CanFail
  /\ pc[r] # "idle"
  /\ End(r)
  /\ DropSnapshot(r)
  /\ missed' = [missed EXCEPT ![r] = NoDocs]
  /\ UNCHANGED db

FitSteps(r) ==
  \/ \E c \in Companies, t \in Trackers, v \in Vehicles : FitRead(r, c, t, v)
  \/ FitBegin(r) \/ FitConflict(r) \/ FitCommit(r)
  \/ FitCloseDevice(r) \/ FitCloseKind(r) \/ FitInsert(r) \/ FitDuplicate(r)
  \/ FitClearElsewhere(r) \/ FitSetShortcut(r)

UnfitSteps(r) ==
  \/ \E c \in Companies, t \in Trackers : UnfitRead(r, c, t)
  \/ UnfitBegin(r) \/ UnfitConflict(r) \/ UnfitCommit(r) \/ UnfitNothing(r)
  \/ UnfitClose(r) \/ UnfitClear(r)

VehicleSteps(r) ==
  \/ \E v \in Vehicles : CreateVehicle(r, v)
  \/ \E c \in Companies, v \in Vehicles :
       UpdateVehicleRead(r, c, v) \/ DeleteVehicleRead(r, c, v)
  \/ UpdateVehicleReplace(r)
  \/ DeleteVehicleCount(r) \/ DeleteVehicleRefuse(r) \/ DeleteVehicleWrite(r)

TrackerSteps(r) ==
  \/ \E t \in Trackers, c \in Companies \cup {None}, a \in BOOLEAN :
       CreateTracker(r, t, c, a)
  \/ \E scope, d \in Companies \cup {None}, t \in Trackers, a \in BOOLEAN :
       UpdateTrackerRead(r, scope, t, d, a)
  \/ UpdateTrackerReplace(r)
  \/ \E scope \in Companies \cup {None}, t \in Trackers : DeleteTrackerRead(r, scope, t)
  \/ DeleteTrackerCount(r) \/ DeleteTrackerRefuse(r) \/ DeleteTrackerWrite(r)

Steps(r) ==
  \/ FitSteps(r) \/ UnfitSteps(r) \/ VehicleSteps(r) \/ TrackerSteps(r)
  \/ Announce(r) \/ Fail(r)

Next == \E r \in Requests : Steps(r)

Spec == Init /\ [][Next]_vars

-----------------------------------------------------------------------------
(***************************************************************************)
(* What must hold.                                                         *)
(***************************************************************************)
Quiet == \A r \in Requests : pc[r] = "idle"

\* Vehicle.TrackerID is a copy of the live GPS fitting (models.go:436): it names
\* a device exactly when that device has an open row on that vehicle.
ShortcutAgrees ==
  \A t \in Trackers, v \in Vehicles :
    KindOf[t] = "gps" => (<<t, v>> \in open <=> trackerId[v] = t)

\* What the vehicles name is a behaviour of FittingPromise: although a Fit is
\* four statements on two collections and requests interleave, whoever reads
\* Vehicle.TrackerID sees GPS units moved in single steps.
Promise == INSTANCE FittingPromise
             WITH Devices <- {t \in Trackers : KindOf[t] = "gps"},
                  device <- trackerId
KeepsPromise == Promise!Spec

\* A vehicle carries one GPS and one dashcam, not two of either (Fit's comment).
OneDevicePerKind ==
  \A t, u \in Trackers, v \in Vehicles :
    <<t, v>> \in open /\ <<u, v>> \in open /\ KindOf[t] = KindOf[u] => t = u

\* The same for GPS units alone, whose fittings meet on the vehicle document.
OneGPSPerVehicle ==
  \A t, u \in Trackers, v \in Vehicles :
    <<t, v>> \in open /\ <<u, v>> \in open
      /\ KindOf[t] = "gps" /\ KindOf[u] = "gps" => t = u

\* Nothing is fitted to a retired vehicle and no retired device is fitted
\* (DeleteVehicle's and DeleteTracker's refusals).
NothingFittedOnRetired ==
  \A t \in Trackers, v \in Vehicles :
    <<t, v>> \in open => tState[t] = "live" /\ vState[v] = "live"

\* Whatever the others left behind, a request that has the register to itself never
\* fits anything to what is retired, and retires nothing that carries or is
\* fitted (DeleteVehicle's and DeleteTracker's refusals).
OnRetired(t, v) == <<t, v>> \in open /\ ~(tState[t] = "live" /\ vState[v] = "live")
FitsNothingRetired ==
  [][\A r \in Lone : pc'[r] # pc[r] =>
       \A t \in Trackers, v \in Vehicles : OnRetired(t, v)' => OnRetired(t, v)]_vars

\* Whatever earlier failures and requests that ran into each other left behind,
\* a Fit that has the register to itself and ran to its end leaves its own
\* device and its own vehicle in step, and no other device of the kind that is
\* in service on the vehicle (Fit's comment: "a state the next Fit repairs").
FitRepairs ==
  \A r \in Lone : pc[r] = "announceFit" =>
    LET t == local[r].tracker
        v == local[r].vehicle
    IN /\ RowsOfDevice(open, t) = {<<t, v>>}
       /\ \A u \in SameKindLive(t) : <<u, v>> \in open => u = t
       /\ KindOf[t] = "gps" => {u \in Vehicles : trackerId[u] = t} = {v}

\* When no request is in flight the shortcut and the open rows agree: a state
\* that does not lie (Fit's comment).
QuietShortcutAgrees == Quiet => ShortcutAgrees

\* When no request is in flight, every vehicle write has been announced
\* (registry.go:49, "every vehicle and driver write is announced").
EveryVehicleWriteAnnounced == Quiet => unannounced = {}

\* A fitted device is deployed at the company whose vehicle carries it
\* (schema/master_data.js:619).
DeployedWhereFitted ==
  \A t \in Trackers, v \in Vehicles :
    <<t, v>> \in open => tCompany[t] = CompanyOf[v]

\* Retiring is final: no request brings a retired vehicle or device back.
RetiredStaysRetired ==
  [][/\ \A t \in Trackers : tState[t] = "deleted" => tState'[t] = "deleted"
     /\ \A v \in Vehicles : vState[v] = "deleted" => vState'[v] = "deleted"]_vars
=============================================================================
