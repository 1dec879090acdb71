------------------------------- MODULE Pairing -------------------------------
(***************************************************************************)
(* Who drives which vehicle, and which group a vehicle is in: the parts of *)
(* internal/services/registry.go and catalog.go that keep a vehicle's      *)
(* references to a driver, to that driver's login and to a vehicle group.  *)
(*                                                                         *)
(* Nothing here runs in a transaction.  A request reads documents, keeps   *)
(* copies, and replaces a whole document later; each statement is one      *)
(* action, and other requests act between any two.  Every filter in this   *)
(* code carries the company, so one company is modelled.                   *)
(***************************************************************************)
EXTENDS Integers, FiniteSets

CONSTANTS
  Requests,  \* requests in flight at once
  Drivers,   \* driver documents
  Users,     \* logins of the auth service
  Vehicles,  \* vehicle documents
  Groups,    \* vehicle group documents
  None,      \* a null reference
  Keep,      \* a field the request body does not send
  Ops,       \* the operations the clients call
  CanFail    \* TRUE: a request may die, or be refused, between two statements

AllOps == {"CreateVehicle", "UpdateVehicle", "DeleteVehicle",
           "CreateDriver", "UpdateDriver", "DeleteDriver",
           "CreateGroup", "UpdateGroup", "DeleteGroup"}

ASSUME PairingAssumption ==
  /\ Requests # {}
  /\ None \notin Drivers \cup Users \cup Vehicles \cup Groups
  /\ Keep \notin Drivers \cup Users \cup Vehicles \cup Groups \cup {None}
  /\ CanFail \in BOOLEAN
  /\ Ops \subseteq AllOps

VARIABLES
  dState,       \* driver documents: absent, live or (soft) deleted
  dActive,      \* Driver.Status is "active"
  dUser,        \* Driver.UserID
  vState,       \* vehicle documents
  driver,       \* Vehicle.CurrentDriverID
  driverUser,   \* Vehicle.CurrentDriverUserID
  group,        \* Vehicle.TruckGroupID
  gState,       \* vehicle group documents
  unannounced,  \* documents written since the last notice about them
  released,     \* history: vehicles that had been announced when DeleteDriver took
                \* their driver, and of which nothing was written since
  pc,           \* where each request is
  local         \* what each request has read or been given

driverDocs == <<dState, dActive, dUser>>
vehicleDocs == <<vState, driver, driverUser, group>>
db == <<dState, dActive, dUser, vState, driver, driverUser, group, gState,
        unannounced, released>>
vars == <<dState, dActive, dUser, vState, driver, driverUser, group, gState,
          unannounced, released, pc, local>>

DocStates == {"absent", "live", "deleted"}
Labels == {"idle", "checkGroup", "setDriver", "findOthers", "unpair",
           "announceOthers", "insertVehicle", "replaceVehicle", "deleteVehicle",
           "replaceDriver", "deleteDriver", "release",
           "replaceGroup", "deleteGroup", "findGrouped", "ungroup",
           "announceGrouped", "announce", "announceAnyway", "failed"}

Local == [vehicle: Vehicles \cup {None}, want: Drivers \cup {None, Keep},
          driver: Drivers \cup {None}, user: Users \cup {None},
          group: Groups \cup {None}, active: BOOLEAN,
          found: SUBSET Vehicles, isNew: BOOLEAN]
\* The copy of a document being edited (driver, user, group, active), the
\* driver asked for, and the vehicles a Find returned.
Carry(v, w, d, u, g, a, f, n) ==
  [vehicle |-> v, want |-> w, driver |-> d, user |-> u, group |-> g,
   active |-> a, found |-> f, isNew |-> n]
NoLocal == Carry(None, None, None, None, None, FALSE, {}, FALSE)

\* Every variable has its type.
TypeOK ==
  /\ dState \in [Drivers -> DocStates]
  /\ dActive \in [Drivers -> BOOLEAN]
  /\ dUser \in [Drivers -> Users \cup {None}]
  /\ vState \in [Vehicles -> DocStates]
  /\ driver \in [Vehicles -> Drivers \cup {None}]
  /\ driverUser \in [Vehicles -> Users \cup {None}]
  /\ group \in [Vehicles -> Groups \cup {None}]
  /\ gState \in [Groups -> DocStates]
  /\ unannounced \in SUBSET (Drivers \cup Vehicles \cup Groups)
  /\ released \in SUBSET Vehicles
  /\ pc \in [Requests -> Labels]
  /\ local \in [Requests -> Local]

(***************************************************************************)
(* An empty register.                                                      *)
(***************************************************************************)
Init ==
  /\ dState = [d \in Drivers |-> "absent"]
  /\ dActive = [d \in Drivers |-> FALSE]
  /\ dUser = [d \in Drivers |-> None]
  /\ vState = [v \in Vehicles |-> "absent"]
  /\ driver = [v \in Vehicles |-> None]
  /\ driverUser = [v \in Vehicles |-> None]
  /\ group = [v \in Vehicles |-> None]
  /\ gState = [g \in Groups |-> "absent"]
  /\ unannounced = {} /\ released = {}
  /\ pc = [r \in Requests |-> "idle"]
  /\ local = [r \in Requests |-> NoLocal]

Go(r, from, to) ==
  /\ pc[r] = from
  /\ pc' = [pc EXCEPT ![r] = to]

Learn(r, l) == local' = [local EXCEPT ![r] = l]

Begin(r, op, to, l) ==
  /\ op \in Ops
  /\ Go(r, "idle", to)
  /\ Learn(r, l)

Leave(r, to) ==
  /\ pc' = [pc EXCEPT ![r] = to]
  /\ Learn(r, NoLocal)

\* Documents are written, and a notice is sent about some.
Wrote(docs) ==
  /\ unannounced' = unannounced \cup docs
  /\ released' = released \ docs

Told(docs) ==
  /\ unannounced' = unannounced \ docs
  /\ UNCHANGED released

\* The request ends: it has answered or was refused.  One that failed half way
\* stays "failed", so that no later state counts as one where nothing went wrong.
End(r) == Leave(r, "idle")

-----------------------------------------------------------------------------
(***************************************************************************)
(* Creating and editing a vehicle: checkGroup, setDriver, then one write.  *)
(***************************************************************************)
CreateVehicle(r, v, g, w) ==
  /\ vState[v] = "absent"
  /\ Begin(r, "CreateVehicle", "checkGroup",
           Carry(v, w, None, None, g, FALSE, {}, TRUE))
  /\ UNCHANGED db

\* VehicleInput.apply: a field that is not sent keeps what was read.
GroupAsSent(v, g) == g
GroupApplied(v, g) == IF g = Keep THEN group[v] ELSE g

UpdateVehicleRead(r, v, g, w) ==
  /\ vState[v] = "live"
  /\ Begin(r, "UpdateVehicle", "checkGroup",
           Carry(v, w, driver[v], driverUser[v], GroupApplied(v, g), FALSE, {}, FALSE))
  /\ UNCHANGED db

GroupFound(g) == IF g = None THEN TRUE ELSE gState[g] = "live"

CheckGroup(r) ==
  /\ Go(r, "checkGroup", "setDriver")
  /\ GroupFound(local[r].group)
  /\ UNCHANGED <<db, local>>

CheckGroupRefuse(r) ==
  /\ pc[r] = "checkGroup"
  /\ ~GroupFound(local[r].group)
  /\ End(r)
  /\ UNCHANGED db

WriteLabel(r) == IF local[r].isNew THEN "insertVehicle" ELSE "replaceVehicle"

\* The copy with another driver and login; the driver asked for, the vehicles
\* found and the rest stay.
WithDriver(l, d, u) ==
  Carry(l.vehicle, l.want, d, u, l.group, l.active, l.found, l.isNew)

SetDriverKeep(r) ==
  /\ Go(r, "setDriver", WriteLabel(r))
  /\ local[r].want = Keep
  /\ UNCHANGED <<db, local>>

ClearDriverOnly(r) == Learn(r, WithDriver(local[r], None, local[r].user))
ClearHalves(r) == Learn(r, WithDriver(local[r], None, None))

SetDriverClear(r) ==
  /\ Go(r, "setDriver", WriteLabel(r))
  /\ local[r].want = None
  /\ ClearHalves(r)
  /\ UNCHANGED db

DriverUsable(d) == dState[d] = "live" /\ dActive[d]

SetDriverRefuse(r) ==
  /\ pc[r] = "setDriver"
  /\ local[r].want \in Drivers
  /\ ~DriverUsable(local[r].want)
  /\ End(r)
  /\ UNCHANGED db

\* Already this vehicle's driver: neither half is written again.
SetDriverSame(r) ==
  /\ Go(r, "setDriver", WriteLabel(r))
  /\ local[r].want \in Drivers
  /\ DriverUsable(local[r].want)
  /\ local[r].driver = local[r].want
  /\ UNCHANGED <<db, local>>

\* The two halves are copied from the one driver document read here.
SetDriverRead(r) ==
  /\ Go(r, "setDriver", "findOthers")
  /\ local[r].want \in Drivers
  /\ DriverUsable(local[r].want)
  /\ local[r].driver # local[r].want
  /\ Learn(r, WithDriver(local[r], local[r].want, dUser[local[r].want]))
  /\ UNCHANGED db

\* unpairDriverElsewhere: a Find, an UpdateMany with the same filter, and a
\* notice for each vehicle the Find returned.
NoneElsewhere(d, v) == {}
PairedElsewhere(d, v) == {u \in Vehicles \ {v} : driver[u] = d}

\* The copy with the vehicles a Find returned.
WithFound(l, f) ==
  Carry(l.vehicle, l.want, l.driver, l.user, l.group, l.active, f, l.isNew)

FindOthers(r) ==
  LET others == PairedElsewhere(local[r].want, local[r].vehicle)
  IN /\ Go(r, "findOthers", IF others = {} THEN WriteLabel(r) ELSE "unpair")
     /\ Learn(r, WithFound(local[r], others))
     /\ UNCHANGED db

Unpair(r) ==
  LET others == PairedElsewhere(local[r].want, local[r].vehicle)
  IN /\ Go(r, "unpair", "announceOthers")
     /\ driver' = [u \in Vehicles |-> IF u \in others THEN None ELSE driver[u]]
     /\ driverUser' =
          [u \in Vehicles |-> IF u \in others THEN None ELSE driverUser[u]]
     /\ Wrote(others)
     /\ UNCHANGED <<driverDocs, vState, group, gState, local>>

NoNotices(r) == Told({})
NoticesFor(r) == Told(local[r].found)

AnnounceOthers(r) ==
  /\ Go(r, "announceOthers", WriteLabel(r))
  /\ NoticesFor(r)
  /\ UNCHANGED <<driverDocs, vehicleDocs, gState, local>>

\* The insert and the replace write the same whole document; a document that
\* was deleted since the read is written back live.
WriteVehicle(r) ==
  LET v == local[r].vehicle
  IN /\ pc[r] \in {"insertVehicle", "replaceVehicle"}
     /\ pc' = [pc EXCEPT ![r] = "announce"]
     /\ vState' = [vState EXCEPT ![v] = "live"]
     /\ driver' = [driver EXCEPT ![v] = local[r].driver]
     /\ driverUser' = [driverUser EXCEPT ![v] = local[r].user]
     /\ group' = [group EXCEPT ![v] = local[r].group]
     /\ Wrote({v})
     /\ UNCHANGED <<driverDocs, gState, local>>

(***************************************************************************)
(* Retiring a vehicle.  What Fitting says of its devices is left out; its  *)
(* driver and its group stay on the retired document.                      *)
(***************************************************************************)
DeleteVehicleRead(r, v) ==
  /\ vState[v] = "live"
  /\ Begin(r, "DeleteVehicle", "deleteVehicle",
           Carry(v, None, None, None, None, FALSE, {}, FALSE))
  /\ UNCHANGED db

DeleteVehicleWrite(r) ==
  /\ Go(r, "deleteVehicle", "announce")
  /\ vState' = [vState EXCEPT ![local[r].vehicle] = "deleted"]
  /\ Wrote({local[r].vehicle})
  /\ UNCHANGED <<driverDocs, driver, driverUser, group, gState, local>>

-----------------------------------------------------------------------------
(***************************************************************************)
(* Drivers.                                                                *)
(***************************************************************************)
\* uq_driver_user: one live driver per login.
UserTaken(d, u) ==
  u # None /\ \E e \in Drivers \ {d} : dState[e] = "live" /\ dUser[e] = u

CreateDriver(r, d, u, a) ==
  /\ dState[d] = "absent"
  /\ ~UserTaken(d, u)
  /\ Begin(r, "CreateDriver", "announce",
           Carry(None, None, d, None, None, FALSE, {}, FALSE))
  /\ dState' = [dState EXCEPT ![d] = "live"]
  /\ dUser' = [dUser EXCEPT ![d] = u]
  /\ dActive' = [dActive EXCEPT ![d] = a]
  /\ Wrote({d})
  /\ UNCHANGED <<vehicleDocs, gState>>

\* DriverInput.apply: a login that is not sent is kept.
UserApplied(d, u) == IF u = Keep THEN dUser[d] ELSE u

UpdateDriverRead(r, d, u, a) ==
  /\ dState[d] = "live"
  /\ Begin(r, "UpdateDriver", "replaceDriver",
           Carry(None, None, d, UserApplied(d, u), None, a, {}, FALSE))
  /\ UNCHANGED db

UpdateDriverReplace(r) ==
  LET d == local[r].driver
  IN /\ Go(r, "replaceDriver", "announce")
     /\ ~UserTaken(d, local[r].user)
     /\ dState' = [dState EXCEPT ![d] = "live"]
     /\ dUser' = [dUser EXCEPT ![d] = local[r].user]
     /\ dActive' = [dActive EXCEPT ![d] = local[r].active]
     /\ Wrote({d})
     /\ UNCHANGED <<vehicleDocs, gState, local>>

UpdateDriverDuplicate(r) ==
  /\ pc[r] = "replaceDriver"
  /\ UserTaken(local[r].driver, local[r].user)
  /\ End(r)
  /\ UNCHANGED db

DeleteDriverRead(r, d) ==
  /\ dState[d] = "live"
  /\ Begin(r, "DeleteDriver", "deleteDriver",
           Carry(None, None, d, None, None, FALSE, {}, FALSE))
  /\ UNCHANGED db

DeleteDriverRetire(r) ==
  /\ Go(r, "deleteDriver", "release")
  /\ dState' = [dState EXCEPT ![local[r].driver] = "deleted"]
  /\ Wrote({local[r].driver})
  /\ UNCHANGED <<dActive, dUser, vehicleDocs, gState, local>>

\* The vehicles that name the driver are released, and none is announced.
ReleasesNobody(r) == {}
Releases(r) == {u \in Vehicles : driver[u] = local[r].driver}

DeleteDriverRelease(r) ==
  /\ Go(r, "release", "announce")
  /\ driver' = [u \in Vehicles |-> IF u \in Releases(r) THEN None ELSE driver[u]]
  /\ driverUser' =
       [u \in Vehicles |-> IF u \in Releases(r) THEN None ELSE driverUser[u]]
  /\ unannounced' = unannounced \cup Releases(r)
  /\ released' = released \cup (Releases(r) \ unannounced)
  /\ UNCHANGED <<driverDocs, vState, group, gState, local>>

-----------------------------------------------------------------------------
(***************************************************************************)
(* Vehicle groups, written through the catalogue service.                  *)
(***************************************************************************)
CreateGroup(r, g) ==
  /\ gState[g] = "absent"
  /\ Begin(r, "CreateGroup", "announce",
           Carry(None, None, None, None, g, FALSE, {}, FALSE))
  /\ gState' = [gState EXCEPT ![g] = "live"]
  /\ Wrote({g})
  /\ UNCHANGED <<driverDocs, vehicleDocs>>

UpdateGroupRead(r, g) ==
  /\ gState[g] = "live"
  /\ Begin(r, "UpdateGroup", "replaceGroup",
           Carry(None, None, None, None, g, FALSE, {}, FALSE))
  /\ UNCHANGED db

UpdateGroupReplace(r) ==
  /\ Go(r, "replaceGroup", "announce")
  /\ gState' = [gState EXCEPT ![local[r].group] = "live"]
  /\ Wrote({local[r].group})
  /\ UNCHANGED <<driverDocs, vehicleDocs, local>>

DeleteGroupRead(r, g) ==
  /\ gState[g] = "live"
  /\ Begin(r, "DeleteGroup", "deleteGroup",
           Carry(None, None, None, None, g, FALSE, {}, FALSE))
  /\ UNCHANGED db

DeleteGroupRetire(r) ==
  /\ Go(r, "deleteGroup", "findGrouped")
  /\ gState' = [gState EXCEPT ![local[r].group] = "deleted"]
  /\ Wrote({local[r].group})
  /\ UNCHANGED <<driverDocs, vehicleDocs, local>>

\* ungroupVehicles: a Find, an UpdateMany with the same filter, the notices.
NobodyIn(g) == {}
GroupedIn(g) == {u \in Vehicles : group[u] = g}

FindGrouped(r) ==
  LET members == GroupedIn(local[r].group)
  IN /\ Go(r, "findGrouped", IF members = {} THEN "announce" ELSE "ungroup")
     /\ Learn(r, WithFound(local[r], members))
     /\ UNCHANGED db

Ungroup(r) ==
  LET members == GroupedIn(local[r].group)
  IN /\ Go(r, "ungroup", "announceGrouped")
     /\ group' = [u \in Vehicles |-> IF u \in members THEN None ELSE group[u]]
     /\ Wrote(members)
     /\ UNCHANGED <<driverDocs, vState, driver, driverUser, gState, local>>

AnnounceGrouped(r) ==
  /\ Go(r, "announceGrouped", "announce")
  /\ NoticesFor(r)
  /\ UNCHANGED <<driverDocs, vehicleDocs, gState, local>>

-----------------------------------------------------------------------------
\* The notice about the request's own document, and the answer.
Subject(r) ==
  IF local[r].vehicle # None THEN local[r].vehicle
  ELSE IF local[r].driver # None THEN local[r].driver
  ELSE local[r].group

Announce(r) ==
  /\ \/ pc[r] = "announce" /\ End(r)
     \/ pc[r] = "announceAnyway" /\ Leave(r, "failed")
  /\ Told({Subject(r)})
  /\ UNCHANGED <<driverDocs, vehicleDocs, gState>>

\* The process or its connection dies, or the database refuses a statement (a
\* plate already taken): what was written before stays.
Fail(r) ==
  /\ CanFail
  /\ pc[r] \notin {"idle", "failed"}
  /\ Leave(r, "failed")
  /\ UNCHANGED db

\* A failed release, or a failed statement of ungroupVehicles, does not stop the
\* request: the retirement is announced all the same.
GoesOn(r) ==
  /\ CanFail
  /\ pc[r] \in {"release", "findGrouped", "ungroup"}
  /\ pc' = [pc EXCEPT ![r] = "announceAnyway"]
  /\ UNCHANGED <<db, local>>

VehicleSteps(r) ==
  \/ \E v \in Vehicles, g \in Groups \cup {None}, w \in Drivers \cup {None, Keep} :
       CreateVehicle(r, v, g, w)
  \/ \E v \in Vehicles, g \in Groups \cup {None, Keep}, w \in Drivers \cup {None, Keep} :
       UpdateVehicleRead(r, v, g, w)
  \/ CheckGroup(r) \/ CheckGroupRefuse(r)
  \/ SetDriverKeep(r) \/ SetDriverClear(r) \/ SetDriverRefuse(r)
  \/ SetDriverSame(r) \/ SetDriverRead(r)
  \/ FindOthers(r) \/ Unpair(r) \/ AnnounceOthers(r) \/ WriteVehicle(r)
  \/ \E v \in Vehicles : DeleteVehicleRead(r, v)
  \/ DeleteVehicleWrite(r)

DriverSteps(r) ==
  \/ \E d \in Drivers, u \in Users \cup {None}, a \in BOOLEAN : CreateDriver(r, d, u, a)
  \/ \E d \in Drivers, u \in Users \cup {None, Keep}, a \in BOOLEAN :
       UpdateDriverRead(r, d, u, a)
  \/ UpdateDriverReplace(r) \/ UpdateDriverDuplicate(r)
  \/ \E d \in Drivers : DeleteDriverRead(r, d)
  \/ DeleteDriverRetire(r) \/ DeleteDriverRelease(r)

GroupSteps(r) ==
  \/ \E g \in Groups : CreateGroup(r, g) \/ UpdateGroupRead(r, g) \/ DeleteGroupRead(r, g)
  \/ UpdateGroupReplace(r) \/ DeleteGroupRetire(r)
  \/ FindGrouped(r) \/ Ungroup(r) \/ AnnounceGrouped(r)

Step(r) ==
  \/ VehicleSteps(r) \/ DriverSteps(r) \/ GroupSteps(r)
  \/ Announce(r) \/ Fail(r) \/ GoesOn(r)

Next == \E r \in Requests : Step(r)

Spec == Init /\ [][Next]_vars

\* Requests come one at a time: each begins when the one before has answered,
\* or has failed.
Alone(r) == \A q \in Requests \ {r} : pc[q] \in {"idle", "failed"}

OneByOne == Init /\ [][\E r \in Requests : Alone(r) /\ Step(r)]_vars

-----------------------------------------------------------------------------
(***************************************************************************)
(* What must hold.                                                         *)
(***************************************************************************)
Quiet == \A r \in Requests : pc[r] = "idle"

\* The two halves of a vehicle's driver agree (registry.go:548, "so the two
\* cannot disagree"): the login it names is the login of the driver it names,
\* and a vehicle without a driver names no login.
HalvesAgree ==
  \A v \in Vehicles :
    driverUser[v] = (IF driver[v] = None THEN None ELSE dUser[driver[v]])

\* No two vehicles in service claim the same driver (setDriver: "One truck per
\* driver").
OneTruckPerDriver ==
  \A v, w \in Vehicles :
    /\ vState[v] = "live" /\ vState[w] = "live"
    /\ driver[v] = driver[w] /\ driver[v] # None
    => v = w

\* When no request is in flight and none has failed, no vehicle names a driver
\* that was retired (DeleteDriver: "no truck keeps naming a driver that no longer exists").
NoRetiredDriverNamed ==
  Quiet => \A v \in Vehicles : driver[v] # None => dState[driver[v]] = "live"

\* When no request is in flight and none has failed, no vehicle points at a group
\* that is not there (checkGroup's comment, registry.go:1140).
GroupIsThere ==
  Quiet => \A v \in Vehicles : group[v] # None => gState[group[v]] = "live"

\* When no request is in flight, everything written has been announced since
\* (registry.go:49, "every vehicle and driver write is announced on").
EveryWriteAnnounced == Quiet => unannounced = {}

\* The same with the one exception the code makes: when no request is in flight
\* and none has failed, what was written and not announced since is a vehicle from
\* which DeleteDriver took its driver (registry.go:280) and of which nothing else
\* was written unannounced, before or after.
AllButReleasesAnnounced == Quiet => unannounced \subseteq released
=============================================================================
