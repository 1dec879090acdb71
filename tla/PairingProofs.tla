---------------------------- MODULE PairingProofs ----------------------------
(***************************************************************************)
(* Theorems about Pairing, for any number of requests, drivers, vehicles   *)
(* and groups, with requests interleaved and failing at will.              *)
(***************************************************************************)
EXTENDS Pairing, TLAPS

(***************************************************************************)
(* What a request carries at a label.                                      *)
(***************************************************************************)
WriteLabels == {"checkGroup", "setDriver", "findOthers", "unpair",
                "announceOthers", "insertVehicle", "replaceVehicle"}

Fits(at, l) ==
  /\ at \in WriteLabels \cup {"deleteVehicle"} => l.vehicle \in Vehicles
  /\ at \in {"findOthers", "unpair", "announceOthers"} => l.want \in Drivers
  /\ at \in {"replaceDriver", "deleteDriver", "release"} => l.driver \in Drivers
  /\ at \in {"replaceGroup", "deleteGroup", "findGrouped", "ungroup"} => l.group \in Groups

LocalOK == \A r \in Requests : Fits(pc[r], local[r])

TypeInv == TypeOK /\ LocalOK

LEMMA LocalFields ==
  ASSUME NEW l \in Local
  PROVE  /\ l.vehicle \in Vehicles \cup {None} /\ l.want \in Drivers \cup {None, Keep}
         /\ l.driver \in Drivers \cup {None} /\ l.user \in Users \cup {None}
         /\ l.group \in Groups \cup {None} /\ l.active \in BOOLEAN
         /\ l.found \in SUBSET Vehicles /\ l.isNew \in BOOLEAN
  BY DEF Local

\* Setting the driver and its login keeps the rest of what is carried.
LEMMA WithDriverType ==
  ASSUME NEW l \in Local, NEW d \in Drivers \cup {None}, NEW u \in Users \cup {None}
  PROVE  /\ WithDriver(l, d, u) \in Local
         /\ WithDriver(l, d, u).vehicle = l.vehicle
         /\ WithDriver(l, d, u).want = l.want
         /\ WithDriver(l, d, u).driver = d
         /\ WithDriver(l, d, u).user = u
         /\ WithDriver(l, d, u).group = l.group
         /\ WithDriver(l, d, u).isNew = l.isNew
<1>1. /\ l.vehicle \in Vehicles \cup {None} /\ l.want \in Drivers \cup {None, Keep}
      /\ l.group \in Groups \cup {None} /\ l.active \in BOOLEAN
      /\ l.found \in SUBSET Vehicles /\ l.isNew \in BOOLEAN
  BY LocalFields
<1> QED
  BY <1>1 DEF WithDriver, Carry, Local

\* Keeping what a Find returned keeps the rest of what is carried.
LEMMA WithFoundType ==
  ASSUME NEW l \in Local, NEW f \in SUBSET Vehicles
  PROVE  /\ WithFound(l, f) \in Local
         /\ WithFound(l, f).vehicle = l.vehicle
         /\ WithFound(l, f).want = l.want
         /\ WithFound(l, f).driver = l.driver
         /\ WithFound(l, f).user = l.user
         /\ WithFound(l, f).group = l.group
         /\ WithFound(l, f).found = f
         /\ WithFound(l, f).isNew = l.isNew
<1>1. /\ l.vehicle \in Vehicles \cup {None} /\ l.want \in Drivers \cup {None, Keep}
      /\ l.driver \in Drivers \cup {None} /\ l.user \in Users \cup {None}
      /\ l.group \in Groups \cup {None} /\ l.active \in BOOLEAN
      /\ l.isNew \in BOOLEAN
  BY LocalFields
<1> QED
  BY <1>1 DEF WithFound, Carry, Local

LEMMA NoLocalType == NoLocal \in Local
  BY DEF NoLocal, Carry, Local

(***************************************************************************)
(* The four ways a request moves.                                          *)
(***************************************************************************)
LEMMA BeginType ==
  ASSUME TypeInv, NEW r \in Requests, NEW op, NEW to \in Labels, NEW l \in Local,
         Begin(r, op, to, l), Fits(to, l)
  PROVE  pc' \in [Requests -> Labels] /\ local' \in [Requests -> Local] /\ LocalOK'
  BY DEF TypeInv, TypeOK, LocalOK, Begin, Go, Learn

LEMMA LeaveType ==
  ASSUME TypeInv, NEW r \in Requests, NEW to \in {"idle", "failed"}, Leave(r, to)
  PROVE  pc' \in [Requests -> Labels] /\ local' \in [Requests -> Local] /\ LocalOK'
<1>1. Fits(to, NoLocal) /\ to \in Labels
  BY DEF Fits, WriteLabels, Labels
<1> QED
  BY <1>1, NoLocalType DEF TypeInv, TypeOK, LocalOK, Leave, Learn

LEMMA EndType ==
  ASSUME TypeInv, NEW r \in Requests, End(r)
  PROVE  pc' \in [Requests -> Labels] /\ local' \in [Requests -> Local] /\ LocalOK'
  BY LeaveType DEF End

LEMMA GoType ==
  ASSUME TypeInv, NEW r \in Requests, NEW from, NEW to \in Labels,
         Go(r, from, to), UNCHANGED local, Fits(from, local[r]) => Fits(to, local[r])
  PROVE  pc' \in [Requests -> Labels] /\ local' \in [Requests -> Local] /\ LocalOK'
  BY DEF TypeInv, TypeOK, LocalOK, Go

LEMMA LearnType ==
  ASSUME TypeInv, NEW r \in Requests, NEW from, NEW to \in Labels, NEW l \in Local,
         Go(r, from, to), Learn(r, l), Fits(to, l)
  PROVE  pc' \in [Requests -> Labels] /\ local' \in [Requests -> Local] /\ LocalOK'
  BY DEF TypeInv, TypeOK, LocalOK, Go, Learn

-----------------------------------------------------------------------------
(***************************************************************************)
(* Type correctness, one lemma per group of actions.                       *)
(***************************************************************************)
LEMMA VehicleTypes ==
  ASSUME TypeInv, NEW r \in Requests, VehicleSteps(r)
  PROVE  TypeInv'
<1>1. ASSUME NEW v \in Vehicles, NEW g \in Groups \cup {None},
             NEW w \in Drivers \cup {None, Keep},
             CreateVehicle(r, v, g, w)
      PROVE  TypeInv'
  <2> DEFINE l == Carry(v, w, None, None, g, FALSE, {}, TRUE)
  <2>1. l \in Local /\ Fits("checkGroup", l)
    BY DEF Carry, Local, Fits, WriteLabels
  <2>2. Begin(r, "CreateVehicle", "checkGroup", l)
    BY <1>1 DEF CreateVehicle
  <2> HIDE DEF l
  <2>3. pc' \in [Requests -> Labels] /\ local' \in [Requests -> Local] /\ LocalOK'
    BY <2>1, <2>2, BeginType DEF Labels
  <2> QED
    BY <1>1, <2>3 DEF CreateVehicle, TypeInv, TypeOK, db, driverDocs, vehicleDocs, DocStates
<1>2. ASSUME NEW v \in Vehicles, NEW g \in Groups \cup {None, Keep},
             NEW w \in Drivers \cup {None, Keep},
             UpdateVehicleRead(r, v, g, w)
      PROVE  TypeInv'
  <2> DEFINE l == Carry(v, w, driver[v], driverUser[v], GroupApplied(v, g), FALSE, {}, FALSE)
  <2>1. l \in Local /\ Fits("checkGroup", l)
    BY DEF Carry, Local, Fits, WriteLabels, GroupApplied, TypeInv, TypeOK
  <2>2. Begin(r, "UpdateVehicle", "checkGroup", l)
    BY <1>2 DEF UpdateVehicleRead
  <2> HIDE DEF l
  <2>3. pc' \in [Requests -> Labels] /\ local' \in [Requests -> Local] /\ LocalOK'
    BY <2>1, <2>2, BeginType DEF Labels
  <2> QED
    BY <1>2, <2>3 DEF UpdateVehicleRead, TypeInv, TypeOK, db, driverDocs, vehicleDocs, DocStates
<1>3. CASE CheckGroup(r)
  <2>1. pc' \in [Requests -> Labels] /\ local' \in [Requests -> Local] /\ LocalOK'
    BY <1>3, GoType DEF CheckGroup, Fits, WriteLabels, WriteLabel, Labels
  <2> QED
    BY <1>3, <2>1 DEF CheckGroup, TypeInv, TypeOK, db, driverDocs, vehicleDocs, DocStates
<1>4. CASE CheckGroupRefuse(r)
  BY <1>4, EndType DEF CheckGroupRefuse, TypeInv, TypeOK, db, driverDocs, vehicleDocs
<1>5. CASE SetDriverKeep(r)
  <2>1. pc' \in [Requests -> Labels] /\ local' \in [Requests -> Local] /\ LocalOK'
    BY <1>5, GoType DEF SetDriverKeep, Fits, WriteLabels, WriteLabel, Labels
  <2> QED
    BY <1>5, <2>1 DEF SetDriverKeep, TypeInv, TypeOK, db, driverDocs, vehicleDocs, DocStates
<1>6. CASE SetDriverClear(r)
  <2> DEFINE l == WithDriver(local[r], None, None)
  <2>0. local[r] \in Local /\ None \in Drivers \cup {None} /\ None \in Users \cup {None}
    BY DEF TypeInv, TypeOK
  <2>1. l \in Local /\ l.vehicle = local[r].vehicle
    BY <2>0, WithDriverType
  <2>2. Go(r, "setDriver", WriteLabel(r)) /\ Learn(r, l) /\ local[r].vehicle \in Vehicles
    BY <1>6 DEF SetDriverClear, ClearHalves, Go, TypeInv, LocalOK, Fits, WriteLabels
  <2>3. WriteLabel(r) \in Labels /\ Fits(WriteLabel(r), l)
    BY <2>1, <2>2 DEF WriteLabel, Labels, Fits, WriteLabels
  <2> HIDE DEF l
  <2>4. pc' \in [Requests -> Labels] /\ local' \in [Requests -> Local] /\ LocalOK'
    BY <2>1, <2>2, <2>3, LearnType
  <2> QED
    BY <1>6, <2>4 DEF SetDriverClear, TypeInv, TypeOK, db
<1>7. CASE SetDriverRefuse(r)
  BY <1>7, EndType DEF SetDriverRefuse, TypeInv, TypeOK, db, driverDocs, vehicleDocs
<1>8. CASE SetDriverSame(r)
  <2>1. pc' \in [Requests -> Labels] /\ local' \in [Requests -> Local] /\ LocalOK'
    BY <1>8, GoType DEF SetDriverSame, Fits, WriteLabels, WriteLabel, Labels
  <2> QED
    BY <1>8, <2>1 DEF SetDriverSame, TypeInv, TypeOK, db, driverDocs, vehicleDocs, DocStates
<1>9. CASE SetDriverRead(r)
  <2> DEFINE l == WithDriver(local[r], local[r].want, dUser[local[r].want])
  <2>0. local[r].want \in Drivers /\ dUser[local[r].want] \in Users \cup {None}
        /\ local[r] \in Local
    BY <1>9 DEF SetDriverRead, TypeInv, TypeOK
  <2>1. l \in Local /\ l.vehicle = local[r].vehicle /\ l.want = local[r].want
    BY <2>0, WithDriverType
  <2>2. Go(r, "setDriver", "findOthers") /\ Learn(r, l) /\ local[r].vehicle \in Vehicles
    BY <1>9 DEF SetDriverRead, Go, TypeInv, LocalOK, Fits, WriteLabels
  <2>3. "findOthers" \in Labels /\ Fits("findOthers", l)
    BY <2>0, <2>1, <2>2 DEF Labels, Fits, WriteLabels
  <2> HIDE DEF l
  <2>4. pc' \in [Requests -> Labels] /\ local' \in [Requests -> Local] /\ LocalOK'
    BY <2>1, <2>2, <2>3, LearnType
  <2> QED
    BY <1>9, <2>4 DEF SetDriverRead, TypeInv, TypeOK, db
<1>10. CASE FindOthers(r)
  <2> DEFINE f == PairedElsewhere(local[r].want, local[r].vehicle)
             l == WithFound(local[r], f)
             to == IF f = {} THEN WriteLabel(r) ELSE "unpair"
  <2>0. f \in SUBSET Vehicles /\ local[r] \in Local
    BY DEF PairedElsewhere, TypeInv, TypeOK
  <2> HIDE DEF f
  <2>1. l \in Local /\ l.vehicle = local[r].vehicle /\ l.want = local[r].want
    BY <2>0, WithFoundType
  <2>2. Go(r, "findOthers", to) /\ Learn(r, l) /\ local[r].vehicle \in Vehicles
        /\ local[r].want \in Drivers
    BY <1>10 DEF FindOthers, Go, TypeInv, LocalOK, Fits, WriteLabels, f
  <2>3. to \in Labels /\ Fits(to, l)
    BY <2>1, <2>2 DEF WriteLabel, Labels, Fits, WriteLabels
  <2> HIDE DEF l, to
  <2>4. pc' \in [Requests -> Labels] /\ local' \in [Requests -> Local] /\ LocalOK'
    BY <2>1, <2>2, <2>3, LearnType
  <2> QED
    BY <1>10, <2>4 DEF FindOthers, TypeInv, TypeOK, db
<1>11. CASE Unpair(r)
  <2>1. pc' \in [Requests -> Labels] /\ local' \in [Requests -> Local] /\ LocalOK'
    BY <1>11, GoType DEF Unpair, Fits, WriteLabels, WriteLabel, Labels
  <2> QED
    BY <1>11, <2>1 DEF Wrote, Unpair, TypeInv, TypeOK, db, driverDocs, vehicleDocs, DocStates, PairedElsewhere
<1>12. CASE AnnounceOthers(r)
  <2>1. pc' \in [Requests -> Labels] /\ local' \in [Requests -> Local] /\ LocalOK'
    BY <1>12, GoType DEF AnnounceOthers, Fits, WriteLabels, WriteLabel, Labels
  <2> QED
    BY <1>12, <2>1 DEF Told, AnnounceOthers, TypeInv, TypeOK, db, driverDocs, vehicleDocs, DocStates, NoticesFor
<1>13. CASE WriteVehicle(r)
  <2>1. pc' \in [Requests -> Labels] /\ local' \in [Requests -> Local] /\ LocalOK'
    BY <1>13 DEF WriteVehicle, TypeInv, TypeOK, LocalOK, Fits, WriteLabels, Labels
  <2>2. local[r].vehicle \in Vehicles /\ local[r] \in Local
    BY <1>13 DEF WriteVehicle, TypeInv, TypeOK, LocalOK, Fits, WriteLabels
  <2>3. local[r].driver \in Drivers \cup {None} /\ local[r].user \in Users \cup {None}
        /\ local[r].group \in Groups \cup {None}
    BY <2>2, LocalFields
  <2> QED
    BY <1>13, <2>1, <2>2, <2>3 DEF Wrote, WriteVehicle, TypeInv, TypeOK, driverDocs, DocStates
<1>14. ASSUME NEW v \in Vehicles,
             DeleteVehicleRead(r, v)
      PROVE  TypeInv'
  <2> DEFINE l == Carry(v, None, None, None, None, FALSE, {}, FALSE)
  <2>1. l \in Local /\ Fits("deleteVehicle", l)
    BY DEF Carry, Local, Fits, WriteLabels
  <2>2. Begin(r, "DeleteVehicle", "deleteVehicle", l)
    BY <1>14 DEF DeleteVehicleRead
  <2> HIDE DEF l
  <2>3. pc' \in [Requests -> Labels] /\ local' \in [Requests -> Local] /\ LocalOK'
    BY <2>1, <2>2, BeginType DEF Labels
  <2> QED
    BY <1>14, <2>3 DEF DeleteVehicleRead, TypeInv, TypeOK, db, driverDocs, vehicleDocs, DocStates
<1>15. CASE DeleteVehicleWrite(r)
  <2>1. pc' \in [Requests -> Labels] /\ local' \in [Requests -> Local] /\ LocalOK'
    BY <1>15, GoType DEF DeleteVehicleWrite, Fits, WriteLabels, Labels
  <2>2. local[r].vehicle \in Vehicles
    BY <1>15 DEF DeleteVehicleWrite, Go, TypeInv, LocalOK, Fits
  <2> QED
    BY <1>15, <2>1, <2>2 DEF Wrote, DeleteVehicleWrite, TypeInv, TypeOK, driverDocs, DocStates
<1> QED
  BY <1>1, <1>2, <1>3, <1>4, <1>5, <1>6, <1>7, <1>8, <1>9, <1>10, <1>11, <1>12,
     <1>13, <1>14, <1>15 DEF VehicleSteps

LEMMA DriverTypes ==
  ASSUME TypeInv, NEW r \in Requests, DriverSteps(r)
  PROVE  TypeInv'
<1>1. ASSUME NEW d \in Drivers, NEW u \in Users \cup {None}, NEW a \in BOOLEAN,
             CreateDriver(r, d, u, a)
      PROVE  TypeInv'
  <2> DEFINE l == Carry(None, None, d, None, None, FALSE, {}, FALSE)
  <2>1. l \in Local /\ Fits("announce", l)
    BY DEF Carry, Local, Fits, WriteLabels
  <2>2. Begin(r, "CreateDriver", "announce", l)
    BY <1>1 DEF CreateDriver
  <2> HIDE DEF l
  <2>3. pc' \in [Requests -> Labels] /\ local' \in [Requests -> Local] /\ LocalOK'
    BY <2>1, <2>2, BeginType DEF Labels
  <2> QED
    BY <1>1, <2>3 DEF Wrote, CreateDriver, TypeInv, TypeOK, db, driverDocs, vehicleDocs, DocStates
<1>2. ASSUME NEW d \in Drivers, NEW u \in Users \cup {None, Keep}, NEW a \in BOOLEAN,
             UpdateDriverRead(r, d, u, a)
      PROVE  TypeInv'
  <2> DEFINE l == Carry(None, None, d, UserApplied(d, u), None, a, {}, FALSE)
  <2>1. l \in Local /\ Fits("replaceDriver", l)
    BY DEF Carry, Local, Fits, WriteLabels, UserApplied, TypeInv, TypeOK
  <2>2. Begin(r, "UpdateDriver", "replaceDriver", l)
    BY <1>2 DEF UpdateDriverRead
  <2> HIDE DEF l
  <2>3. pc' \in [Requests -> Labels] /\ local' \in [Requests -> Local] /\ LocalOK'
    BY <2>1, <2>2, BeginType DEF Labels
  <2> QED
    BY <1>2, <2>3 DEF UpdateDriverRead, TypeInv, TypeOK, db, driverDocs, vehicleDocs, DocStates
<1>3. CASE UpdateDriverReplace(r)
  <2>1. pc' \in [Requests -> Labels] /\ local' \in [Requests -> Local] /\ LocalOK'
    BY <1>3, GoType DEF UpdateDriverReplace, Fits, WriteLabels, Labels
  <2>2. local[r].driver \in Drivers /\ local[r] \in Local
    BY <1>3 DEF UpdateDriverReplace, Go, TypeInv, TypeOK, LocalOK, Fits
  <2>3. local[r].user \in Users \cup {None} /\ local[r].active \in BOOLEAN
    BY <2>2, LocalFields
  <2> QED
    BY <1>3, <2>1, <2>2, <2>3 DEF Wrote, UpdateDriverReplace, TypeInv, TypeOK, vehicleDocs, DocStates
<1>4. CASE UpdateDriverDuplicate(r)
  BY <1>4, EndType DEF UpdateDriverDuplicate, TypeInv, TypeOK, db, driverDocs, vehicleDocs
<1>5. ASSUME NEW d \in Drivers,
             DeleteDriverRead(r, d)
      PROVE  TypeInv'
  <2> DEFINE l == Carry(None, None, d, None, None, FALSE, {}, FALSE)
  <2>1. l \in Local /\ Fits("deleteDriver", l)
    BY DEF Carry, Local, Fits, WriteLabels
  <2>2. Begin(r, "DeleteDriver", "deleteDriver", l)
    BY <1>5 DEF DeleteDriverRead
  <2> HIDE DEF l
  <2>3. pc' \in [Requests -> Labels] /\ local' \in [Requests -> Local] /\ LocalOK'
    BY <2>1, <2>2, BeginType DEF Labels
  <2> QED
    BY <1>5, <2>3 DEF DeleteDriverRead, TypeInv, TypeOK, db, driverDocs, vehicleDocs, DocStates
<1>6. CASE DeleteDriverRetire(r)
  <2>1. pc' \in [Requests -> Labels] /\ local' \in [Requests -> Local] /\ LocalOK'
    BY <1>6, GoType DEF DeleteDriverRetire, Fits, WriteLabels, Labels
  <2>2. local[r].driver \in Drivers
    BY <1>6 DEF DeleteDriverRetire, Go, TypeInv, LocalOK, Fits
  <2> QED
    BY <1>6, <2>1, <2>2 DEF Wrote, DeleteDriverRetire, TypeInv, TypeOK, vehicleDocs, DocStates
<1>7. CASE DeleteDriverRelease(r)
  <2>1. pc' \in [Requests -> Labels] /\ local' \in [Requests -> Local] /\ LocalOK'
    BY <1>7, GoType DEF DeleteDriverRelease, Fits, WriteLabels, WriteLabel, Labels
  <2> QED
    BY <1>7, <2>1 DEF DeleteDriverRelease, TypeInv, TypeOK, db, driverDocs, vehicleDocs, DocStates, Releases
<1> QED
  BY <1>1, <1>2, <1>3, <1>4, <1>5, <1>6, <1>7 DEF DriverSteps

LEMMA GroupTypes ==
  ASSUME TypeInv, NEW r \in Requests, GroupSteps(r)
  PROVE  TypeInv'
<1>1. ASSUME NEW g \in Groups,
             CreateGroup(r, g)
      PROVE  TypeInv'
  <2> DEFINE l == Carry(None, None, None, None, g, FALSE, {}, FALSE)
  <2>1. l \in Local /\ Fits("announce", l)
    BY DEF Carry, Local, Fits, WriteLabels
  <2>2. Begin(r, "CreateGroup", "announce", l)
    BY <1>1 DEF CreateGroup
  <2> HIDE DEF l
  <2>3. pc' \in [Requests -> Labels] /\ local' \in [Requests -> Local] /\ LocalOK'
    BY <2>1, <2>2, BeginType DEF Labels
  <2> QED
    BY <1>1, <2>3 DEF Wrote, CreateGroup, TypeInv, TypeOK, db, driverDocs, vehicleDocs, DocStates
<1>2. ASSUME NEW g \in Groups,
             UpdateGroupRead(r, g)
      PROVE  TypeInv'
  <2> DEFINE l == Carry(None, None, None, None, g, FALSE, {}, FALSE)
  <2>1. l \in Local /\ Fits("replaceGroup", l)
    BY DEF Carry, Local, Fits, WriteLabels
  <2>2. Begin(r, "UpdateGroup", "replaceGroup", l)
    BY <1>2 DEF UpdateGroupRead
  <2> HIDE DEF l
  <2>3. pc' \in [Requests -> Labels] /\ local' \in [Requests -> Local] /\ LocalOK'
    BY <2>1, <2>2, BeginType DEF Labels
  <2> QED
    BY <1>2, <2>3 DEF UpdateGroupRead, TypeInv, TypeOK, db, driverDocs, vehicleDocs, DocStates
<1>3. ASSUME NEW g \in Groups,
             DeleteGroupRead(r, g)
      PROVE  TypeInv'
  <2> DEFINE l == Carry(None, None, None, None, g, FALSE, {}, FALSE)
  <2>1. l \in Local /\ Fits("deleteGroup", l)
    BY DEF Carry, Local, Fits, WriteLabels
  <2>2. Begin(r, "DeleteGroup", "deleteGroup", l)
    BY <1>3 DEF DeleteGroupRead
  <2> HIDE DEF l
  <2>3. pc' \in [Requests -> Labels] /\ local' \in [Requests -> Local] /\ LocalOK'
    BY <2>1, <2>2, BeginType DEF Labels
  <2> QED
    BY <1>3, <2>3 DEF DeleteGroupRead, TypeInv, TypeOK, db, driverDocs, vehicleDocs, DocStates
<1>4. CASE UpdateGroupReplace(r)
  <2>1. pc' \in [Requests -> Labels] /\ local' \in [Requests -> Local] /\ LocalOK'
    BY <1>4, GoType DEF UpdateGroupReplace, Fits, WriteLabels, Labels
  <2>2. local[r].group \in Groups
    BY <1>4 DEF UpdateGroupReplace, Go, TypeInv, LocalOK, Fits
  <2> QED
    BY <1>4, <2>1, <2>2 DEF Wrote, UpdateGroupReplace, TypeInv, TypeOK, driverDocs, vehicleDocs, DocStates
<1>5. CASE DeleteGroupRetire(r)
  <2>1. pc' \in [Requests -> Labels] /\ local' \in [Requests -> Local] /\ LocalOK'
    BY <1>5, GoType DEF DeleteGroupRetire, Fits, WriteLabels, Labels
  <2>2. local[r].group \in Groups
    BY <1>5 DEF DeleteGroupRetire, Go, TypeInv, LocalOK, Fits
  <2> QED
    BY <1>5, <2>1, <2>2 DEF Wrote, DeleteGroupRetire, TypeInv, TypeOK, driverDocs, vehicleDocs, DocStates
<1>6. CASE FindGrouped(r)
  <2> DEFINE f == GroupedIn(local[r].group)
             l == WithFound(local[r], f)
             to == IF f = {} THEN "announce" ELSE "ungroup"
  <2>0. f \in SUBSET Vehicles /\ local[r] \in Local
    BY DEF GroupedIn, TypeInv, TypeOK
  <2> HIDE DEF f
  <2>1. l \in Local /\ l.group = local[r].group
    BY <2>0, WithFoundType
  <2>2. Go(r, "findGrouped", to) /\ Learn(r, l) /\ local[r].group \in Groups
    BY <1>6 DEF FindGrouped, Go, TypeInv, LocalOK, Fits, f
  <2>3. to \in Labels /\ Fits(to, l)
    BY <2>1, <2>2 DEF Labels, Fits, WriteLabels
  <2> HIDE DEF l, to
  <2>4. pc' \in [Requests -> Labels] /\ local' \in [Requests -> Local] /\ LocalOK'
    BY <2>1, <2>2, <2>3, LearnType
  <2> QED
    BY <1>6, <2>4 DEF FindGrouped, TypeInv, TypeOK, db
<1>7. CASE Ungroup(r)
  <2>1. pc' \in [Requests -> Labels] /\ local' \in [Requests -> Local] /\ LocalOK'
    BY <1>7, GoType DEF Ungroup, Fits, WriteLabels, WriteLabel, Labels
  <2> QED
    BY <1>7, <2>1 DEF Wrote, Ungroup, TypeInv, TypeOK, db, driverDocs, vehicleDocs, DocStates, GroupedIn
<1>8. CASE AnnounceGrouped(r)
  <2>1. pc' \in [Requests -> Labels] /\ local' \in [Requests -> Local] /\ LocalOK'
    BY <1>8, GoType DEF AnnounceGrouped, Fits, WriteLabels, WriteLabel, Labels
  <2> QED
    BY <1>8, <2>1 DEF Told, AnnounceGrouped, TypeInv, TypeOK, db, driverDocs, vehicleDocs, DocStates, NoticesFor
<1> QED
  BY <1>1, <1>2, <1>3, <1>4, <1>5, <1>6, <1>7, <1>8 DEF GroupSteps

LEMMA TypeStep == TypeInv /\ [Next]_vars => TypeInv'
<1> SUFFICES ASSUME TypeInv, [Next]_vars PROVE TypeInv'
  OBVIOUS
<1>1. CASE UNCHANGED vars
  BY <1>1 DEF vars, TypeInv, TypeOK, LocalOK
<1>2. ASSUME NEW r \in Requests, Announce(r) \/ Fail(r)
      PROVE  TypeInv'
  <2>1. pc' \in [Requests -> Labels] /\ local' \in [Requests -> Local] /\ LocalOK'
    BY <1>2, EndType, LeaveType DEF Announce, Fail
  <2> QED
    BY <1>2, <2>1 DEF Told, Announce, Fail, TypeInv, TypeOK, db, driverDocs, vehicleDocs
<1>3. ASSUME NEW r \in Requests, GoesOn(r)
      PROVE  TypeInv'
  <2>1. Go(r, pc[r], "announceAnyway")
    BY <1>3 DEF GoesOn, Go
  <2>2. pc' \in [Requests -> Labels] /\ local' \in [Requests -> Local] /\ LocalOK'
    BY <1>3, <2>1, GoType DEF GoesOn, Fits, WriteLabels, Labels
  <2> QED
    BY <1>3, <2>2 DEF GoesOn, TypeInv, TypeOK, db
<1> QED
  BY <1>1, <1>2, <1>3, VehicleTypes, DriverTypes, GroupTypes DEF Next, Step

LEMMA TypeInit == Init => TypeInv
  BY NoLocalType DEF Init, TypeInv, TypeOK, LocalOK, Fits, WriteLabels, DocStates, Labels

\* Every reachable state is well typed: whatever a request kept from an earlier
\* read, the documents it writes have the types of the model.
THEOREM PairingTypes == Spec => []TypeOK
<1>1. TypeInv => TypeOK
  BY DEF TypeInv
<1> QED
  BY <1>1, TypeInit, TypeStep, PTL DEF Spec

-----------------------------------------------------------------------------
(***************************************************************************)
(* The two halves.  The invariant speaks of the copies in flight as well   *)
(* as of the documents, because a replace writes a copy made earlier; and  *)
(* it says that a driver somebody names was created, because creating a    *)
(* driver is the one step left that gives a driver a login.                *)
(***************************************************************************)
Named(d) == d # None => dState[d] # "absent"

UserOf(d) == IF d = None THEN None ELSE dUser[d]

CopyAgrees(r) ==
  pc[r] \in WriteLabels =>
    Named(local[r].driver) /\ local[r].user = UserOf(local[r].driver)

VehiclesAgree ==
  \A v \in Vehicles : Named(driver[v]) /\ driverUser[v] = UserOf(driver[v])

HalvesInv ==
  /\ TypeInv
  /\ VehiclesAgree
  /\ \A r \in Requests : CopyAgrees(r) /\ pc[r] # "replaceDriver"

\* No driver loses its document, and none that has one changes its login.
DriversKept ==
  \A d \in Drivers : dState[d] # "absent" =>
    dState'[d] # "absent" /\ dUser'[d] = dUser[d]

\* The documents still agree when no vehicle is written.
LEMMA SameVehicles ==
  ASSUME HalvesInv, DriversKept, UNCHANGED <<driver, driverUser>>
  PROVE  VehiclesAgree'
<1>1. \A v \in Vehicles : driver[v] \in Drivers \cup {None}
  BY DEF HalvesInv, TypeInv, TypeOK
<1> QED
  BY <1>1 DEF HalvesInv, VehiclesAgree, DriversKept, Named, UserOf

\* ... and when some vehicles lose their driver and its login together.
LEMMA ClearedVehicles ==
  ASSUME HalvesInv, DriversKept, NEW S \in SUBSET Vehicles,
         driver' = [u \in Vehicles |-> IF u \in S THEN None ELSE driver[u]],
         driverUser' = [u \in Vehicles |-> IF u \in S THEN None ELSE driverUser[u]]
  PROVE  VehiclesAgree'
<1>1. \A v \in Vehicles : driver[v] \in Drivers \cup {None}
  BY DEF HalvesInv, TypeInv, TypeOK
<1> QED
  BY <1>1 DEF HalvesInv, VehiclesAgree, DriversKept, Named, UserOf

\* The copies of the requests that do not act still agree.
LEMMA OtherCopies ==
  ASSUME HalvesInv, DriversKept, NEW r \in Requests, NEW q \in Requests, q # r,
         pc'[q] = pc[q], local'[q] = local[q]
  PROVE  CopyAgrees(q)' /\ pc'[q] # "replaceDriver"
<1>1. local[q].driver \in Drivers \cup {None}
  BY LocalFields DEF HalvesInv, TypeInv, TypeOK
<1> QED
  BY <1>1 DEF HalvesInv, CopyAgrees, DriversKept, Named, UserOf

\* The copy of a request that moves on, or begins, with a copy that agrees.
LEMMA OwnCopy ==
  ASSUME HalvesInv, DriversKept, NEW r \in Requests, NEW to,
         pc' = [pc EXCEPT ![r] = to], to # "replaceDriver",
         to \in WriteLabels =>
           /\ local'[r].driver \in Drivers \cup {None}
           /\ Named(local'[r].driver)
           /\ local'[r].user = UserOf(local'[r].driver),
         \A q \in Requests : q # r => local'[q] = local[q]
  PROVE  \A q \in Requests : CopyAgrees(q)' /\ pc'[q] # "replaceDriver"
<1>1. \A q \in Requests : q # r => pc'[q] = pc[q]
  BY DEF HalvesInv, TypeInv, TypeOK
<1>2. pc'[r] = to
  BY DEF HalvesInv, TypeInv, TypeOK
<1>3. CopyAgrees(r)' /\ pc'[r] # "replaceDriver"
  BY <1>2 DEF CopyAgrees, DriversKept, Named, UserOf
<1> QED
  BY <1>1, <1>3, OtherCopies

\* A request that ends, or failed, carries nothing.
LEMMA LeaveCopy ==
  ASSUME HalvesInv, DriversKept, NEW r \in Requests, NEW to \in {"idle", "failed"},
         Leave(r, to)
  PROVE  \A q \in Requests : CopyAgrees(q)' /\ pc'[q] # "replaceDriver"
<1>1. \A q \in Requests : q # r => local'[q] = local[q]
  BY DEF HalvesInv, TypeInv, TypeOK, Leave, Learn
<1> QED
  BY <1>1, OwnCopy DEF Leave, WriteLabels

LEMMA EndCopy ==
  ASSUME HalvesInv, DriversKept, NEW r \in Requests, End(r)
  PROVE  \A q \in Requests : CopyAgrees(q)' /\ pc'[q] # "replaceDriver"
  BY LeaveCopy DEF End

\* A request that moves on with what it has.
LEMMA GoCopy ==
  ASSUME HalvesInv, DriversKept, NEW r \in Requests, NEW from, NEW to,
         Go(r, from, to), UNCHANGED local, to # "replaceDriver",
         to \in WriteLabels => from \in WriteLabels
  PROVE  \A q \in Requests : CopyAgrees(q)' /\ pc'[q] # "replaceDriver"
<1>1. local[r].driver \in Drivers \cup {None}
  BY LocalFields DEF HalvesInv, TypeInv, TypeOK
<1>2. to \in WriteLabels => Named(local[r].driver) /\ local[r].user = UserOf(local[r].driver)
  BY DEF Go, HalvesInv, CopyAgrees
<1> QED
  BY <1>1, <1>2, OwnCopy DEF Go

\* A request that moves on with a new copy that agrees.
LEMMA LearnCopy ==
  ASSUME HalvesInv, DriversKept, NEW r \in Requests, NEW from, NEW to, NEW l,
         Go(r, from, to), Learn(r, l), to # "replaceDriver",
         to \in WriteLabels =>
           l.driver \in Drivers \cup {None} /\ Named(l.driver) /\ l.user = UserOf(l.driver)
  PROVE  \A q \in Requests : CopyAgrees(q)' /\ pc'[q] # "replaceDriver"
<1>1. local'[r] = l /\ \A q \in Requests : q # r => local'[q] = local[q]
  BY DEF HalvesInv, TypeInv, TypeOK, Learn
<1> QED
  BY <1>1, OwnCopy DEF Go

LEMMA HalvesStep ==
  ASSUME "UpdateDriver" \notin Ops, HalvesInv, [Next]_vars
  PROVE  HalvesInv'
<1>1. TypeInv /\ TypeInv'
  BY TypeStep DEF HalvesInv
<1>2. CASE UNCHANGED vars
  BY <1>1, <1>2 DEF vars, HalvesInv, VehiclesAgree, CopyAgrees, Named, UserOf
<1>3. SUFFICES ASSUME NEW r \in Requests,
                      \/ VehicleSteps(r) \/ DriverSteps(r) \/ GroupSteps(r)
                      \/ Announce(r) \/ Fail(r) \/ GoesOn(r)
               PROVE  /\ VehiclesAgree'
                      /\ \A q \in Requests : CopyAgrees(q)' /\ pc'[q] # "replaceDriver"
  BY <1>1, <1>2 DEF Next, Step, HalvesInv
<1>l. local[r] \in Local /\ local[r].driver \in Drivers \cup {None}
      /\ local[r].user \in Users \cup {None}
  BY <1>1, LocalFields DEF TypeInv, TypeOK
<1>4. CASE VehicleSteps(r)
  <2>1. ASSUME NEW v \in Vehicles, NEW g \in Groups \cup {None},
               NEW w \in Drivers \cup {None, Keep}, CreateVehicle(r, v, g, w)
        PROVE  /\ VehiclesAgree'
               /\ \A q \in Requests : CopyAgrees(q)' /\ pc'[q] # "replaceDriver"
    <3> DEFINE l == Carry(v, w, None, None, g, FALSE, {}, TRUE)
    <3>1. DriversKept /\ UNCHANGED <<driver, driverUser>>
      BY <2>1 DEF CreateVehicle, db, DriversKept
    <3>2. l.driver = None /\ l.user = None
      BY DEF Carry
    <3>3. Go(r, "idle", "checkGroup") /\ Learn(r, l)
      BY <2>1 DEF CreateVehicle, Begin
    <3> HIDE DEF l
    <3> QED
      BY <3>1, <3>2, <3>3, SameVehicles, LearnCopy DEF Named, UserOf
  <2>2. ASSUME NEW v \in Vehicles, NEW g \in Groups \cup {None, Keep},
               NEW w \in Drivers \cup {None, Keep}, UpdateVehicleRead(r, v, g, w)
        PROVE  /\ VehiclesAgree'
               /\ \A q \in Requests : CopyAgrees(q)' /\ pc'[q] # "replaceDriver"
    <3> DEFINE l == Carry(v, w, driver[v], driverUser[v], GroupApplied(v, g), FALSE, {}, FALSE)
    <3>1. DriversKept /\ UNCHANGED <<driver, driverUser>>
      BY <2>2 DEF UpdateVehicleRead, db, DriversKept
    <3>2. l.driver = driver[v] /\ l.user = driverUser[v]
      BY DEF Carry
    <3>3. Go(r, "idle", "checkGroup") /\ Learn(r, l)
      BY <2>2 DEF UpdateVehicleRead, Begin
    <3>4. l.driver \in Drivers \cup {None} /\ Named(l.driver) /\ l.user = UserOf(l.driver)
      BY <1>1, <3>2 DEF HalvesInv, VehiclesAgree, TypeInv, TypeOK
    <3> HIDE DEF l
    <3> QED
      BY <3>1, <3>3, <3>4, SameVehicles, LearnCopy
  <2>3. CASE CheckGroup(r)
    <3>1. DriversKept /\ UNCHANGED <<driver, driverUser>>
      BY <2>3 DEF CheckGroup, driverDocs, vehicleDocs, db, DriversKept
    <3> QED
      BY <2>3, <3>1, SameVehicles, GoCopy DEF CheckGroup, WriteLabels, WriteLabel
  <2>4. CASE CheckGroupRefuse(r)
    <3>1. DriversKept /\ UNCHANGED <<driver, driverUser>>
      BY <2>4 DEF CheckGroupRefuse, driverDocs, vehicleDocs, db, DriversKept
    <3> QED
      BY <2>4, <3>1, SameVehicles, EndCopy DEF CheckGroupRefuse
  <2>5. CASE SetDriverKeep(r)
    <3>1. DriversKept /\ UNCHANGED <<driver, driverUser>>
      BY <2>5 DEF SetDriverKeep, driverDocs, vehicleDocs, db, DriversKept
    <3> QED
      BY <2>5, <3>1, SameVehicles, GoCopy DEF SetDriverKeep, WriteLabels, WriteLabel
  <2>6. CASE SetDriverClear(r)
    <3> DEFINE l == WithDriver(local[r], None, None)
    <3>1. DriversKept /\ UNCHANGED <<driver, driverUser>>
      BY <2>6 DEF SetDriverClear, db, DriversKept
    <3>2. l.driver = None /\ l.user = None
      BY DEF WithDriver, Carry
    <3>3. Go(r, "setDriver", WriteLabel(r)) /\ Learn(r, l)
      BY <2>6 DEF SetDriverClear, ClearHalves
    <3> HIDE DEF l
    <3> QED
      BY <3>1, <3>2, <3>3, SameVehicles, LearnCopy DEF Named, UserOf, WriteLabel
  <2>7. CASE SetDriverRefuse(r)
    <3>1. DriversKept /\ UNCHANGED <<driver, driverUser>>
      BY <2>7 DEF SetDriverRefuse, driverDocs, vehicleDocs, db, DriversKept
    <3> QED
      BY <2>7, <3>1, SameVehicles, EndCopy DEF SetDriverRefuse
  <2>8. CASE SetDriverSame(r)
    <3>1. DriversKept /\ UNCHANGED <<driver, driverUser>>
      BY <2>8 DEF SetDriverSame, driverDocs, vehicleDocs, db, DriversKept
    <3> QED
      BY <2>8, <3>1, SameVehicles, GoCopy DEF SetDriverSame, WriteLabels, WriteLabel
  <2>9. CASE SetDriverRead(r)
    <3> DEFINE l == WithDriver(local[r], local[r].want, dUser[local[r].want])
    <3>1. DriversKept /\ UNCHANGED <<driver, driverUser>>
      BY <2>9 DEF SetDriverRead, db, DriversKept
    <3>2. l.driver = local[r].want /\ l.user = dUser[local[r].want]
      BY DEF WithDriver, Carry
    <3>3. Go(r, "setDriver", "findOthers") /\ Learn(r, l)
      BY <2>9 DEF SetDriverRead
    <3>4. l.driver \in Drivers /\ Named(l.driver) /\ l.user = UserOf(l.driver)
      BY <2>9, <3>2, PairingAssumption DEF SetDriverRead, DriverUsable, Named, UserOf
    <3> HIDE DEF l
    <3> QED
      BY <3>1, <3>3, <3>4, SameVehicles, LearnCopy
  <2>10. CASE FindOthers(r)
    <3> DEFINE f == PairedElsewhere(local[r].want, local[r].vehicle)
               l == WithFound(local[r], f)
               to == IF f = {} THEN WriteLabel(r) ELSE "unpair"
    <3>1. DriversKept /\ UNCHANGED <<driver, driverUser>>
      BY <2>10 DEF FindOthers, db, DriversKept
    <3>2. l.driver = local[r].driver /\ l.user = local[r].user
      BY DEF WithFound, Carry
    <3>3. Go(r, "findOthers", to) /\ Learn(r, l) /\ to # "replaceDriver"
      BY <2>10 DEF FindOthers, WriteLabel
    <3>4. l.driver \in Drivers \cup {None} /\ Named(l.driver) /\ l.user = UserOf(l.driver)
      BY <1>l, <3>2, <3>3 DEF Go, HalvesInv, CopyAgrees, WriteLabels
    <3> HIDE DEF l, to
    <3> QED
      BY <3>1, <3>3, <3>4, SameVehicles, LearnCopy
  <2>11. CASE Unpair(r)
    <3>1. DriversKept
      BY <2>11 DEF Unpair, driverDocs, DriversKept
    <3>2. VehiclesAgree'
      BY <2>11, <3>1, ClearedVehicles DEF Unpair, PairedElsewhere
    <3> QED
      BY <2>11, <3>1, <3>2, GoCopy DEF Unpair, WriteLabels
  <2>12. CASE AnnounceOthers(r)
    <3>1. DriversKept /\ UNCHANGED <<driver, driverUser>>
      BY <2>12 DEF AnnounceOthers, driverDocs, vehicleDocs, db, DriversKept
    <3> QED
      BY <2>12, <3>1, SameVehicles, GoCopy DEF AnnounceOthers, WriteLabels, WriteLabel
  <2>13. CASE WriteVehicle(r)
    <3>1. DriversKept
      BY <2>13 DEF WriteVehicle, driverDocs, DriversKept
    <3>2. Named(local[r].driver) /\ local[r].user = UserOf(local[r].driver)
      BY <2>13 DEF WriteVehicle, HalvesInv, CopyAgrees, WriteLabels
    <3>3. \A d : Named(d)' <=> Named(d)
      BY <2>13 DEF WriteVehicle, driverDocs, Named
    <3>4. \A d : UserOf(d)' = UserOf(d)
      BY <2>13 DEF WriteVehicle, driverDocs, UserOf
    <3>5. \A v \in Vehicles : /\ driver'[v] = IF v = local[r].vehicle THEN local[r].driver ELSE driver[v]
                             /\ driverUser'[v] = IF v = local[r].vehicle THEN local[r].user ELSE driverUser[v]
      BY <1>1, <2>13 DEF WriteVehicle, TypeInv, TypeOK
    <3>6. VehiclesAgree'
      BY <3>2, <3>3, <3>4, <3>5 DEF HalvesInv, VehiclesAgree
    <3>7. Go(r, pc[r], "announce") /\ UNCHANGED local
      BY <2>13 DEF WriteVehicle, Go
    <3> QED
      BY <3>1, <3>6, <3>7, GoCopy DEF WriteLabels
  <2>14. ASSUME NEW v \in Vehicles, DeleteVehicleRead(r, v)
         PROVE  /\ VehiclesAgree'
                /\ \A q \in Requests : CopyAgrees(q)' /\ pc'[q] # "replaceDriver"
    <3>1. DriversKept /\ UNCHANGED <<driver, driverUser>>
      BY <2>14 DEF DeleteVehicleRead, db, DriversKept
    <3> QED
      BY <2>14, <3>1, SameVehicles, LearnCopy DEF DeleteVehicleRead, Begin, WriteLabels
  <2>15. CASE DeleteVehicleWrite(r)
    <3>1. DriversKept /\ UNCHANGED <<driver, driverUser>>
      BY <2>15 DEF DeleteVehicleWrite, driverDocs, vehicleDocs, db, DriversKept
    <3> QED
      BY <2>15, <3>1, SameVehicles, GoCopy DEF DeleteVehicleWrite, WriteLabels, WriteLabel
  <2> QED
    BY <1>4, <2>1, <2>2, <2>3, <2>4, <2>5, <2>6, <2>7, <2>8, <2>9, <2>10, <2>11,
       <2>12, <2>13, <2>14, <2>15 DEF VehicleSteps
<1>5. CASE DriverSteps(r)
  <2>1. ASSUME NEW d \in Drivers, NEW u \in Users \cup {None}, NEW a \in BOOLEAN,
               CreateDriver(r, d, u, a)
        PROVE  /\ VehiclesAgree'
               /\ \A q \in Requests : CopyAgrees(q)' /\ pc'[q] # "replaceDriver"
    <3>1. DriversKept /\ UNCHANGED <<driver, driverUser>>
      BY <1>1, <2>1 DEF CreateDriver, vehicleDocs, DriversKept, TypeInv, TypeOK
    <3> QED
      BY <2>1, <3>1, SameVehicles, LearnCopy DEF CreateDriver, Begin, WriteLabels
  <2>2. ~\E d \in Drivers, u \in Users \cup {None, Keep}, a \in BOOLEAN :
            UpdateDriverRead(r, d, u, a)
    BY DEF UpdateDriverRead, Begin
  <2>3. ~UpdateDriverReplace(r) /\ ~UpdateDriverDuplicate(r)
    BY DEF UpdateDriverReplace, UpdateDriverDuplicate, Go, HalvesInv
  <2>4. ASSUME NEW d \in Drivers, DeleteDriverRead(r, d)
        PROVE  /\ VehiclesAgree'
               /\ \A q \in Requests : CopyAgrees(q)' /\ pc'[q] # "replaceDriver"
    <3>1. DriversKept /\ UNCHANGED <<driver, driverUser>>
      BY <2>4 DEF DeleteDriverRead, db, DriversKept
    <3> QED
      BY <2>4, <3>1, SameVehicles, LearnCopy DEF DeleteDriverRead, Begin, WriteLabels
  <2>5. CASE DeleteDriverRetire(r)
    <3>1. DriversKept /\ UNCHANGED <<driver, driverUser>>
      BY <1>1, <2>5 DEF DeleteDriverRetire, vehicleDocs, DriversKept, TypeInv, TypeOK
    <3> QED
      BY <2>5, <3>1, SameVehicles, GoCopy DEF DeleteDriverRetire, WriteLabels
  <2>6. CASE DeleteDriverRelease(r)
    <3>1. DriversKept
      BY <2>6 DEF DeleteDriverRelease, driverDocs, DriversKept
    <3>2. VehiclesAgree'
      BY <2>6, <3>1, ClearedVehicles DEF DeleteDriverRelease, Releases
    <3> QED
      BY <2>6, <3>1, <3>2, GoCopy DEF DeleteDriverRelease, WriteLabels
  <2> QED
    BY <1>5, <2>1, <2>2, <2>3, <2>4, <2>5, <2>6 DEF DriverSteps
<1>6. CASE GroupSteps(r)
  <2>1. ASSUME NEW g \in Groups,
               CreateGroup(r, g) \/ UpdateGroupRead(r, g) \/ DeleteGroupRead(r, g)
        PROVE  /\ VehiclesAgree'
               /\ \A q \in Requests : CopyAgrees(q)' /\ pc'[q] # "replaceDriver"
    <3>1. DriversKept /\ UNCHANGED <<driver, driverUser>>
      BY <2>1 DEF CreateGroup, UpdateGroupRead, DeleteGroupRead, db, driverDocs,
         vehicleDocs, DriversKept
    <3> QED
      BY <2>1, <3>1, SameVehicles, LearnCopy
         DEF CreateGroup, UpdateGroupRead, DeleteGroupRead, Begin, WriteLabels
  <2>2. CASE UpdateGroupReplace(r)
    <3>1. DriversKept /\ UNCHANGED <<driver, driverUser>>
      BY <2>2 DEF UpdateGroupReplace, driverDocs, vehicleDocs, db, DriversKept
    <3> QED
      BY <2>2, <3>1, SameVehicles, GoCopy DEF UpdateGroupReplace, WriteLabels, WriteLabel
  <2>3. CASE DeleteGroupRetire(r)
    <3>1. DriversKept /\ UNCHANGED <<driver, driverUser>>
      BY <2>3 DEF DeleteGroupRetire, driverDocs, vehicleDocs, db, DriversKept
    <3> QED
      BY <2>3, <3>1, SameVehicles, GoCopy DEF DeleteGroupRetire, WriteLabels, WriteLabel
  <2>4. CASE FindGrouped(r)
    <3>1. DriversKept /\ UNCHANGED <<driver, driverUser>>
      BY <2>4 DEF FindGrouped, driverDocs, vehicleDocs, db, DriversKept
    <3> QED
      BY <2>4, <3>1, SameVehicles, LearnCopy DEF FindGrouped, WriteLabels
  <2>5. CASE Ungroup(r)
    <3>1. DriversKept /\ UNCHANGED <<driver, driverUser>>
      BY <2>5 DEF Ungroup, driverDocs, vehicleDocs, db, DriversKept
    <3> QED
      BY <2>5, <3>1, SameVehicles, GoCopy DEF Ungroup, WriteLabels, WriteLabel
  <2>6. CASE AnnounceGrouped(r)
    <3>1. DriversKept /\ UNCHANGED <<driver, driverUser>>
      BY <2>6 DEF AnnounceGrouped, driverDocs, vehicleDocs, db, DriversKept
    <3> QED
      BY <2>6, <3>1, SameVehicles, GoCopy DEF AnnounceGrouped, WriteLabels, WriteLabel
  <2> QED
    BY <1>6, <2>1, <2>2, <2>3, <2>4, <2>5, <2>6 DEF GroupSteps
<1>7. CASE Announce(r) \/ Fail(r)
  <2>1. DriversKept /\ UNCHANGED <<driver, driverUser>>
    BY <1>7 DEF Announce, Fail, db, driverDocs, vehicleDocs, DriversKept
  <2> QED
    BY <1>7, <2>1, SameVehicles, EndCopy, LeaveCopy DEF Announce, Fail
<1>8. CASE GoesOn(r)
  <2>1. DriversKept /\ UNCHANGED <<driver, driverUser>>
    BY <1>8 DEF GoesOn, db, DriversKept
  <2>2. Go(r, pc[r], "announceAnyway") /\ UNCHANGED local
    BY <1>8 DEF GoesOn, Go
  <2> QED
    BY <2>1, <2>2, SameVehicles, GoCopy DEF WriteLabels
<1> QED
  BY <1>3, <1>4, <1>5, <1>6, <1>7, <1>8

\* The two halves of a vehicle's driver agree at every moment, however requests
\* interleave and fail, as long as no client edits a driver: setDriver copies
\* both from one document, and every other writer clears both.
THEOREM HalvesInStep ==
  ASSUME "UpdateDriver" \notin Ops
  PROVE  Spec => []HalvesAgree
<1>1. Init => HalvesInv
  BY TypeInit DEF Init, HalvesInv, VehiclesAgree, CopyAgrees, Named, UserOf, WriteLabels
<1>2. HalvesInv /\ [Next]_vars => HalvesInv'
  BY HalvesStep
<1>3. HalvesInv => HalvesAgree
  BY DEF HalvesInv, VehiclesAgree, HalvesAgree, UserOf
<1> QED
  BY <1>1, <1>2, <1>3, PTL DEF Spec

-----------------------------------------------------------------------------
(***************************************************************************)
(* Theorems about Pairing when requests come one at a time, for any number *)
(* of drivers, vehicles and groups and of requests, each of which may fail *)
(* after any statement and leave what it wrote behind.                     *)
(***************************************************************************)

Resting == {"idle", "failed"}

(***************************************************************************)
(* A step is one request's: the others stay where they are, and those that *)
(* rest are at no label an invariant speaks of.                            *)
(***************************************************************************)
LEMMA OthersStay ==
  ASSUME TypeInv, NEW r \in Requests, Step(r)
  PROVE  \A q \in Requests : q # r => pc'[q] = pc[q] /\ local'[q] = local[q]
<1>1. ASSUME VehicleSteps(r)
      PROVE  \A q \in Requests : q # r => pc'[q] = pc[q] /\ local'[q] = local[q]
  BY <1>1 DEF VehicleSteps, CreateVehicle, UpdateVehicleRead, CheckGroup, CheckGroupRefuse,
       SetDriverKeep, SetDriverClear, ClearHalves, SetDriverRefuse, SetDriverSame, SetDriverRead,
       FindOthers, Unpair, AnnounceOthers, WriteVehicle, DeleteVehicleRead, DeleteVehicleWrite,
       Begin, Go, Learn, End, Leave, TypeInv, TypeOK
<1>2. ASSUME DriverSteps(r)
      PROVE  \A q \in Requests : q # r => pc'[q] = pc[q] /\ local'[q] = local[q]
  BY <1>2 DEF DriverSteps, CreateDriver, UpdateDriverRead, UpdateDriverReplace,
       UpdateDriverDuplicate, DeleteDriverRead, DeleteDriverRetire, DeleteDriverRelease,
       Begin, Go, Learn, End, Leave, TypeInv, TypeOK
<1>3. ASSUME GroupSteps(r)
      PROVE  \A q \in Requests : q # r => pc'[q] = pc[q] /\ local'[q] = local[q]
  BY <1>3 DEF GroupSteps, CreateGroup, UpdateGroupRead, UpdateGroupReplace, DeleteGroupRead,
       DeleteGroupRetire, FindGrouped, Ungroup, AnnounceGrouped,
       Begin, Go, Learn, End, Leave, TypeInv, TypeOK
<1>4. ASSUME Announce(r) \/ Fail(r) \/ GoesOn(r)
      PROVE  \A q \in Requests : q # r => pc'[q] = pc[q] /\ local'[q] = local[q]
  BY <1>4 DEF Announce, Fail, GoesOn, Learn, End, Leave, TypeInv, TypeOK
<1> QED
  BY <1>1, <1>2, <1>3, <1>4 DEF Step

-----------------------------------------------------------------------------
(***************************************************************************)
(* One truck per driver.  The copy a request will write names a driver     *)
(* whom no other vehicle in service names: because it is what the document *)
(* says, or because unpairDriverElsewhere has been through.                *)
(***************************************************************************)
Before == {"checkGroup", "setDriver"}
Ready == {"announceOthers", "insertVehicle", "replaceVehicle"}

\* What was read is what there is.
AsRead(l) ==
  IF l.isNew THEN l.driver = None ELSE l.driver = driver[l.vehicle] /\ vState[l.vehicle] = "live"

\* Nobody else in service has the copy's driver.
Free(l) ==
  l.driver # None =>
    \A u \in Vehicles : u # l.vehicle /\ vState[u] = "live" => driver[u] # l.driver

CopyFree(r) ==
  /\ pc[r] \in Before => AsRead(local[r])
  /\ pc[r] \in {"findOthers", "unpair"} => local[r].driver = local[r].want
  /\ pc[r] \in Ready => Free(local[r])

TruckInv ==
  /\ TypeInv
  /\ OneTruckPerDriver
  /\ \A r \in Requests : CopyFree(r)

\* It is enough to look at the request that moves.
LEMMA CopiesFree ==
  ASSUME TypeInv, TypeInv', NEW r \in Requests, Alone(r), Step(r), CopyFree(r)'
  PROVE  \A q \in Requests : CopyFree(q)'
<1>1. \A q \in Requests : q # r => pc'[q] \in Resting
  BY OthersStay DEF Alone, Resting
<1> QED
  BY <1>1 DEF CopyFree, Before, Ready, Resting

\* A step that writes no vehicle and takes no copy of one.
LEMMA FreeElsewhere ==
  ASSUME TypeInv, NEW r \in Requests, OneTruckPerDriver, UNCHANGED <<vState, driver>>,
         pc'[r] \notin WriteLabels
  PROVE  OneTruckPerDriver' /\ CopyFree(r)'
  BY DEF OneTruckPerDriver, CopyFree, Before, Ready, WriteLabels

\* Vehicles lose their drivers, or go out of service, and no copy of one is taken.
LEMMA FreeFewer ==
  ASSUME TypeInv, NEW r \in Requests, OneTruckPerDriver,
         \A u \in Vehicles : /\ driver'[u] \in {driver[u], None}
                             /\ vState'[u] = "live" => vState[u] = "live"
  PROVE  OneTruckPerDriver'
  BY DEF OneTruckPerDriver

LEMMA TruckVehicles ==
  ASSUME TruckInv, TypeInv', NEW r \in Requests, VehicleSteps(r)
  PROVE  OneTruckPerDriver' /\ CopyFree(r)'
<1> USE DEF TruckInv
<1>l. /\ local[r] \in Local /\ CopyFree(r) /\ local[r].driver \in Drivers \cup {None}
      /\ local[r].user \in Users \cup {None} /\ local[r].want \in Drivers \cup {None, Keep}
      /\ dUser \in [Drivers -> Users \cup {None}] /\ None \notin Drivers
  BY LocalFields, PairingAssumption DEF TypeInv, TypeOK
<1>p. pc \in [Requests -> Labels] /\ local \in [Requests -> Local]
  BY DEF TypeInv, TypeOK
<1>w. pc[r] \in WriteLabels => local[r].vehicle \in Vehicles
  BY DEF TypeInv, LocalOK, Fits
<1>1. ASSUME NEW v \in Vehicles, NEW g, NEW w, CreateVehicle(r, v, g, w)
      PROVE  OneTruckPerDriver' /\ CopyFree(r)'
  BY <1>1, <1>p DEF CreateVehicle, Begin, Go, Learn, Carry, db, OneTruckPerDriver, CopyFree, AsRead,
       Before, Ready
<1>2. ASSUME NEW v \in Vehicles, NEW g, NEW w, UpdateVehicleRead(r, v, g, w)
      PROVE  OneTruckPerDriver' /\ CopyFree(r)'
  BY <1>2, <1>p DEF UpdateVehicleRead, Begin, Go, Learn, Carry, db, OneTruckPerDriver, CopyFree,
       AsRead, Before, Ready
<1>3. CASE CheckGroup(r)
  BY <1>3, <1>l, <1>p DEF CheckGroup, Go, db, OneTruckPerDriver, CopyFree, AsRead, Before, Ready
<1>4. CASE CheckGroupRefuse(r) \/ SetDriverRefuse(r)
  <2>1. UNCHANGED <<vState, driver>> /\ pc'[r] \notin WriteLabels
    BY <1>4, <1>p DEF CheckGroupRefuse, SetDriverRefuse, End, Leave, db, WriteLabels
  <2> QED
    BY <2>1, FreeElsewhere
<1>5. CASE SetDriverKeep(r) \/ SetDriverSame(r)
  <2>1. AsRead(local[r]) /\ pc[r] \in WriteLabels
    BY <1>5, <1>l DEF SetDriverKeep, SetDriverSame, Go, CopyFree, Before, WriteLabels
  <2>2. Free(local[r])
    BY <2>1, <1>w DEF AsRead, Free, OneTruckPerDriver
  <2>3. UNCHANGED <<vState, driver, local>> /\ pc'[r] \in {"insertVehicle", "replaceVehicle"}
    BY <1>5, <1>p DEF SetDriverKeep, SetDriverSame, Go, db, WriteLabel
  <2> QED
    BY <2>2, <2>3 DEF OneTruckPerDriver, CopyFree, Free, Before, Ready
<1>6. CASE SetDriverClear(r)
  <2>1. UNCHANGED <<vState, driver>> /\ pc'[r] \in {"insertVehicle", "replaceVehicle"}
    BY <1>6, <1>p DEF SetDriverClear, Go, db, WriteLabel
  <2>2. local'[r].driver = None
    BY <1>6, <1>l, <1>p, WithDriverType DEF SetDriverClear, ClearHalves, Learn
  <2> QED
    BY <2>1, <2>2 DEF OneTruckPerDriver, CopyFree, Free, Before, Ready
<1>7. CASE SetDriverRead(r)
  <2>1. UNCHANGED <<vState, driver>> /\ pc'[r] = "findOthers" /\ local[r].want \in Drivers
    BY <1>7, <1>p DEF SetDriverRead, Go, db
  <2>2. local'[r] = WithDriver(local[r], local[r].want, dUser[local[r].want])
    BY <1>7, <1>p DEF SetDriverRead, Learn
  <2>3. local'[r].driver = local'[r].want
    BY <2>2 DEF WithDriver, Carry
  <2> QED
    BY <2>1, <2>3 DEF OneTruckPerDriver, CopyFree, Before, Ready
<1>8. CASE FindOthers(r)
  <2> DEFINE others == PairedElsewhere(local[r].want, local[r].vehicle)
  <2>1. /\ UNCHANGED <<vState, driver>> /\ others \in SUBSET Vehicles
        /\ pc'[r] \in {"insertVehicle", "replaceVehicle", "unpair"}
        /\ others # {} => pc'[r] = "unpair"
        /\ local[r].driver = local[r].want
    BY <1>8, <1>l, <1>p DEF FindOthers, Go, db, WriteLabel, PairedElsewhere, CopyFree
  <2>2. local' = [local EXCEPT ![r] = WithFound(local[r], others)]
    BY <1>8 DEF FindOthers, Learn
  <2>3. /\ local'[r].driver = local[r].driver /\ local'[r].want = local[r].want
        /\ local'[r].vehicle = local[r].vehicle
    BY <1>l, <1>p, <2>1, <2>2, WithFoundType
  <2>4. others = {} => \A u \in Vehicles : u # local[r].vehicle => driver[u] # local[r].want
    BY DEF PairedElsewhere
  <2> QED
    BY <2>1, <2>3, <2>4 DEF OneTruckPerDriver, CopyFree, Free, Before, Ready
<1>9. CASE Unpair(r)
  <2>1. /\ pc'[r] = "announceOthers" /\ local[r].driver = local[r].want
        /\ UNCHANGED <<vState, local>>
        /\ \A u \in Vehicles :
             driver'[u] = IF u # local[r].vehicle /\ driver[u] = local[r].want THEN None ELSE driver[u]
    BY <1>9, <1>l, <1>p DEF Unpair, Go, PairedElsewhere, CopyFree
  <2>2. OneTruckPerDriver'
    BY <2>1, FreeFewer
  <2> QED
    BY <2>1, <2>2 DEF CopyFree, Free, Before, Ready
<1>10. CASE AnnounceOthers(r)
  <2>1. /\ UNCHANGED <<vState, driver, local>> /\ pc[r] \in Ready
        /\ pc'[r] \in {"insertVehicle", "replaceVehicle"}
    BY <1>10, <1>p DEF AnnounceOthers, Go, vehicleDocs, WriteLabel, Ready
  <2> QED
    BY <2>1, <1>l DEF OneTruckPerDriver, CopyFree, Free, Before, Ready
<1>11. CASE WriteVehicle(r)
  <2>1. Free(local[r]) /\ local[r].vehicle \in Vehicles
    BY <1>11, <1>l, <1>w DEF WriteVehicle, CopyFree, Ready, WriteLabels
  <2>2. \A u \in Vehicles :
          /\ driver'[u] = IF u = local[r].vehicle THEN local[r].driver ELSE driver[u]
          /\ u # local[r].vehicle => vState'[u] = vState[u]
    BY <1>11, <2>1 DEF WriteVehicle, TypeInv, TypeOK
  <2>3. OneTruckPerDriver'
    BY <2>1, <2>2 DEF OneTruckPerDriver, Free
  <2> QED
    BY <1>11, <1>p, <2>3 DEF WriteVehicle, CopyFree, Before, Ready
<1>12. ASSUME NEW v \in Vehicles, DeleteVehicleRead(r, v)
       PROVE  OneTruckPerDriver' /\ CopyFree(r)'
  <2>1. UNCHANGED <<vState, driver>> /\ pc'[r] \notin WriteLabels
    BY <1>12, <1>p DEF DeleteVehicleRead, Begin, Go, db, WriteLabels
  <2> QED
    BY <2>1, FreeElsewhere
<1>13. CASE DeleteVehicleWrite(r)
  <2>1. \A u \in Vehicles : driver'[u] = driver[u] /\ (vState'[u] = "live" => vState[u] = "live")
    BY <1>13 DEF DeleteVehicleWrite, TypeInv, TypeOK
  <2>2. pc'[r] = "announce"
    BY <1>13, <1>p DEF DeleteVehicleWrite, Go
  <2> QED
    BY <2>1, <2>2, FreeFewer DEF CopyFree, Before, Ready
<1> QED
  BY <1>1, <1>2, <1>3, <1>4, <1>5, <1>6, <1>7, <1>8, <1>9, <1>10, <1>11, <1>12, <1>13
     DEF VehicleSteps

LEMMA TruckStep ==
  ASSUME TruckInv, [\E r \in Requests : Alone(r) /\ Step(r)]_vars
  PROVE  TruckInv'
<1>1. TypeInv /\ TypeInv'
  BY TypeStep DEF TruckInv, Next
<1>2. CASE UNCHANGED vars
  BY <1>1, <1>2 DEF vars, TruckInv, OneTruckPerDriver, CopyFree, AsRead, Free
<1>3. SUFFICES ASSUME NEW r \in Requests, Alone(r), Step(r)
               PROVE  OneTruckPerDriver' /\ CopyFree(r)'
  BY <1>1, <1>2, CopiesFree DEF TruckInv
<1>p. pc \in [Requests -> Labels]
  BY <1>1 DEF TypeInv, TypeOK
<1>4. CASE VehicleSteps(r)
  BY <1>1, <1>4, TruckVehicles
<1>5. CASE DriverSteps(r) /\ ~DeleteDriverRelease(r)
  <2>1. UNCHANGED <<vState, driver>> /\ pc'[r] \notin WriteLabels
    BY <1>5, <1>p DEF DriverSteps, CreateDriver, UpdateDriverRead, UpdateDriverReplace,
         UpdateDriverDuplicate, DeleteDriverRead, DeleteDriverRetire, Begin, Go, End, Leave,
         db, vehicleDocs, WriteLabels
  <2> QED
    BY <1>1, <2>1, FreeElsewhere DEF TruckInv
<1>6. CASE DeleteDriverRelease(r)
  <2>1. /\ \A u \in Vehicles : driver'[u] \in {driver[u], None}
        /\ UNCHANGED vState /\ pc'[r] = "announce"
    BY <1>6, <1>p DEF DeleteDriverRelease, Go
  <2> QED
    BY <1>1, <2>1, FreeFewer DEF TruckInv, CopyFree, Before, Ready
<1>7. CASE GroupSteps(r)
  <2>1. UNCHANGED <<vState, driver>> /\ pc'[r] \notin WriteLabels
    BY <1>7, <1>p DEF GroupSteps, CreateGroup, UpdateGroupRead, UpdateGroupReplace,
         DeleteGroupRead, DeleteGroupRetire, FindGrouped, Ungroup, AnnounceGrouped,
         Begin, Go, db, vehicleDocs, WriteLabels
  <2> QED
    BY <1>1, <2>1, FreeElsewhere DEF TruckInv
<1>8. CASE Announce(r) \/ Fail(r) \/ GoesOn(r)
  <2>1. UNCHANGED <<vState, driver>> /\ pc'[r] \notin WriteLabels
    BY <1>8, <1>p DEF Announce, Fail, GoesOn, End, Leave, db, vehicleDocs, WriteLabels
  <2> QED
    BY <1>1, <2>1, FreeElsewhere DEF TruckInv
<1> QED
  BY <1>3, <1>4, <1>5, <1>6, <1>7, <1>8 DEF Step

\* While requests come one at a time, no two vehicles in service name one
\* driver, at any moment of any of them and after any that failed: setDriver
\* takes the driver off the others before it writes.
THEOREM OneTruckEach == OneByOne => []OneTruckPerDriver
<1>1. Init => TruckInv
  BY TypeInit DEF Init, TruckInv, OneTruckPerDriver, CopyFree, Before, Ready
<1>2. TruckInv /\ [\E r \in Requests : Alone(r) /\ Step(r)]_vars => TruckInv'
  BY TruckStep
<1>3. TruckInv => OneTruckPerDriver
  BY DEF TruckInv
<1> QED
  BY <1>1, <1>2, <1>3, PTL DEF OneByOne

-----------------------------------------------------------------------------
(***************************************************************************)
(* What is true between requests as long as none has failed.  While one is *)
(* under way something may be unfinished, and then it is that request's to *)
(* finish: drivers it is about to release, vehicles it is about to         *)
(* ungroup, notices it is about to send.                                   *)
(***************************************************************************)
Clean == \A r \in Requests : pc[r] \notin {"failed", "announceAnyway"}

\* Who is named is in service, but for the driver being released.
LiveFor(r) ==
  /\ \A v \in Vehicles : driver[v] # None =>
       \/ dState[driver[v]] = "live"
       \/ pc[r] = "release" /\ local[r].driver = driver[v]
  /\ pc[r] \in WriteLabels /\ local[r].driver # None => dState[local[r].driver] = "live"

\* A group that is named is there, but for the one being emptied.
GroupFor(r) ==
  /\ \A v \in Vehicles : group[v] # None =>
       \/ gState[group[v]] = "live"
       \/ pc[r] \in {"findGrouped", "ungroup"} /\ local[r].group = group[v]
  /\ pc[r] \in WriteLabels \ {"checkGroup"} /\ local[r].group # None =>
       gState[local[r].group] = "live"

OfDrivers == {"replaceDriver", "deleteDriver", "release"}
OfGroups == {"replaceGroup", "deleteGroup", "findGrouped", "ungroup", "announceGrouped"}
Untold == {"announce", "release", "findGrouped", "ungroup", "announceGrouped"}

\* What is not announced is a vehicle released, or what the request is about.
ToldFor(r) ==
  /\ \A x \in unannounced :
       \/ x \in released
       \/ pc[r] \in Untold /\ x = Subject(r)
       \/ pc[r] \in {"announceOthers", "announceGrouped"} /\ x \in local[r].found
  /\ pc[r] = "unpair" => local[r].found = PairedElsewhere(local[r].want, local[r].vehicle)
  /\ pc[r] = "ungroup" => local[r].found = GroupedIn(local[r].group)
  /\ pc[r] \in OfDrivers \cup OfGroups => local[r].vehicle = None
  /\ pc[r] \in OfGroups => local[r].driver = None

SettledInv ==
  /\ TruckInv
  /\ Clean => \A r \in Requests : Alone(r) => LiveFor(r) /\ GroupFor(r) /\ ToldFor(r)

\* A request that has failed, or goes on after a failure, never makes the state
\* clean again.
LEMMA CleanBefore ==
  ASSUME TypeInv, NEW r \in Requests, Step(r), Clean'
  PROVE  Clean /\ ~Fail(r) /\ ~GoesOn(r) /\ (Announce(r) => pc[r] = "announce")
<1>p. pc \in [Requests -> Labels]
  BY DEF TypeInv, TypeOK
<1>1. ~Fail(r) /\ ~GoesOn(r) /\ (Announce(r) => pc[r] = "announce")
  BY <1>p DEF Clean, Fail, GoesOn, Announce, Leave
<1>2. pc[r] \notin {"failed", "announceAnyway"}
  <2>1. CASE VehicleSteps(r)
    BY <2>1 DEF VehicleSteps, CreateVehicle, UpdateVehicleRead, CheckGroup, CheckGroupRefuse,
         SetDriverKeep, SetDriverClear, SetDriverRefuse, SetDriverSame, SetDriverRead,
         FindOthers, Unpair, AnnounceOthers, WriteVehicle, DeleteVehicleRead, DeleteVehicleWrite,
         Begin, Go
  <2>2. CASE DriverSteps(r)
    BY <2>2 DEF DriverSteps, CreateDriver, UpdateDriverRead, UpdateDriverReplace,
         UpdateDriverDuplicate, DeleteDriverRead, DeleteDriverRetire, DeleteDriverRelease,
         Begin, Go
  <2>3. CASE GroupSteps(r)
    BY <2>3 DEF GroupSteps, CreateGroup, UpdateGroupRead, UpdateGroupReplace, DeleteGroupRead,
         DeleteGroupRetire, FindGrouped, Ungroup, AnnounceGrouped, Begin, Go
  <2> QED
    BY <1>1, <2>1, <2>2, <2>3 DEF Step
<1> QED
  BY <1>1, <1>2, OthersStay DEF Clean

LEMMA LiveStep ==
  ASSUME TruckInv, NEW r \in Requests, Step(r), Clean', LiveFor(r)
  PROVE  LiveFor(r)'
<1>p. pc \in [Requests -> Labels] /\ local \in [Requests -> Local]
  BY DEF TruckInv, TypeInv, TypeOK
<1>d. /\ dState \in [Drivers -> DocStates] /\ driver \in [Vehicles -> Drivers \cup {None}]
      /\ None \notin Drivers
  BY PairingAssumption DEF TruckInv, TypeInv, TypeOK
<1>f. Fits(pc[r], local[r]) /\ CopyFree(r)
  BY DEF TruckInv, TypeInv, LocalOK
<1>c. ~Fail(r) /\ ~GoesOn(r) /\ (Announce(r) => pc[r] = "announce")
  BY CleanBefore DEF TruckInv
<1> USE DEF LiveFor, WriteLabels
<1>1. ASSUME NEW v \in Vehicles, NEW g, NEW w,
             CreateVehicle(r, v, g, w) \/ UpdateVehicleRead(r, v, g, w) \/ DeleteVehicleRead(r, v)
      PROVE  LiveFor(r)'
  BY <1>1, <1>p DEF CreateVehicle, UpdateVehicleRead, DeleteVehicleRead, Begin, Go, Learn, Carry, db
<1>2. CASE CheckGroup(r) \/ SetDriverKeep(r) \/ SetDriverSame(r) \/ AnnounceOthers(r)
  BY <1>2, <1>p DEF CheckGroup, SetDriverKeep, SetDriverSame, AnnounceOthers, Go, WriteLabel, db,
       driverDocs, vehicleDocs
<1>3. CASE CheckGroupRefuse(r) \/ SetDriverRefuse(r)
  BY <1>3, <1>p DEF CheckGroupRefuse, SetDriverRefuse, End, Leave, db
<1>4. CASE SetDriverClear(r)
  BY <1>4, <1>p DEF SetDriverClear, ClearHalves, Go, Learn, WriteLabel, WithDriver, Carry, db
<1>5. CASE SetDriverRead(r)
  BY <1>5, <1>p DEF SetDriverRead, DriverUsable, Go, Learn, WithDriver, Carry, db
<1>6. CASE FindOthers(r)
  BY <1>6, <1>p DEF FindOthers, Go, Learn, WriteLabel, WithFound, Carry, db
<1>7. CASE Unpair(r)
  BY <1>7, <1>p, <1>d DEF Unpair, Go, driverDocs
<1>8. CASE WriteVehicle(r)
  BY <1>8, <1>p, <1>d, <1>f DEF WriteVehicle, Fits, driverDocs
<1>9. CASE DeleteVehicleWrite(r)
  BY <1>9, <1>p, <1>d DEF DeleteVehicleWrite, Go, driverDocs
<1>10. CASE DriverSteps(r) /\ ~DeleteDriverRetire(r) /\ ~DeleteDriverRelease(r)
  <2>1. UNCHANGED driver /\ pc[r] # "release" /\ pc'[r] \notin WriteLabels
    BY <1>10, <1>p DEF DriverSteps, CreateDriver, UpdateDriverRead, UpdateDriverReplace,
         UpdateDriverDuplicate, DeleteDriverRead, Begin, Go, End, Leave, db, vehicleDocs
  <2>2. \A e \in Drivers : dState[e] = "live" => dState'[e] = "live"
    BY <1>10, <1>d DEF DriverSteps, CreateDriver, UpdateDriverRead, UpdateDriverReplace,
         UpdateDriverDuplicate, DeleteDriverRead, db
  <2> QED
    BY <1>d, <2>1, <2>2
<1>11. CASE DeleteDriverRetire(r)
  BY <1>11, <1>p, <1>d, <1>f DEF DeleteDriverRetire, Go, vehicleDocs, Fits
<1>12. CASE DeleteDriverRelease(r)
  BY <1>12, <1>p, <1>d, <1>f DEF DeleteDriverRelease, Releases, Go, driverDocs, Fits
<1>13. CASE GroupSteps(r)
  BY <1>13, <1>p DEF GroupSteps, CreateGroup, UpdateGroupRead, UpdateGroupReplace, DeleteGroupRead,
       DeleteGroupRetire, FindGrouped, Ungroup, AnnounceGrouped, Begin, Go, db, vehicleDocs,
       driverDocs
<1>14. CASE Announce(r)
  BY <1>14, <1>c, <1>p DEF Announce, End, Leave, vehicleDocs, driverDocs
<1> QED
  BY <1>c, <1>1, <1>2, <1>3, <1>4, <1>5, <1>6, <1>7, <1>8, <1>9, <1>10, <1>11, <1>12, <1>13, <1>14
     DEF Step, VehicleSteps

LEMMA GroupStep ==
  ASSUME TruckInv, NEW r \in Requests, Step(r), Clean', GroupFor(r)
  PROVE  GroupFor(r)'
<1>p. pc \in [Requests -> Labels] /\ local \in [Requests -> Local]
  BY DEF TruckInv, TypeInv, TypeOK
<1>d. /\ gState \in [Groups -> DocStates] /\ group \in [Vehicles -> Groups \cup {None}]
      /\ None \notin Groups
  BY PairingAssumption DEF TruckInv, TypeInv, TypeOK
<1>f. Fits(pc[r], local[r])
  BY DEF TruckInv, TypeInv, LocalOK
<1>c. ~Fail(r) /\ ~GoesOn(r) /\ (Announce(r) => pc[r] = "announce")
  BY CleanBefore DEF TruckInv
<1> USE DEF GroupFor, WriteLabels
<1>1. ASSUME NEW v \in Vehicles, NEW g, NEW w,
             CreateVehicle(r, v, g, w) \/ UpdateVehicleRead(r, v, g, w) \/ DeleteVehicleRead(r, v)
      PROVE  GroupFor(r)'
  BY <1>1, <1>p DEF CreateVehicle, UpdateVehicleRead, DeleteVehicleRead, Begin, Go, db
<1>2. CASE CheckGroup(r)
  BY <1>2, <1>p DEF CheckGroup, GroupFound, Go, db
<1>3. CASE SetDriverKeep(r) \/ SetDriverSame(r) \/ AnnounceOthers(r) \/ Unpair(r)
  BY <1>3, <1>p DEF SetDriverKeep, SetDriverSame, AnnounceOthers, Unpair, Go, WriteLabel, db,
       vehicleDocs
<1>4. CASE CheckGroupRefuse(r) \/ SetDriverRefuse(r)
  BY <1>4, <1>p DEF CheckGroupRefuse, SetDriverRefuse, End, Leave, db
<1>5. CASE SetDriverClear(r) \/ SetDriverRead(r)
  BY <1>5, <1>p DEF SetDriverClear, ClearHalves, SetDriverRead, Go, Learn, WriteLabel, WithDriver,
       Carry, db
<1>6. CASE FindOthers(r)
  BY <1>6, <1>p DEF FindOthers, Go, Learn, WriteLabel, WithFound, Carry, db
<1>7. CASE WriteVehicle(r)
  BY <1>7, <1>p, <1>d, <1>f DEF WriteVehicle, Fits
<1>8. CASE DeleteVehicleWrite(r)
  BY <1>8, <1>p DEF DeleteVehicleWrite, Go
<1>9. CASE DriverSteps(r)
  BY <1>9, <1>p DEF DriverSteps, CreateDriver, UpdateDriverRead, UpdateDriverReplace,
       UpdateDriverDuplicate, DeleteDriverRead, DeleteDriverRetire, DeleteDriverRelease, Begin, Go,
       End, Leave, db, vehicleDocs
<1>10. ASSUME NEW g \in Groups, CreateGroup(r, g) \/ UpdateGroupRead(r, g) \/ DeleteGroupRead(r, g)
       PROVE  GroupFor(r)'
  <2>1. UNCHANGED group /\ pc[r] = "idle" /\ pc'[r] \notin WriteLabels
    BY <1>10, <1>p DEF CreateGroup, UpdateGroupRead, DeleteGroupRead, Begin, Go, db, vehicleDocs
  <2>2. \A h \in Groups : gState[h] = "live" => gState'[h] = "live"
    BY <1>10, <1>d DEF CreateGroup, UpdateGroupRead, DeleteGroupRead, db
  <2> QED
    BY <1>d, <2>1, <2>2
<1>11. CASE UpdateGroupReplace(r)
  BY <1>11, <1>p, <1>d, <1>f DEF UpdateGroupReplace, Go, vehicleDocs, Fits
<1>12. CASE DeleteGroupRetire(r)
  BY <1>12, <1>p, <1>d, <1>f DEF DeleteGroupRetire, Go, vehicleDocs, Fits
<1>13. CASE FindGrouped(r)
  BY <1>13, <1>p, <1>d, <1>f DEF FindGrouped, GroupedIn, Go, Learn, WithFound, Carry, db, Fits
<1>14. CASE Ungroup(r)
  BY <1>14, <1>p, <1>d, <1>f DEF Ungroup, GroupedIn, Go, Fits
<1>15. CASE AnnounceGrouped(r)
  BY <1>15, <1>p DEF AnnounceGrouped, Go, vehicleDocs
<1>16. CASE Announce(r)
  BY <1>16, <1>c, <1>p DEF Announce, End, Leave, vehicleDocs
<1> QED
  BY <1>c, <1>1, <1>2, <1>3, <1>4, <1>5, <1>6, <1>7, <1>8, <1>9, <1>10, <1>11, <1>12, <1>13, <1>14,
     <1>15, <1>16 DEF Step, VehicleSteps, GroupSteps

LEMMA ToldStep ==
  ASSUME TruckInv, NEW r \in Requests, Step(r), Clean', ToldFor(r)
  PROVE  ToldFor(r)'
<1>p. pc \in [Requests -> Labels] /\ local \in [Requests -> Local]
  BY DEF TruckInv, TypeInv, TypeOK
<1>d. driver \in [Vehicles -> Drivers \cup {None}] /\ None \notin Vehicles \cup Drivers \cup Groups
  BY PairingAssumption DEF TruckInv, TypeInv, TypeOK
<1>f. Fits(pc[r], local[r])
  BY DEF TruckInv, TypeInv, LocalOK
<1>c. ~Fail(r) /\ ~GoesOn(r) /\ (Announce(r) => pc[r] = "announce")
  BY CleanBefore DEF TruckInv
<1> USE DEF ToldFor, OfDrivers, OfGroups, Untold, Wrote, Told
<1>1. ASSUME NEW v \in Vehicles, NEW g, NEW w,
             CreateVehicle(r, v, g, w) \/ UpdateVehicleRead(r, v, g, w) \/ DeleteVehicleRead(r, v)
      PROVE  ToldFor(r)'
  BY <1>1, <1>p DEF CreateVehicle, UpdateVehicleRead, DeleteVehicleRead, Begin, Go, db
<1>2. CASE CheckGroup(r) \/ SetDriverKeep(r) \/ SetDriverClear(r) \/ SetDriverSame(r)
           \/ SetDriverRead(r)
  BY <1>2, <1>p DEF CheckGroup, SetDriverKeep, SetDriverClear, SetDriverSame, SetDriverRead,
       Go, WriteLabel, db
<1>19. CASE FindOthers(r)
  BY <1>19, <1>p DEF FindOthers, PairedElsewhere, Go, Learn, WithFound, Carry, WriteLabel, db
<1>3. CASE CheckGroupRefuse(r) \/ SetDriverRefuse(r) \/ UpdateDriverDuplicate(r)
  BY <1>3, <1>p DEF CheckGroupRefuse, SetDriverRefuse, UpdateDriverDuplicate, End, Leave, db
<1>4. CASE Unpair(r)
  BY <1>4, <1>p, <1>d DEF Unpair, PairedElsewhere, Go
<1>5. CASE AnnounceOthers(r)
  BY <1>5, <1>p DEF AnnounceOthers, NoticesFor, Go, WriteLabel, vehicleDocs
<1>6. CASE WriteVehicle(r)
  BY <1>6, <1>p, <1>d, <1>f DEF WriteVehicle, Subject, Fits, WriteLabels
<1>7. CASE DeleteVehicleWrite(r)
  BY <1>7, <1>p, <1>d, <1>f DEF DeleteVehicleWrite, Go, Subject, Fits
<1>8. ASSUME NEW d \in Drivers, NEW u, NEW a, CreateDriver(r, d, u, a)
      PROVE  ToldFor(r)'
  BY <1>8, <1>p, <1>d DEF CreateDriver, Begin, Go, Learn, Carry, Subject, vehicleDocs
<1>9. ASSUME NEW d \in Drivers, NEW u, NEW a,
             UpdateDriverRead(r, d, u, a) \/ DeleteDriverRead(r, d)
      PROVE  ToldFor(r)'
  BY <1>9, <1>p DEF UpdateDriverRead, DeleteDriverRead, Begin, Go, Learn, Carry, db
<1>10. CASE UpdateDriverReplace(r) \/ DeleteDriverRetire(r)
  BY <1>10, <1>p, <1>d, <1>f DEF UpdateDriverReplace, DeleteDriverRetire, Go, Subject, vehicleDocs,
       Fits
<1>11. CASE DeleteDriverRelease(r)
  BY <1>11, <1>p, <1>d DEF DeleteDriverRelease, Releases, Go, Subject
<1>12. ASSUME NEW g \in Groups, CreateGroup(r, g)
       PROVE  ToldFor(r)'
  BY <1>12, <1>p, <1>d DEF CreateGroup, Begin, Go, Learn, Carry, Subject, vehicleDocs
<1>13. ASSUME NEW g \in Groups, UpdateGroupRead(r, g) \/ DeleteGroupRead(r, g)
       PROVE  ToldFor(r)'
  BY <1>13, <1>p DEF UpdateGroupRead, DeleteGroupRead, Begin, Go, Learn, Carry, db
<1>14. CASE UpdateGroupReplace(r) \/ DeleteGroupRetire(r)
  BY <1>14, <1>p, <1>d, <1>f DEF UpdateGroupReplace, DeleteGroupRetire, Go, Subject, vehicleDocs,
       Fits
<1>15. CASE FindGrouped(r)
  BY <1>15, <1>p DEF FindGrouped, GroupedIn, Go, Learn, WithFound, Carry, Subject, db
<1>16. CASE Ungroup(r)
  BY <1>16, <1>p DEF Ungroup, GroupedIn, Go, Subject
<1>17. CASE AnnounceGrouped(r)
  BY <1>17, <1>p DEF AnnounceGrouped, NoticesFor, Go, Subject, vehicleDocs
<1>18. CASE Announce(r)
  BY <1>18, <1>c, <1>p DEF Announce, End, Leave, vehicleDocs
<1> QED
  BY <1>c, <1>1, <1>2, <1>3, <1>4, <1>5, <1>6, <1>7, <1>8, <1>9, <1>10, <1>11, <1>12, <1>13, <1>14,
     <1>15, <1>16, <1>17, <1>18, <1>19 DEF Step, VehicleSteps, DriverSteps, GroupSteps

LEMMA SettledStep ==
  ASSUME SettledInv, [\E r \in Requests : Alone(r) /\ Step(r)]_vars
  PROVE  SettledInv'
<1>1. TruckInv /\ TruckInv' /\ TypeInv
  BY TruckStep DEF SettledInv, TruckInv
<1>2. CASE UNCHANGED vars
  BY <1>1, <1>2 DEF vars, SettledInv, Clean, Alone, LiveFor, GroupFor, ToldFor, Subject, GroupedIn, PairedElsewhere
<1>3. SUFFICES ASSUME NEW r \in Requests, Alone(r), Step(r), Clean'
               PROVE  \A q \in Requests : Alone(q)' => (LiveFor(q) /\ GroupFor(q) /\ ToldFor(q))'
  BY <1>1, <1>2 DEF SettledInv
<1>4. LiveFor(r) /\ GroupFor(r) /\ ToldFor(r)
  BY <1>1, <1>3, CleanBefore DEF SettledInv
<1>5. (LiveFor(r) /\ GroupFor(r) /\ ToldFor(r))'
  BY <1>1, <1>3, <1>4, LiveStep, GroupStep, ToldStep
<1>6. \A q \in Requests : q # r => pc'[q] \in Resting
  BY <1>1, <1>3, OthersStay DEF Alone, Resting
<1>7. ASSUME NEW q \in Requests, q # r, Alone(q)'
      PROVE  (LiveFor(q) /\ GroupFor(q) /\ ToldFor(q))'
  \* Among requests that rest it makes no difference whose the state is.
  <2>1. pc'[r] \in Resting /\ pc'[q] \in Resting
    BY <1>6, <1>7 DEF Alone, Resting
  <2> QED
    BY <1>5, <2>1 DEF LiveFor, GroupFor, ToldFor, Resting, WriteLabels, OfDrivers, OfGroups, Untold
<1> QED
  BY <1>5, <1>7

LEMMA SettledInit == Init => SettledInv
<1> SUFFICES ASSUME Init PROVE SettledInv
  OBVIOUS
<1>1. TruckInv
  BY TypeInit DEF Init, TruckInv, OneTruckPerDriver, CopyFree, Before, Ready
<1> QED
  BY <1>1 DEF Init, SettledInv, LiveFor, GroupFor, ToldFor, WriteLabels, OfDrivers, OfGroups, Untold

\* Between requests, some one of which there is, everything is settled.
LEMMA QuietIsSettled ==
  ASSUME SettledInv, Quiet
  PROVE  \E r \in Requests : pc[r] = "idle" /\ LiveFor(r) /\ GroupFor(r) /\ ToldFor(r)
<1>1. PICK r \in Requests : TRUE
  BY PairingAssumption
<1> QED
  BY <1>1 DEF SettledInv, Quiet, Clean, Alone

\* Requests coming one at a time and none failing, no vehicle names a retired
\* driver once each is over: DeleteDriver releases whoever names him, and
\* setDriver takes none that is not in service.
THEOREM OnlyLiveDrivers == OneByOne => []NoRetiredDriverNamed
<1>1. SettledInv => NoRetiredDriverNamed
  BY QuietIsSettled DEF NoRetiredDriverNamed, LiveFor
<1> QED
  BY <1>1, SettledInit, SettledStep, PTL DEF OneByOne

\* And none points at a group that is not there: checkGroup looks, and
\* ungroupVehicles empties what is retired.
THEOREM OnlyLiveGroups == OneByOne => []GroupIsThere
<1>1. SettledInv => GroupIsThere
  BY QuietIsSettled DEF GroupIsThere, GroupFor
<1> QED
  BY <1>1, SettledInit, SettledStep, PTL DEF OneByOne

\* And what was written has been announced, but for the vehicles DeleteDriver
\* took a driver from.
THEOREM AnnouncedButReleases == OneByOne => []AllButReleasesAnnounced
<1>1. SettledInv => AllButReleasesAnnounced
  BY QuietIsSettled DEF AllButReleasesAnnounced, ToldFor, Untold
<1> QED
  BY <1>1, SettledInit, SettledStep, PTL DEF OneByOne
=============================================================================
