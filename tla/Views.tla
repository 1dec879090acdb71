-------------------------------- MODULE Views --------------------------------
(***************************************************************************)
(* Listings of vehicles with the device each carries, and of devices with  *)
(* the vehicle each is on: ListTrucks, GetTruck and TrucksByDriver of      *)
(* internal/services/fleet.go, ListVehicles and ListTrackers of            *)
(* registry.go, while devices are fitted and removed and vehicles are      *)
(* edited.                                                                 *)
(*                                                                         *)
(* A listing takes several statements and holds nothing between them: it   *)
(* finds the page, may read the clock, and then asks where the devices     *)
(* are.  One Find is one moment of the database.                           *)
(***************************************************************************)
EXTENDS DeviceHistory, Wire

CONSTANTS
  Trailers,   \* vehicles without an engine
  Editors     \* edits of vehicles that may be under way at once

ASSUME ViewsAssumption == Trailers \subseteq Vehicles

VARIABLES
  copy,    \* the vehicle each edit has read, with the device it named then
  stale,   \* history: vehicles whose trackerId an edit has overwritten with an
           \* outdated one, and to which no device has been fitted since
  step,    \* idle, clock, query or answered
  op,      \* the listing
  page,    \* the vehicles, or the devices, it found
  since,   \* when it looked
  at,      \* the moment it asks about
  answer,  \* the messages, or views, it answers with
  carried  \* history: which devices the vehicles that are not stale carried when
           \* ListVehicles looked

edits == <<copy, stale>>
reader == <<step, op, page, since, at, answer, carried>>
viewVars == <<now, rows, trackerId, request, fits, contested, copy, stale,
              step, op, page, since, at, answer, carried>>

TruckListings == {"ListTrucks", "GetTruck", "TrucksByDriver"}

\* The documents of a vehicle and of a device.
VehicleDoc(v) ==
  [Whole EXCEPT !.id = v, !.unitType = IF v \in Trailers THEN "body" ELSE "head"]
TrackerDoc(d) == [Whole EXCEPT !.id = d, !.deviceId = d, !.kind = "gps"]

\* VehicleView, of which the device it names is kept.
VehicleView(v, d) == [id |-> v, tracker |-> d]

haulingUnits == Vehicles \ Trailers

\* What is fitted where, as the register stands.
FittedNow == {a \in rows : IsOpen(a)}
FittedOn(v) == {a.device : a \in {b \in FittedNow : b.vehicle = v}}

NoCopy == <<>>

-----------------------------------------------------------------------------
\* Nobody has asked for a listing, or edits a vehicle.
ViewInit ==
  /\ Init
  /\ copy = [e \in Editors |-> NoCopy] /\ stale = {}
  /\ step = "idle" /\ op = "none"
  /\ page = {} /\ since = 0 /\ at = 0 /\ answer = {}
  /\ carried = [v \in {} |-> {}]

\* UpdateVehicle reads the document, which holds trackerId ...
UpdateVehicleRead(e, v) ==
  /\ copy[e] = NoCopy
  /\ copy' = [copy EXCEPT ![e] = <<v, trackerId[v]>>]
  /\ UNCHANGED <<vars, stale, reader>>

\* ... and replaces the whole of it with its copy.
UpdateVehicleReplace(e) ==
  /\ copy[e] # NoCopy
  /\ LET v == copy[e][1]
         device == copy[e][2]
     IN /\ trackerId' = [trackerId EXCEPT ![v] = device]
        /\ stale' = IF device = trackerId[v] THEN stale ELSE stale \cup {v}
  /\ copy' = [copy EXCEPT ![e] = NoCopy]
  /\ UNCHANGED <<now, rows, request, fits, contested, reader>>

\* Or it is refused, or fails, and writes nothing.
UpdateVehicleFails(e) ==
  /\ copy[e] # NoCopy
  /\ copy' = [copy EXCEPT ![e] = NoCopy]
  /\ UNCHANGED <<vars, stale, reader>>

Edits ==
  \E e \in Editors :
    UpdateVehicleReplace(e) \/ UpdateVehicleFails(e) \/ \E v \in Vehicles : UpdateVehicleRead(e, v)

Look(listing, found, to) ==
  /\ step = "idle"
  /\ step' = to /\ op' = listing /\ page' = found
  /\ since' = now
  /\ UNCHANGED <<vars, edits, at, answer>>

\* The page is what a search, a driver or a page size leaves of the vehicles
\* that can haul; GetTruck finds any vehicle.
LookTrucks ==
  /\ UNCHANGED carried
  /\ \/ \E found \in SUBSET haulingUnits :
          Look("ListTrucks", found, "clock") \/ Look("TrucksByDriver", found, "clock")
     \/ \E v \in Vehicles : Look("GetTruck", {v}, "clock")

\* ListVehicles takes each vehicle with the device its document names, and asks
\* for no fittings.
LookVehicles ==
  /\ \E found \in SUBSET Vehicles :
       Look("ListVehicles", {<<v, trackerId[v]>> : v \in found}, "query")
  /\ carried' = [v \in Vehicles \ stale |-> FittedOn(v)]

\* ListTrackers may be asked for the devices that are fitted, that are not, or
\* that are on one vehicle: a statement of its own, before the page is found.
LookTrackers ==
  LET fitted == {a.device : a \in FittedNow}
      selections == {Devices, fitted, Devices \ fitted} \cup {FittedOn(v) : v \in Vehicles}
  IN /\ \E selected \in selections : Look("ListTrackers", selected, "query")
     /\ UNCHANGED carried

\* withDevices: time.Now(), once for the whole page.
Clock ==
  /\ step = "clock"
  /\ step' = "query" /\ at' = now
  /\ UNCHANGED <<vars, edits, op, page, since, answer, carried>>

Answer(messages) ==
  /\ step = "query"
  /\ step' = "answered" /\ answer' = messages /\ page' = {}
  /\ UNCHANGED <<vars, edits, op, since, at, carried>>

\* The answer has been read, and the listing is over.
Read ==
  /\ step = "answered"
  /\ step' = "idle" /\ op' = "none"
  /\ since' = 0 /\ at' = 0 /\ answer' = {}
  /\ carried' = [v \in {} |-> {}]
  /\ UNCHANGED <<vars, edits, page>>

\* IMEIsAt looks among one company's fittings, and GetTrucksByDriver names no
\* company; a query that fails leaves the trucks without devices.
Found(v, t) == IF op = "TrucksByDriver" THEN {} ELSE IMEIsAt(v, t)
OrNone(devices) == IF devices = {} THEN {Text} ELSE devices

WithDevicesOneByOne ==
  /\ step = "query" /\ op \in TruckListings
  /\ \E v \in page : \E imei \in OrNone(Found(v, now)) :
       /\ answer' = answer \cup {toProtoTruck(VehicleDoc(v), imei)}
       /\ page' = page \ {v}
  /\ step' = (IF page' = {} THEN "answered" ELSE "query")
  /\ UNCHANGED <<vars, edits, op, since, at, carried>>

WithDevices ==
  /\ op \in TruckListings
  /\ \E imei \in [page -> Devices \cup {Text}] :
       /\ \/ \A v \in page : imei[v] \in OrNone(Found(v, at))
          \/ \A v \in page : imei[v] = Text
       /\ Answer({toProtoTruck(VehicleDoc(v), imei[v]) : v \in page})

\* resolveVehicles: the devices named are looked up by id; one that is not found
\* is left out, and so are all when the query fails.
ResolveVehicles ==
  /\ op = "ListVehicles"
  /\ \/ Answer({VehicleView(p[1], p[2]) : p \in page})
     \/ Answer({VehicleView(p[1], {}) : p \in page})

\* resolveTrackers: the open fittings of the page, now.
Fitting(d) == {a \in FittedNow : a.device = d}
TrackerMessage(d, a) == toProtoTracker(TrackerDoc(d), a.vehicle, a.fittedAt)
Unfitted(d) == toProtoTracker(TrackerDoc(d), Nil, Nil)

ResolveTrackers ==
  /\ op = "ListTrackers"
  /\ \/ Answer(UNION {IF Fitting(d) = {} THEN {Unfitted(d)}
                      ELSE {TrackerMessage(d, a) : a \in Fitting(d)} : d \in page})
     \/ Answer({Unfitted(d) : d \in page})

Listings ==
  LookTrucks \/ LookVehicles \/ LookTrackers \/ Clock \/ WithDevices \/ ResolveVehicles
  \/ ResolveTrackers \/ Read

\* A Fit sets the shortcut of the vehicle it fits a device to.
Registering ==
  \/ Others /\ UNCHANGED stale
  \/ \E r \in Requests : FitCommit(r) /\ stale' = stale \ {request[r].vehicle}

ViewNext == Listings \/ Edits \/ (Registering /\ UNCHANGED <<copy, reader>>)

ViewSpec == ViewInit /\ [][ViewNext]_viewVars

-----------------------------------------------------------------------------
(***************************************************************************)
(* What must hold.                                                         *)
(***************************************************************************)
\* The pairs of a vehicle and a device that whoever reads an answer sees in it.
Shown ==
  LET pairs ==
        CASE op \in TruckListings -> {<<Get(Truck, m, "id"), Get(Truck, m, "imei")>> : m \in answer}
          [] op = "ListVehicles" -> UNION {{<<m.id, d>> : d \in m.tracker} : m \in answer}
          [] op = "ListTrackers" ->
               {<<Get(Tracker, m, "current_vehicle_id"), Get(Tracker, m, "device_id")>> : m \in answer}
          [] OTHER -> {}
  IN {p \in pairs : Text \notin {p[1], p[2]}}

\* A listing that asks for the fittings is of one moment: when it answers there is
\* a moment since its first statement at which the register has every device
\* where the answer shows it, and a device is shown on two vehicles only if a Fit of
\* it came late for that moment (Truck.IMEI: "a stale one shows a
\* device on the wrong truck"; withDevices asks once for the whole page).
ListingIsOfAMoment ==
  [][step = "query" /\ step' = "answered" /\ op # "ListVehicles" =>
       \E t \in since .. now :
         /\ \A p \in Shown' : \E a \in rows : a.vehicle = p[1] /\ a.device = p[2] /\ Covers(a, t)
         /\ \A p, q \in Shown' : p[2] = q[2] /\ p[1] # q[1] => <<p[2], t>> \in contested]_viewVars

\* What ListVehicles shows is the copy in the vehicle's document.  On a vehicle
\* that no edit has given an outdated copy it is the device that was fitted when
\* the listing looked, or none when the devices could not be read, and no two such
\* vehicles show the same (Vehicle.TrackerID: "a writer that forgets shows a
\* device on the wrong truck").
ListsWhatIsFitted ==
  step = "answered" /\ op = "ListVehicles" =>
    LET sound == {m \in answer : m.id \in DOMAIN carried}
    IN /\ \A m \in sound : m.tracker \in {carried[m.id], {}}
       /\ \A m, n \in sound : m.tracker \cap n.tracker # {} => m.id = n.id

\* Whatever ListVehicles shows on a vehicle, stale or not, was fitted to it when
\* the listing looked, or has been since.
AlwaysListsWhatIsFitted ==
  step = "answered" /\ op = "ListVehicles" =>
    \A p \in Shown : \E a \in rows : /\ a.vehicle = p[1] /\ a.device = p[2]
                                     /\ a.unfittedAt >= since
=============================================================================
