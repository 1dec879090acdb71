------------------------------ MODULE Surface ------------------------------
(***************************************************************************)
(* What a request may ask for and what it is answered: the routes of       *)
(* internal/routes/routes.go with the permissions each asks for, the       *)
(* handlers of internal/handlers, which say for whom a request acts and    *)
(* which status an outcome of a service gets, and the methods of           *)
(* internal/grpcserver/server.go behind the interceptor of                 *)
(* internal/platform/authctx/grpc.go.                                      *)
(*                                                                         *)
(* What the services do is in the modules of each component; here a        *)
(* service either succeeds or returns one of its errors.                   *)
(***************************************************************************)
EXTENDS Gate, Wire, FiniteSets, TLC

CONSTANTS
  Blank,      \* an X-Acting-For header, or a service token, of spaces
  NoCompany   \* the empty company of a request that is for nobody in particular

ASSUME SurfaceAssumption ==
  /\ Blank \notin Companies \cup Tokens \cup {None}
  /\ NoCompany \notin Companies \cup {None}

-----------------------------------------------------------------------------
(***************************************************************************)
(* What is for sale.                                                       *)
(***************************************************************************)
tmsFeatures == {"order", "agreement", "invoice", "shipment", "truck", "warehouse",
                "customer", "dashboard", "notification"}
sharedFeatures == {"accounting", "telemetry"}
\* The registry of the other product, without what it has not built.
fmsFeatures == {"dashboard", "ai_dashboard", "live", "geofence", "controltower",
                "notifications", "share_link", "generate_link", "reports", "custom_report",
                "ai_reporting", "camera", "fleet_management", "maintenance", "hangars",
                "license", "master_data", "dashcams", "rfid", "users", "scorecard",
                "marketplace"}

\* Shared entitlements count in either product.
SellableFeatures(product) ==
  sharedFeatures \cup (IF product = "fms" THEN fmsFeatures ELSE tmsFeatures)

Keys(product) ==
  IF product = "fms" THEN UNION {{s} \X DOMAIN fmsCatalog[s] : s \in DOMAIN fmsCatalog}
                     ELSE UNION {{s} \X tmsCatalog[s] : s \in DOMAIN tmsCatalog}

\* No key is gated by something no company can ever be granted, and what the
\* companies hold was granted.
ASSUME GatesAreSellable ==
  /\ \A product \in {"tms", "fms"} : \A key \in Keys(product) :
       FeatureFor(product, key) \in SellableFeatures(product) \cup {None}
  /\ \A t \in Tokens : \A product \in DOMAIN PrincipalOf[t].access :
       PrincipalOf[t].access[product].features \subseteq SellableFeatures(product)

-----------------------------------------------------------------------------
(***************************************************************************)
(* The routes: for each handler the keys any one of which lets in.         *)
(***************************************************************************)
tms(subject, action) == <<"tms", <<subject, action>>>>
fms(subject, action) == <<"fms", <<subject, action>>>>

catalogRoutes ==
  [Kinds |-> {tms("masterData", "read")}, List |-> {tms("masterData", "read")},
   Get |-> {tms("masterData", "read")}, Create |-> {tms("masterData", "create")},
   Update |-> {tms("masterData", "update")}, Delete |-> {tms("masterData", "delete")}]

fleetRoutes ==
  [ListTrucks |-> {tms("truck", "read")}, GetTruck |-> {tms("truck", "read")},
   ListWarehouses |-> {tms("warehouse", "read")}, GetWarehouse |-> {tms("warehouse", "read")},
   CreateWarehouse |-> {tms("warehouse", "create")},
   UpdateWarehouse |-> {tms("warehouse", "update")},
   DeleteWarehouse |-> {tms("warehouse", "delete")}]

DriverKeys(action, ability) == {tms("masterData", action), fms("drivers", ability)}
VehicleKeys(action, ability) == {tms("truck", action), fms("vehicles", ability)}
TrackerKeys(action, ability) ==
  {tms("masterData", action), fms("vehicles", ability), fms("dashcams", "manage")}
DocumentKeys(action, ability) ==
  {tms("truck", action), fms("vehicles", ability), fms("drivers", ability)}

registryRoutes ==
  [ListDrivers |-> DriverKeys("read", "view"), GetDriver |-> DriverKeys("read", "view"),
   CreateDriver |-> DriverKeys("create", "edit"), UpdateDriver |-> DriverKeys("update", "edit"),
   DeleteDriver |-> DriverKeys("delete", "edit"),
   ListVehicles |-> VehicleKeys("read", "view"), GetVehicle |-> VehicleKeys("read", "view"),
   CreateVehicle |-> VehicleKeys("create", "edit"), UpdateVehicle |-> VehicleKeys("update", "edit"),
   DeleteVehicle |-> VehicleKeys("delete", "edit"),
   ListTrackers |-> TrackerKeys("read", "view"), GetTracker |-> TrackerKeys("read", "view"),
   Assignments |-> TrackerKeys("read", "view"), CreateTracker |-> TrackerKeys("create", "edit"),
   UpdateTracker |-> TrackerKeys("update", "edit"), DeleteTracker |-> TrackerKeys("delete", "edit"),
   Fit |-> TrackerKeys("update", "edit"), Unfit |-> TrackerKeys("update", "edit"),
   ListDocuments |-> DocumentKeys("read", "view"), CreateDocument |-> DocumentKeys("update", "edit"),
   UpdateDocument |-> DocumentKeys("update", "edit"), DeleteDocument |-> DocumentKeys("update", "edit")]

routes == catalogRoutes @@ fleetRoutes @@ registryRoutes

\* A route asks for keys that its product has: one that it has not would let in
\* nobody but staff.
ASSUME RoutesAskForKeys ==
  \A op \in DOMAIN routes : \A spec \in routes[op] :
    spec \in {<<product, key>> : key \in Keys(spec[1]), product \in {"tms", "fms"}}

\* RequireModule is the case of one key.
RequireAnyOf(t, op) ==
  \E spec \in routes[op] : HasPermission(PrincipalOf[t], spec[1], spec[2])

-----------------------------------------------------------------------------
(***************************************************************************)
(* For whom a request acts.                                                *)
(***************************************************************************)
TrimSpace(header) == IF header = Blank THEN None ELSE header

\* caller: one company, or none and the request is refused.
callerScope(t, header) == {caller(t, TrimSpace(header))} \ {None}

\* Whoever names no company sees every device.
trackerScopeOpen(t, header) ==
  IF header = None THEN {NoCompany} ELSE callerScope(t, header)

\* Staff acting for nobody: here the header is not trimmed.
trackerScope(t, header) ==
  IF PrincipalOf[t].staff /\ header = None THEN {NoCompany} ELSE callerScope(t, header)

-----------------------------------------------------------------------------
(***************************************************************************)
(* The handlers: for whom each works (nobody, the caller's company, or the *)
(* company whose devices are meant), what it reads of the request beside   *)
(* the path, and the status it answers a success with.  Unfit reads a body *)
(* if there is one.                                                        *)
(***************************************************************************)
Handler(scope, reads, status) == [scope |-> scope, reads |-> reads, status |-> status]
Lists == Handler("caller", "query", 200)
Gets == Handler("caller", "nothing", 200)
Creates == Handler("caller", "body", 201)
Updates == Handler("caller", "body", 200)
Deletes == Handler("caller", "nothing", 200)

catalogHandlers ==
  [Kinds |-> Handler("nobody", "nothing", 200), List |-> Lists, Get |-> Gets,
   Create |-> Creates, Update |-> Updates, Delete |-> Deletes]
truckHandlers == [ListTrucks |-> Lists, GetTruck |-> Gets]
warehouseHandlers ==
  [ListWarehouses |-> Lists, GetWarehouse |-> Gets, CreateWarehouse |-> Creates,
   UpdateWarehouse |-> Updates, DeleteWarehouse |-> Deletes]
driverHandlers ==
  [ListDrivers |-> Lists, GetDriver |-> Gets, CreateDriver |-> Creates,
   UpdateDriver |-> Updates, DeleteDriver |-> Deletes]
vehicleHandlers ==
  [ListVehicles |-> Lists, GetVehicle |-> Gets, CreateVehicle |-> Creates,
   UpdateVehicle |-> Updates, DeleteVehicle |-> Deletes]
trackerHandlers ==
  [ListTrackers |-> Handler("tracker", "query", 200),
   GetTracker |-> Handler("tracker", "nothing", 200),
   CreateTracker |-> Handler("tracker", "body", 201),
   UpdateTracker |-> Handler("tracker", "body", 200),
   DeleteTracker |-> Handler("tracker", "nothing", 200)]
fittingHandlers ==
  [Fit |-> Creates, Unfit |-> Updates, Assignments |-> Handler("tracker", "nothing", 200)]
documentHandlers ==
  [ListDocuments |-> Lists, CreateDocument |-> Creates, UpdateDocument |-> Updates,
   DeleteDocument |-> Deletes]

handlers == catalogHandlers @@ truckHandlers @@ warehouseHandlers @@ driverHandlers
            @@ vehicleHandlers @@ trackerHandlers @@ fittingHandlers @@ documentHandlers

\* Every route has its handler, and every handler works for a company but the
\* one that lists the kinds of catalogues.
ASSUME EveryRouteServed ==
  /\ DOMAIN routes = DOMAIN handlers
  /\ \A op \in DOMAIN handlers : handlers[op].scope = "nobody" => op = "Kinds"

\* The companies a handler may work for: none when it refuses.
Scope(op, t, header) ==
  CASE handlers[op].scope = "nobody" -> {NoCompany}
    [] handlers[op].scope = "tracker" -> trackerScope(t, header)
    [] OTHER -> callerScope(t, header)

\* What a service may answer.
Outcomes == {"ok", "NotFound", "Forbidden", "UnknownKind", "Validation", "Conflict", "other"}

writeError(err) ==
  CASE err = "NotFound" -> 404
    [] err = "Forbidden" -> 403
    [] err \in {"UnknownKind", "Validation"} -> 400
    [] OTHER -> 500

writeRegistryError(err) == IF err = "Conflict" THEN 409 ELSE writeError(err)

\* An entry that was created is answered as created whether or not it could be
\* read back.
response(op, err) ==
  IF err = "ok" THEN handlers[op].status
  ELSE IF op \in DOMAIN registryRoutes THEN writeRegistryError(err) ELSE writeError(err)

\* The status of a request that no service sees, or 0.  A request is a record
\* of the operation, the token, the header and whether it is well formed; a
\* status of 401 stands for whatever RequireAuth did not accept.
refusal(r, authenticated) ==
  IF ~authenticated THEN 401
  ELSE IF ~RequireAnyOf(r.token, r.op) \/ Scope(r.op, r.token, r.header) = {} THEN 403
  ELSE IF handlers[r.op].reads # "nothing" /\ ~r.wellFormed THEN 400
  ELSE 0

-----------------------------------------------------------------------------
(***************************************************************************)
(* The methods other services call.                                        *)
(***************************************************************************)
\* The ones that ask for a company, and the ones that name a catalogue, of which
\* not every one is served.
NeedsCompany == {"ListDrivers", "ListDeviceAssignments", "ListTruckGroups"}
OfAKind == {"GetCatalogItem", "ListCatalogItems"}
OfRefs == {"ResolveCatalogItems", "ValidateReferences"}
healthChecks == {"Health/Check", "Health/Watch"}

\* The catalogues that have a name over gRPC.
kindNames == {"BRAND", "CARGO_TYPE", "ITEM", "ITEM_TYPE", "ITEM_CHARACTER", "TRUCK_HEAD",
              "TRUCK_BODY", "TRUCK_TYPE", "PRICING_TYPE", "PAYMENT_TYPE", "CURRENCY",
              "REQUIREMENT", "PROVINSI", "KOTA", "DISTRICT"}

\* An unknown kind, a refusal and a conflict are internal errors over gRPC.
mapError(err) == CASE err = "ok" -> "OK" [] err = "NotFound" -> "NotFound" [] OTHER -> "Internal"

\* The interceptor: accepted are the credentials of the configuration.  With
\* none of them, nothing is asked of the caller.
UnaryServerInterceptor(call, accepted) ==
  \/ call.method \in healthChecks
  \/ /\ call.metadata
     /\ accepted \ {None} # {} => call.serviceToken \in accepted \ {None}

\* The company a call is for.
callFor(call) ==
  IF call.method \notin DOMAIN ServiceDesc \/ Asked(call.method, call.message, "company_id") = Text
  THEN NoCompany ELSE Asked(call.method, call.message, "company_id")

\* A period has both ends, in order.
Period(call) ==
  LET from == Asked(call.method, call.message, "from")
      to == Asked(call.method, call.message, "to") IN from # Nil /\ to # Nil /\ from <= to

\* What a method answers to a call that got through.  A query is never refused:
\* what it asks for that is not offered is left out.
rpcAnswer(call, err) ==
  IF \/ call.method \in NeedsCompany /\ callFor(call) = NoCompany
     \/ call.method = "ListDeviceAssignments" /\ ~Period(call)
     \/ call.method \in OfAKind /\ Asked(call.method, call.message, "kind") \notin kindNames
     \/ /\ call.method \in OfRefs
        /\ \E i \in DOMAIN Asked(call.method, call.message, "refs") :
             Get(CatalogRef, Asked(call.method, call.message, "refs")[i], "kind") \notin kindNames
  THEN "InvalidArgument" ELSE mapError(err)

-----------------------------------------------------------------------------
\* What the authentication service sends of a principal.
userOf(p) ==
  Sent(User,
    [company_id |-> IF p.company = None THEN Text ELSE p.company,
     is_platform_staff |-> p.staff,
     access |-> [product \in DOMAIN p.access |->
       Sent(ProductAccess, [permissions |-> p.access[product].perms,
                            grants_all |-> p.access[product].all,
                            features |-> p.access[product].features])]])

\* A principal rebuilt from the answer of the authentication service may do
\* what the one of the token may.
ASSUME RemoteAgrees ==
  \A t \in Tokens :
    LET p == PrincipalOf[t]
        q == answered([valid |-> TRUE, user |-> userOf(p)]) IN
    /\ q.companyID = IF p.company = None THEN Text ELSE p.company
    /\ q.isPlatformStaff = p.staff
    /\ DOMAIN q.access = DOMAIN p.access
    /\ \A product \in DOMAIN p.access :
         /\ q.access[product].grantsAll = p.access[product].all
         /\ q.access[product].permissions = p.access[product].perms
         /\ q.access[product].features = p.access[product].features
=============================================================================
