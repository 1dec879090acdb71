-------------------------------- MODULE Wire --------------------------------
(***************************************************************************)
(* The contract other services read: the messages of                       *)
(* karlo/masterdata/v1/masterdata.pb.go, of karlo/common/v1 and of the     *)
(* token check of karlo/auth/v1, and the conversions of                    *)
(* internal/grpcserver/server.go into them.                                *)
(*                                                                         *)
(* A message on the wire is a function on the fields that were set: a      *)
(* field that has the zero value of its type is not sent, and the getter   *)
(* of a field that is not there, or of a message that is not there,        *)
(* returns that zero value.  A message type is therefore written as the    *)
(* record of what its getters return when nothing was set.                 *)
(***************************************************************************)
EXTENDS Naturals

CONSTANT Nil   \* a message, or a timestamp, that is not there

Text == ""
Flag == FALSE
Number == 0
List == <<>>
Message == Nil

\* The getters.
Get(type, m, f) == IF m # Nil /\ f \in DOMAIN m THEN m[f] ELSE type[f]

\* What is sent of a message: zero values are not.
Sent(type, m) == [f \in {g \in DOMAIN m : m[g] # type[g]} |-> m[f]]

-----------------------------------------------------------------------------
(***************************************************************************)
(* Messages that carry records.                                            *)
(***************************************************************************)
CatalogItem ==
  [id |-> Text, kind |-> "UNSPECIFIED", company_id |-> Text, code |-> Text, name |-> Text,
   description |-> Text, active |-> Flag, attributes |-> Message, created_at |-> Message,
   updated_at |-> Message]
CatalogRef == [kind |-> "UNSPECIFIED", id |-> Text]
Truck ==
  [id |-> Text, company_id |-> Text, police_number |-> Text, truck_type_id |-> Text,
   truck_head_id |-> Text, truck_body_id |-> Text, brand_id |-> Text, year |-> Number,
   chassis_number |-> Text, engine_number |-> Text, driver_ids |-> List,
   truck_group_id |-> Text, status |-> Text, is_available |-> Flag, documents |-> Message,
   deleted |-> Flag, created_at |-> Message, updated_at |-> Message, imei |-> Text]
Driver ==
  [id |-> Text, company_id |-> Text, full_name |-> Text, phone |-> Text, employee_no |-> Text,
   license_no |-> Text, license_class |-> Text, license_expiry |-> Message, status |-> Text,
   user_id |-> Text, fms_employee_id |-> Number, deleted |-> Flag, created_at |-> Message,
   updated_at |-> Message]
DeviceAssignment ==
  [vehicle_id |-> Text, imei |-> Text, fitted_at |-> Message, unfitted_at |-> Message]
TruckGroup ==
  [id |-> Text, company_id |-> Text, name |-> Text, description |-> Text, deleted |-> Flag,
   updated_at |-> Message]
Tracker ==
  [id |-> Text, company_id |-> Text, kind |-> Text, device_id |-> Text, iccid |-> Text,
   sim_provider |-> Text, phone_no |-> Text, model_id |-> Text, owner |-> Text,
   owner_name |-> Text, status |-> Text, current_vehicle_id |-> Text, fitted_at |-> Message,
   attributes |-> Message, deleted |-> Flag, created_at |-> Message, updated_at |-> Message]
Warehouse ==
  [id |-> Text, company_id |-> Text, name |-> Text, address |-> Text, city_id |-> Text,
   province_id |-> Text, latitude |-> Number, longitude |-> Number,
   geofence_radius_meters |-> Number, pic_name |-> Text, pic_phone |-> Text, deleted |-> Flag,
   created_at |-> Message, updated_at |-> Message, pic_user_ids |-> List, pics |-> List]
SitePIC == [id |-> Text, name |-> Text, phone |-> Text, is_default |-> Flag]

-----------------------------------------------------------------------------
(***************************************************************************)
(* Requests and responses.                                                 *)
(***************************************************************************)
Page == [page |-> Number, page_size |-> Number]
PageInfo == [page |-> Number, page_size |-> Number, total_rows |-> Number, total_pages |-> Number]
Filter == [id |-> Text, value |-> Text, operator |-> "UNSPECIFIED"]
Sort == [id |-> Text, desc |-> Flag]
Query == [page |-> Message, filtered |-> List, sorted |-> List, search |-> Text]

GetCatalogItemRequest == [kind |-> "UNSPECIFIED", id |-> Text, company_id |-> Text]
GetCatalogItemResponse == [item |-> Message]
ListCatalogItemsRequest ==
  [kind |-> "UNSPECIFIED", query |-> Message, parent_id |-> Text, company_id |-> Text]
ListCatalogItemsResponse == [items |-> List, page_info |-> Message]
ResolveCatalogItemsRequest == [refs |-> List, company_id |-> Text]
ResolveCatalogItemsResponse == [items |-> List]
ValidateReferencesRequest == [refs |-> List, company_id |-> Text]
ValidateReferencesResponse == [valid |-> Flag, invalid |-> List]
GetTruckRequest == [id |-> Text]
GetTruckResponse == [truck |-> Message]
ListTrucksRequest == [company_id |-> Text, query |-> Message]
ListTrucksResponse == [trucks |-> List, page_info |-> Message]
ListTrackersRequest == [company_id |-> Text, kind |-> Text, query |-> Message]
ListTrackersResponse == [trackers |-> List, page_info |-> Message]
ListDeviceAssignmentsRequest ==
  [company_id |-> Text, vehicle_id |-> Text, from |-> Message, to |-> Message]
ListDeviceAssignmentsResponse == [assignments |-> List]
ListTruckGroupsRequest == [company_id |-> Text]
ListTruckGroupsResponse == [groups |-> List]
ListDriversRequest ==
  [company_id |-> Text, page |-> Number, page_size |-> Number, updated_since |-> Message]
ListDriversResponse == [drivers |-> List, total |-> Number]
GetDriverRequest == [id |-> Text]
GetDriverResponse == [driver |-> Message]
GetTrucksByDriverRequest == [driver_id |-> Text]
GetTrucksByDriverResponse == [trucks |-> List]
GetWarehouseRequest == [id |-> Text]
GetWarehouseResponse == [warehouse |-> Message]
ListWarehousesRequest == [company_id |-> Text, query |-> Message]
ListWarehousesResponse == [warehouses |-> List, page_info |-> Message]

\* The methods, each with what it takes and what it returns.
ServiceDesc ==
  [GetCatalogItem |-> <<GetCatalogItemRequest, GetCatalogItemResponse>>,
   ListCatalogItems |-> <<ListCatalogItemsRequest, ListCatalogItemsResponse>>,
   ResolveCatalogItems |-> <<ResolveCatalogItemsRequest, ResolveCatalogItemsResponse>>,
   ValidateReferences |-> <<ValidateReferencesRequest, ValidateReferencesResponse>>,
   GetTruck |-> <<GetTruckRequest, GetTruckResponse>>,
   ListTrucks |-> <<ListTrucksRequest, ListTrucksResponse>>,
   ListTrackers |-> <<ListTrackersRequest, ListTrackersResponse>>,
   ListDeviceAssignments |-> <<ListDeviceAssignmentsRequest, ListDeviceAssignmentsResponse>>,
   ListTruckGroups |-> <<ListTruckGroupsRequest, ListTruckGroupsResponse>>,
   ListDrivers |-> <<ListDriversRequest, ListDriversResponse>>,
   GetDriver |-> <<GetDriverRequest, GetDriverResponse>>,
   GetTrucksByDriver |-> <<GetTrucksByDriverRequest, GetTrucksByDriverResponse>>,
   GetWarehouse |-> <<GetWarehouseRequest, GetWarehouseResponse>>,
   ListWarehouses |-> <<ListWarehousesRequest, ListWarehousesResponse>>]

\* A field of the request a method was called with, which not every method has.
Asked(method, m, f) ==
  LET type == ServiceDesc[method][1] IN IF f \in DOMAIN type THEN Get(type, m, f) ELSE Text

-----------------------------------------------------------------------------
(***************************************************************************)
(* The conversions.  A pointer that is nil is sent as nothing.             *)
(***************************************************************************)
deref(pointer) == IF pointer = Nil THEN Text ELSE pointer

\* A truck names the type of what it is: of its head, or of its body.
truckTypeID(v) == deref(IF v.unitType = "head" THEN v.truckHeadId ELSE v.truckBodyId)

\* The truck made of a vehicle and the device found on it, as it is sent.
toProtoTruck(v, imei) ==
  Sent(Truck,
    [id |-> v.id, company_id |-> v.companyId, police_number |-> v.licensePlate,
     truck_type_id |-> truckTypeID(v), truck_head_id |-> deref(v.truckHeadId),
     truck_body_id |-> deref(v.truckBodyId), brand_id |-> deref(v.brandId),
     truck_group_id |-> deref(v.truckGroupId), year |-> IF v.unitYear = Nil THEN 0 ELSE v.unitYear,
     chassis_number |-> deref(v.chassisNumber), engine_number |-> deref(v.engineNumber),
     driver_ids |-> IF deref(v.currentDriverId) = Text THEN List ELSE <<v.currentDriverId>>,
     status |-> v.status, is_available |-> v.isAvailable, imei |-> imei,
     created_at |-> v.createdAt, updated_at |-> v.updatedAt])

toProtoDriver(d) ==
  Sent(Driver,
    [id |-> d.id, company_id |-> d.companyId, full_name |-> d.fullName, phone |-> deref(d.phone),
     employee_no |-> deref(d.employeeNo), license_no |-> deref(d.licenseNo),
     license_class |-> deref(d.licenseClass), license_expiry |-> d.licenseExpiry,
     status |-> d.status, user_id |-> deref(d.userId),
     fms_employee_id |-> IF d.attributes = Nil THEN 0 ELSE d.attributes,
     deleted |-> d.deleted, created_at |-> d.createdAt, updated_at |-> d.updatedAt])

\* A device, with the fitting that was found for it.
toProtoTracker(t, vehicle, fittedAt) ==
  Sent(Tracker,
    [id |-> t.id, company_id |-> deref(t.companyId), kind |-> t.kind, device_id |-> t.deviceId,
     iccid |-> deref(t.iccid), sim_provider |-> deref(t.simProvider),
     phone_no |-> deref(t.phoneNo), model_id |-> deref(t.modelId), owner |-> t.owner,
     owner_name |-> deref(t.ownerName), status |-> t.status,
     current_vehicle_id |-> deref(vehicle), fitted_at |-> fittedAt,
     attributes |-> t.attributes, deleted |-> t.deleted, created_at |-> t.createdAt,
     updated_at |-> t.updatedAt])

\* A contact that is not there makes no list.
toProtoSitePICs(pics) ==
  [i \in DOMAIN pics |->
     Sent(SitePIC, [id |-> pics[i].id, name |-> pics[i].name, phone |-> pics[i].phone,
                    is_default |-> pics[i].isDefault])]

\* GeoJSON has the longitude first.  Neither the customer nor the district of a
\* site is part of the message.
toProtoWarehouse(w) ==
  Sent(Warehouse,
    [id |-> w.id, company_id |-> w.companyId, name |-> w.name, address |-> deref(w.address),
     city_id |-> deref(w.city), province_id |-> deref(w.province),
     latitude |-> IF w.location = Nil THEN 0 ELSE w.location[2],
     longitude |-> IF w.location = Nil THEN 0 ELSE w.location[1],
     geofence_radius_meters |-> IF w.geofenceRadiusM = Nil THEN 0 ELSE w.geofenceRadiusM,
     pic_name |-> deref(w.sitePicName), pic_phone |-> deref(w.sitePicPhone),
     pic_user_ids |-> IF w.picUserIds = Nil THEN List ELSE w.picUserIds,
     pics |-> IF w.pics = Nil THEN List ELSE toProtoSitePICs(w.pics),
     created_at |-> w.createdAt, updated_at |-> w.updatedAt])

\* An entry is labelled with the kind it was asked for, not with its own.
toProtoItem(kind, e) ==
  Sent(CatalogItem,
    [id |-> e.id, kind |-> kind, company_id |-> deref(e.companyId), code |-> e.code,
     name |-> e.name, description |-> e.desc, active |-> e.active, attributes |-> e.attrs])

\* A fitting that has not ended has no end, whatever window was asked for.
toProtoAssignment(a) ==
  Sent(DeviceAssignment, [vehicle_id |-> a.vehicle, imei |-> a.device, fitted_at |-> a.fittedAt,
                          unfitted_at |-> a.unfittedAt])

pageInfo(page, size, total) ==
  Sent(PageInfo, [page |-> page, page_size |-> size, total_rows |-> total,
                  total_pages |-> IF size > 0 THEN (total + size - 1) \div size ELSE 0])

-----------------------------------------------------------------------------
(***************************************************************************)
(* The check of a token by the authentication service.                     *)
(***************************************************************************)
ProductAccess == [role |-> Text, permissions |-> {}, grants_all |-> Flag, features |-> {}]
User ==
  [id |-> Text, username |-> Text, email |-> Text, phone |-> Text, full_name |-> Text,
   role |-> Text, access |-> List, is_platform_staff |-> Flag, fms_tenant_id |-> Number,
   account_type |-> Text, parent_id |-> Text, company_id |-> Text, is_suspended |-> Flag,
   is_verified |-> Flag, deleted |-> Flag, language |-> Text, permission |-> List,
   created_at |-> Message, updated_at |-> Message]
ValidateTokenRequest == [token |-> Text]
ValidateTokenResponse ==
  [valid |-> Flag, user |-> Message, reason |-> Text, kind |-> "UNSPECIFIED"]

\* The principal made of a user: the access of every product, and nothing of
\* whether the user is suspended or deleted, which the answer has settled.
principalFrom(user) ==
  LET access == Get(User, user, "access") IN
  [userID |-> Get(User, user, "id"), companyID |-> Get(User, user, "company_id"),
   isPlatformStaff |-> Get(User, user, "is_platform_staff"),
   access |-> [product \in DOMAIN access |->
     [role |-> Get(ProductAccess, access[product], "role"),
      permissions |-> Get(ProductAccess, access[product], "permissions"),
      features |-> Get(ProductAccess, access[product], "features"),
      grantsAll |-> Get(ProductAccess, access[product], "grants_all")]]]

\* An answer that is not valid is no principal, and one without a user is the
\* principal of nobody.
answered(answer) ==
  IF Get(ValidateTokenResponse, answer, "valid")
  THEN principalFrom(Get(ValidateTokenResponse, answer, "user")) ELSE Nil

-----------------------------------------------------------------------------
\* A record in which nothing is left out.
Whole ==
  [id |-> "x", companyId |-> "x", licensePlate |-> "x", unitType |-> "head", truckHeadId |-> "x",
   truckBodyId |-> "x", brandId |-> "x", truckGroupId |-> "x", unitYear |-> 1,
   chassisNumber |-> "x", engineNumber |-> "x", currentDriverId |-> "x", status |-> "x",
   isAvailable |-> TRUE, createdAt |-> 1, updatedAt |-> 1, fullName |-> "x", phone |-> "x",
   employeeNo |-> "x", licenseNo |-> "x", licenseClass |-> "x", licenseExpiry |-> 1,
   userId |-> "x", attributes |-> 1, deleted |-> TRUE, kind |-> "x", deviceId |-> "x",
   iccid |-> "x", simProvider |-> "x", phoneNo |-> "x", modelId |-> "x", owner |-> "x",
   ownerName |-> "x", name |-> "x", address |-> "x", city |-> "x", province |-> "x",
   location |-> <<1, 2>>, geofenceRadiusM |-> 1, sitePicName |-> "x", sitePicPhone |-> "x",
   picUserIds |-> <<"x">>, pics |-> <<[id |-> "x", name |-> "x", phone |-> "x", isDefault |-> TRUE]>>,
   code |-> "x", desc |-> "x", active |-> TRUE, attrs |-> 1]

\* Every field of the contract is filled in from a record that has everything,
\* but for these: nobody is ever told that a truck or a site was retired, and an
\* entry comes without its dates.
ASSUME ContractKept ==
  /\ DOMAIN Truck \ DOMAIN toProtoTruck(Whole, "x") = {"documents", "deleted"}
  /\ DOMAIN Driver = DOMAIN toProtoDriver(Whole)
  /\ DOMAIN Tracker = DOMAIN toProtoTracker(Whole, "x", 1)
  /\ DOMAIN Warehouse \ DOMAIN toProtoWarehouse(Whole) = {"deleted"}
  /\ DOMAIN DeviceAssignment =
       DOMAIN toProtoAssignment([vehicle |-> "x", device |-> "x", fittedAt |-> 1, unfittedAt |-> 1])
  /\ DOMAIN CatalogItem \ DOMAIN toProtoItem("BRAND", Whole) = {"created_at", "updated_at"}
=============================================================================
