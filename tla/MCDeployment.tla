---------------------------- MODULE MCDeployment ----------------------------
(***************************************************************************)
(* One process, in every environment that matters, with two requests of    *)
(* one of several kinds of traffic; or the seeding task, run twice.        *)
(***************************************************************************)
EXTENDS Deployment

CONSTANTS c1, c2,                                \* companies
          admin, clerk, fleet, karlo, phone, old,  \* tokens
          svc, stranger                            \* service credentials

Access(all, perms, features) == [all |-> all, perms |-> perms, features |-> features]

\* An administrator and a clerk of a company that uses one product, a user of
\* the other product whose company has not bought the cameras, staff, a session
\* bound to one device, and a token that has expired.
MCPrincipalOf ==
  LET tenant(company, access) == [company |-> company, staff |-> FALSE,
                                  singleDevice |-> FALSE, access |-> access] IN
  admin :> tenant(c1, [tms |-> Access(TRUE, {}, {"truck", "warehouse"})]) @@
  clerk :> tenant(c1, [tms |-> Access(FALSE, {<<"truck", "read">>, <<"invoice", "read">>},
                                     {"truck"})]) @@
  fleet :> tenant(c2, [fms |-> Access(FALSE, {<<"vehicles", "edit">>, <<"vehicles", "view">>,
                                             <<"dashcams", "manage">>}, {"live"})]) @@
  karlo :> [company |-> None, staff |-> TRUE, singleDevice |-> FALSE, access |-> <<>>] @@
  phone :> [company |-> c1, staff |-> FALSE, singleDevice |-> TRUE,
            access |-> [tms |-> Access(TRUE, {}, {"truck"})]] @@
  old :> tenant(c2, [tms |-> Access(TRUE, {}, {})])

Http(op, token, header) ==
  [port |-> "http", op |-> op, token |-> token, header |-> header, wellFormed |-> TRUE]
Bad(call) == [call EXCEPT !.wellFormed = FALSE]
Rpc(method, credential, message) ==
  [port |-> "grpc", method |-> method, metadata |-> TRUE, serviceToken |-> credential,
   message |-> message]

\* A document was filed for a driver of the second company.
MCFirst == [companyId |-> c2, vehicleId |-> Unset, driverId |-> "e2", docType |-> "sim",
            live |-> TRUE]
MCCompanyOf == "t1" :> c1 @@ "t2" :> c2 @@ "e2" :> c2
Input(vehicle, driver, type) == [vehicleId |-> vehicle, driverId |-> driver, docType |-> type]
Paper(op, token, id, input) ==
  [port |-> "http", op |-> op, token |-> token, header |-> None, wellFormed |-> TRUE,
   id |-> id, input |-> input]

MCWorkloads ==
  {{Http("ListTrackers", fleet, None), Http("ListTrackers", karlo, None)},
   {Http("ListTrackers", karlo, Blank), Http("UpdateTracker", clerk, None)},
   {Http("Fit", fleet, c1), Http("Fit", karlo, c1)},
   {Http("GetVehicle", clerk, None), Bad(Http("CreateVehicle", admin, Blank))},
   {Http("Kinds", old, None), Http("Create", karlo, None)},
   {Http("CreateWarehouse", phone, None), Http("health", None, None)},
   {Http("GetTruck", phone, None), Http("swagger", None, None)},
   {Paper("UpdateDocument", fleet, 1, Input("t2", Unset, "ktp")),
    Paper("DeleteDocument", fleet, 1, Unset)},
   {Paper("UpdateDocument", admin, 1, Input(Unset, Unset, "ktp")),
    Paper("CreateDocument", fleet, 0, Input("t2", Spaces, "kir"))},
   {Paper("CreateDocument", admin, 0, Input("t1", "e2", "kir")),
    Paper("UpdateDocument", fleet, 1, Input(Unset, Unset, Spaces))},
   {Rpc("GetTruck", svc, [id |-> "t"]), Rpc("Health/Check", None, <<>>)},
   {Rpc("ListTrucks", stranger, [company_id |-> c2]), Rpc("Reflection", None, <<>>)},
   {Rpc("GetCatalogItem", svc, [kind |-> "FAQ", company_id |-> c1]),
    Rpc("ResolveCatalogItems", svc, [refs |-> <<[kind |-> "BRAND", id |-> "b"], [id |-> "b"]>>])},
   {[Rpc("GetWarehouse", Blank, <<>>) EXCEPT !.metadata = FALSE],
    Rpc("ListDeviceAssignments", svc, [company_id |-> c1, from |-> 2, to |-> 1])},
   {Rpc("ListWarehouses", Blank, <<>>), Rpc("ListTrucks", None, [company_id |-> c1])},
   {Rpc("ListDrivers", svc, <<>>), Http("ListDocuments", fleet, None)}}

Good == [environment |-> "prod", uri |-> "new", database |-> "", serviceToken |-> TRUE,
         accepted |-> {svc, Blank}, origins |-> {"app"}, key |-> "good", auth |-> TRUE,
         proxies |-> "unset", args |-> {}, level |-> "info", fluentd |-> "none"]

MCEnvs ==
  {Good,
   [Good EXCEPT !.environment = "staging", !.auth = FALSE, !.fluentd = "up"],
   [Good EXCEPT !.accepted = {Blank}], [Good EXCEPT !.accepted = {}],
   [Good EXCEPT !.serviceToken = FALSE], [Good EXCEPT !.origins = {}],
   [Good EXCEPT !.uri = "unset"], [Good EXCEPT !.uri = "unset", !.environment = "development",
                                               !.accepted = {Blank}],
   [Good EXCEPT !.uri = "legacyHost"], [Good EXCEPT !.uri = "legacyPath"],
   [Good EXCEPT !.database = " prod "], [Good EXCEPT !.database = "  "],
   [Good EXCEPT !.key = "bad"], [Good EXCEPT !.proxies = "bad", !.level = "error"],
   [Good EXCEPT !.args = {"seed"}], [Good EXCEPT !.args = {"seed", "--dry-run"}]}

Entry(c, n, parent) == [code |-> c, name |-> n, parent |-> parent]

\* Two editions of a file: a province was renamed, a brand too, and an entry
\* lost its code.
MCFiles ==
  {[provinsi |-> <<Entry("31", "Jakarta", Absent)>>,
    kota |-> <<Entry("3171", "Selatan", "31")>>,
    brand |-> <<Entry("HINO", "Hino", Absent)>>],
   [provinsi |-> <<Entry("31", "DKI", Absent)>>,
    kota |-> <<Entry("3171", "Selatan", "31"), Entry("7271", "Palu", "72")>>,
    faq |-> <<Entry("A", "Hino", Absent)>>],
   [brand |-> <<Entry("HINO", "HINO", Absent), Entry(Absent, "DKI", Absent)>>]}

MCHandEntries ==
  {[kind |-> "provinsi", code |-> "31", name |-> "Palu"],
   [kind |-> "provinsi", code |-> Absent, name |-> "DKI"],
   [kind |-> "kota", code |-> "3171", name |-> "Selatan"],
   [kind |-> "brand", code |-> Absent, name |-> "HINO"],
   [kind |-> "brand", code |-> "HINO", name |-> "Jakarta"],
   [kind |-> "itemType", code |-> "A", name |-> "Hino"]}

MCNames == {"Jakarta", "DKI", "Selatan", "Palu", "Hino", "HINO"}
MCNorm == [n \in MCNames |-> IF n = "HINO" THEN "Hino" ELSE n]
=============================================================================
