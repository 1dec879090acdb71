-------------------------------- MODULE Gate --------------------------------
(***************************************************************************)
(* What stands between a request and a handler: authentication            *)
(* (internal/platform/authctx/middleware.go), the permission a route asks  *)
(* for (routes.go, principal.go, product.go) and the company whose data    *)
(* the request may see (handlers.go, caller).  A token is a name;          *)
(* PrincipalOf says what its claims, or the authentication service's       *)
(* answer about it, decode to.                                             *)
(***************************************************************************)

CONSTANTS
  None,         \* an empty company, header or reference
  Tokens,       \* bearer tokens in the hands of callers
  Companies,
  PrincipalOf,  \* the principal of each token
  StaticTokens  \* the tokens that are not JWTs of this issuer

ASSUME GateAssumption ==
  /\ None \notin Companies
  /\ None \notin Tokens
  /\ StaticTokens \subseteq Tokens
  /\ \A t \in Tokens :
       /\ PrincipalOf[t].company \in Companies \cup {None}
       /\ PrincipalOf[t].staff \in BOOLEAN
       /\ PrincipalOf[t].singleDevice \in BOOLEAN

serviceProduct == "tms"

\* The permission catalogue: the actions of each subject.
tmsCatalog ==
  [order |-> {"read", "create", "update", "cancel", "approve", "assignDriver",
              "readyToPlan", "requestDriver"},
   agreement |-> {"read", "create", "update", "approve", "cancel"},
   invoice |-> {"read", "create", "update", "approve", "export"},
   shipment |-> {"read", "update", "verifyLoading", "verifyUnloading"},
   truck |-> {"read", "create", "update", "delete", "addDriver", "deleteDriver"},
   warehouse |-> {"read", "create", "update", "delete"},
   customer |-> {"read", "create", "update", "delete"},
   dashboard |-> {"read", "export"},
   notification |-> {"read", "update"},
   masterData |-> {"read", "create", "update", "delete"},
   collaboration |-> {"read", "inviteMember", "manageMember", "removeMember"},
   accounting |-> {"read", "create", "approve", "export"},
   telemetry |-> {"read", "export"}]

\* In this product the feature that gates a key is not its subject: the
\* feature of each action of each subject, None where any company may.
fmsCatalog ==
  [dashboard |-> [view |-> "dashboard", ai |-> "ai_dashboard"],
   live |-> [view |-> "live", history |-> "live"],
   fuel |-> [view |-> "live", price_calc |-> "live"],
   geofence |-> [view |-> "geofence", manage |-> "geofence"],
   controltower |-> [view |-> "controltower"],
   notifications |-> [view |-> "notifications", manage |-> "notifications"],
   reports |-> [view |-> "reports", custom |-> "custom_report", ai |-> "ai_reporting"],
   camera |-> [view |-> "camera"],
   share_link |-> [view |-> "share_link", create |-> "generate_link"],
   maintenance |-> [view |-> "maintenance", manage |-> "maintenance"],
   hangars |-> [view |-> "hangars", manage |-> "hangars"],
   license |-> [view |-> "license", manage |-> "license"],
   vehicles |-> [view |-> None, edit |-> None],
   drivers |-> [view |-> None, edit |-> None],
   rfid |-> [manage |-> "rfid"],
   dashcams |-> [manage |-> "camera"],
   users |-> [manage |-> None],
   roles |-> [manage |-> None]]

\* None is none of the subjects.
ASSUME SubjectAssumption == None \notin DOMAIN tmsCatalog

\* A key is a subject and an action, and belongs to a product.
Known(product, key) ==
  \/ /\ product = "tms"
     /\ key[1] \in DOMAIN tmsCatalog /\ key[2] \in tmsCatalog[key[1]]
  \/ /\ product = "fms"
     /\ key[1] \in DOMAIN fmsCatalog /\ key[2] \in DOMAIN fmsCatalog[key[1]]

\* The feature that gates a key.  In tms that is the subject, but for the ones
\* any company may use that has the product.
FeatureFor(product, key) ==
  IF product = "fms" THEN fmsCatalog[key[1]][key[2]]
  ELSE IF key[1] \in {"masterData", "collaboration"} THEN None ELSE key[1]

\* The entitlement is not looked at.
FeatureHeldOpen(access, product, key) == Known(product, key)

\* A key nobody declares grants nothing; one without a feature needs no
\* entitlement of the company.
FeatureHeld(access, product, key) ==
  /\ Known(product, key)
  /\ FeatureFor(product, key) \in access.features \cup {None}

\* access is a function over the products the person may use at all.
HasPermission(p, product, key) ==
  \/ p.staff
  \/ /\ product \in DOMAIN p.access
     /\ p.access[product].all \/ key \in p.access[product].perms
     /\ FeatureHeld(p.access[product], product, key)

RequireModule(t, key) == HasPermission(PrincipalOf[t], serviceProduct, key)

\* Local verification: an RS256 token of this issuer that has not expired.
Verifies(t, expired) == t \notin StaticTokens \cup expired

\* The authentication service knows every session that has ended.
ValidateToken(t, expired, ended) == t \notin expired \cup ended

\* A single-device session that verifies locally is not put to the
\* authentication service.
RequireAuthLocal(t, expired, ended) ==
  Verifies(t, expired) \/ ValidateToken(t, expired, ended)

\* Anything but a plain JWT of ours is put to the authentication service; a
\* service that is not there, or does not answer, refuses the request, which
\* is a request that takes no step.
RequireAuth(t, expired, ended) ==
  \/ /\ Verifies(t, expired)
     /\ ~PrincipalOf[t].singleDevice
  \/ /\ ~Verifies(t, expired) \/ PrincipalOf[t].singleDevice
     /\ ValidateToken(t, expired, ended)

\* Anybody may act for a company.
callerTrusting(t, actingFor) ==
  IF actingFor # None THEN actingFor ELSE PrincipalOf[t].company

\* The company a request is for, or None when it is refused.  The header is
\* looked at first: staff have no company of their own.
caller(t, actingFor) ==
  IF actingFor # None
    THEN IF PrincipalOf[t].staff THEN actingFor ELSE None
    ELSE PrincipalOf[t].company
=============================================================================
