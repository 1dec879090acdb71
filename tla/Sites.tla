-------------------------------- MODULE Sites --------------------------------
(***************************************************************************)
(* The sites of a company (internal/services/site_write.go, fleet.go), and *)
(* the requests that create, edit and retire them over HTTP (routes.go,    *)
(* handlers.go).  Gate is what admits a request, Contacts what becomes of  *)
(* the contacts; listings are modelled in Feed.                            *)
(*                                                                         *)
(* Passing the gate touches no document, so a request's admission and its  *)
(* first statement are one action.  Creating and retiring a site is one    *)
(* statement; editing one reads the document, changes the copy and later   *)
(* replaces the document by its id, and other requests act in between.     *)
(*                                                                         *)
(* Every site is a warehouse here; the address, the notes and the accounts *)
(* that act for a site are carried and never looked at, and are left out.  *)
(***************************************************************************)
EXTENDS Gate, Contacts

CONSTANTS
  Requests,     \* edits in flight at once
  Passing,      \* the tokens whose sessions end while the model runs
  Ids,          \* site documents
  Customers,    \* customers a site may belong to
  Names,        \* spellings of a site's name
  NormalName,   \* normalise.Name on those spellings
  Points,       \* places on the map
  Inputs        \* the bodies a form sends

Absent == [company |-> None]

BadPoints == {"half", "outside", "nought"}

\* A body is a name, which may be blank, a customer, a list of contacts or
\* none, one contact, a place on the map and a radius.
IsBody(in) ==
  /\ trim(in.name) \in Names \cup {""}
  /\ in.pics # NoList =>
       /\ Len(in.pics) \in Nat /\ DOMAIN in.pics = 1..Len(in.pics)
       /\ \A k \in DOMAIN in.pics :
            /\ DOMAIN in.pics[k] = {"name", "phone", "isDefault"}
            /\ in.pics[k].isDefault \in BOOLEAN
  /\ in.point \in Points \cup BadPoints \cup {"none"}
  /\ in.radius \in {"none", "own", "nought", "negative"}

ASSUME SitesAssumption ==
  /\ None \notin Customers
  /\ "" \notin Names \cup Customers
  /\ Passing \subseteq Tokens
  /\ \A in \in Inputs : IsBody(in)

VARIABLES
  sites,    \* the documents
  edit,     \* the copy each request in flight has changed and will write
  expired,  \* tokens past their expiry
  ended,    \* unexpired tokens whose session the authentication service ended
  late,     \* tokens let in although their session had ended
  wrote     \* the token the last step wrote a site for, if it wrote one

vars == <<sites, edit, expired, ended, late, wrote>>
sessions == <<expired, ended>>

Idle == [token |-> None]

Init ==
  /\ sites = [i \in Ids |-> Absent]
  /\ edit = [r \in Requests |-> Idle]
  /\ expired = {}
  /\ ended = {}
  /\ late = {}
  /\ wrote = None

(***************************************************************************)
(* Admission.                                                              *)
(***************************************************************************)

\* Token t may call the route that asks for key, for that company.
Admit(t, key, company) ==
  /\ RequireAuth(t, expired, ended)
  /\ RequireModule(t, key)
  /\ \E actingFor \in Companies \cup {None} : company = caller(t, actingFor)
  /\ company # None
  /\ late' = IF t \in ended THEN late \cup {t} ELSE late

NoWrite == UNCHANGED sites /\ wrote' = None

\* A login somewhere else ends a single-device session; a suspension ends any.
EndSession(t) ==
  /\ t \notin ended \cup expired
  /\ ended' = ended \cup {t}
  /\ UNCHANGED <<edit, expired, late>>
  /\ NoWrite

Expire(t) ==
  /\ t \notin StaticTokens \cup expired
  /\ expired' = expired \cup {t}
  /\ ended' = ended \ {t}
  /\ UNCHANGED <<edit, late>>
  /\ NoWrite

\* The same person signs in again: a session, and a token, of its own.
SignIn(t) ==
  /\ t \in ended \cup expired
  /\ ended' = ended \ {t}
  /\ expired' = expired \ {t}
  /\ UNCHANGED <<edit, late>>
  /\ NoWrite

(***************************************************************************)
(* Writing a site.                                                         *)
(***************************************************************************)

Live(i) == sites[i] # Absent /\ ~sites[i].deleted

\* uq_site_name_per_customer, a partial unique index over live documents.
NameTaken(doc, i) ==
  \E j \in Ids \ {i} :
    /\ Live(j)
    /\ sites[j].company = doc.company
    /\ sites[j].customer = doc.customer
    /\ NormalName[sites[j].name] = NormalName[doc.name]

\* geoPoint: no coordinate is allowed, and neither half of one, nor one off
\* the globe, nor nought, nought.
geoPoint(point) == IF point = "none" THEN None ELSE point

\* The body binds, and no validation refuses it.
Acceptable(in) ==
  /\ in.name # ""
  /\ in.pics # NoList => ~Nameless(in.pics)
  /\ in.point \notin BadPoints
  /\ in.radius \notin {"nought", "negative"}

Write(i, doc, t) ==
  /\ sites' = [sites EXCEPT ![i] = doc]
  /\ wrote' = t

NewSite(company, in) ==
  [company |-> company, customer |-> IF in.customer \in Customers THEN in.customer ELSE None,
   name |-> trim(in.name), pics |-> <<>>, picName |-> NoText, picPhone |-> NoText,
   location |-> geoPoint(in.point),
   radius |-> IF in.radius = "none" THEN "default" ELSE in.radius,
   deleted |-> FALSE]

CreateSite(t, company, in, i) ==
  LET doc == ApplyPICs(NewSite(company, in), in)
  IN  /\ sites[i] = Absent
      /\ Acceptable(in)
      /\ trim(in.name) # ""
      /\ Admit(t, <<"warehouse", "create">>, company)
      /\ ~NameTaken(doc, i)
      /\ Write(i, doc, t)
      /\ UNCHANGED <<edit, sessions>>

\* The filter without the company.
FoundAnywhere(company, i) == Live(i)

\* The read every write of an existing site begins with.
Found(company, i) == Live(i) /\ sites[i].company = company

\* What the body says replaces what the document said; the customer of a
\* site is never changed.
Edited(doc, in) ==
  [ApplyPICs(doc, in) EXCEPT
     !.name = IF trim(in.name) # "" THEN trim(in.name) ELSE @,
     !.location = IF in.point # "none" THEN geoPoint(in.point) ELSE @,
     !.radius = IF in.radius # "none" THEN in.radius ELSE @]

UpdateSiteRead(r, t, company, in, i) ==
  /\ edit[r] = Idle
  /\ Found(company, i)
  /\ Acceptable(in)
  /\ Admit(t, <<"warehouse", "update">>, company)
  /\ edit' = [edit EXCEPT ![r] = [token |-> t, id |-> i, doc |-> Edited(sites[i], in)]]
  /\ UNCHANGED sessions
  /\ NoWrite

\* Store.Update replaces by _id alone.
UpdateSiteReplace(r) ==
  /\ edit[r] # Idle
  /\ ~NameTaken(edit[r].doc, edit[r].id)
  /\ Write(edit[r].id, edit[r].doc, edit[r].token)
  /\ edit' = [edit EXCEPT ![r] = Idle]
  /\ UNCHANGED <<sessions, late>>

\* The name is taken, or the request dies.
UpdateSiteFails(r) ==
  /\ edit[r] # Idle
  /\ edit' = [edit EXCEPT ![r] = Idle]
  /\ UNCHANGED <<sessions, late>>
  /\ NoWrite

DeleteSite(t, company, i) ==
  /\ Found(company, i)
  /\ Admit(t, <<"warehouse", "delete">>, company)
  /\ Write(i, [sites[i] EXCEPT !.deleted = TRUE], t)
  /\ UNCHANGED <<edit, sessions>>

Next ==
  \/ \E t \in Passing : EndSession(t) \/ Expire(t) \/ SignIn(t)
  \/ \E t \in Tokens, c \in Companies, in \in Inputs, i \in Ids :
       CreateSite(t, c, in, i)
  \/ \E r \in Requests, t \in Tokens, c \in Companies, in \in Inputs, i \in Ids :
       UpdateSiteRead(r, t, c, in, i)
  \/ \E r \in Requests : UpdateSiteReplace(r) \/ UpdateSiteFails(r)
  \/ \E t \in Tokens, c \in Companies, i \in Ids : DeleteSite(t, c, i)

Spec == Init /\ [][Next]_vars

(***************************************************************************)
(* Properties.                                                             *)
(***************************************************************************)

\* What the forms can put in a text field, once trimmed.
Entered == UNION {{in.pics[k] : k \in DOMAIN in.pics} :
                    in \in {x \in Inputs : x.pics # NoList}}
Texts == {trim(in.picName) : in \in Inputs} \cup {trim(in.picPhone) : in \in Inputs}
         \cup {trim(p.name) : p \in Entered} \cup {trim(p.phone) : p \in Entered}
         \cup {"PIC"}

IsDocument(doc) ==
  /\ doc.company \in Companies
  /\ doc.customer \in Customers \cup {None}
  /\ doc.name \in Names
  /\ doc.pics \in Seq([name : Texts \ {""}, phone : Texts, isDefault : BOOLEAN])
  /\ doc.picName \in (Texts \ {""}) \cup {NoText}
  /\ doc.picPhone \in (Texts \ {""}) \cup {NoText}
  /\ doc.location \in Points \cup {None}
  /\ doc.radius \in {"default", "own"}
  /\ doc.deleted \in BOOLEAN

\* Every document, and every copy about to replace one, is one the collection
\* accepts: a name, contacts with names, and null rather than "" in the two
\* older fields.
TypeOK ==
  /\ \A i \in Ids : sites[i] = Absent \/ IsDocument(sites[i])
  /\ \A r \in Requests :
       edit[r] # Idle => edit[r].token \in Tokens /\ IsDocument(edit[r].doc)
  /\ expired \subseteq Tokens /\ ended \subseteq Tokens /\ late \subseteq Tokens
  /\ wrote \in Tokens \cup {None}

\* After any sequence of list forms and single-contact forms a site with
\* contacts has exactly one default (ApplyPICs).
OneDefault ==
  \A i \in Ids :
    sites[i] # Absent /\ sites[i].pics # <<>> =>
      \E d \in DOMAIN sites[i].pics :
        \A k \in DOMAIN sites[i].pics : sites[i].pics[k].isDefault <=> k = d

\* A reader of sitePicName and sitePicPhone alone (the gRPC contract, the FMS
\* projection) sees the default contact, and nobody when there is none.
OlderReadersSeeTheDefault ==
  \A i \in Ids : sites[i] # Absent =>
    \/ /\ sites[i].pics = <<>>
       /\ sites[i].picName = NoText /\ sites[i].picPhone = NoText
    \/ \E d \in DOMAIN sites[i].pics :
         /\ sites[i].pics[d].isDefault
         /\ sites[i].picName = sites[i].pics[d].name
         /\ IF sites[i].pics[d].phone = "" THEN sites[i].picPhone = NoText
            ELSE sites[i].picPhone = sites[i].pics[d].phone

\* Karlo staff, or somebody of that company, which has bought the sites.
MayWrite(t, company) ==
  \/ PrincipalOf[t].staff
  \/ /\ PrincipalOf[t].company = company
     /\ "warehouse" \in PrincipalOf[t].access["tms"].features

\* Whatever token, header, id and body a request carries, and however long it
\* holds a copy, a site changes only for staff or for the company it belongs
\* to, and never moves to another (routes.go to Store.Update).
OnlyTheOwnerWrites ==
  [][\A i \in Ids : sites'[i] # sites[i] =>
       /\ MayWrite(wrote', sites'[i].company)
       /\ sites[i] # Absent => sites'[i].company = sites[i].company]_vars

\* A single-device session that was displaced is refused from the very next
\* request, though its token still verifies (RequireAuthWithRevocations).
DisplacedIsRefused == \A t \in late : ~PrincipalOf[t].singleDevice

\* Any session that has ended is refused.
EndedIsRefused == late = {}

\* A site that was retired stays so.
RetiredStaysRetired ==
  [][\A i \in Ids : sites[i] # Absent /\ sites[i].deleted => sites'[i].deleted]_vars
=============================================================================
