----------------------------- MODULE Documents ------------------------------
(***************************************************************************)
(* The paperwork of vehicles and of drivers (internal/services/registry.go,*)
(* documents): created for one owner, edited by reading a document and     *)
(* writing the whole of it back, and retired.  Requests do so side by      *)
(* side, each in two steps.                                                *)
(*                                                                         *)
(* Of what a document says, its type stands for the rest.                  *)
(***************************************************************************)
EXTENDS Naturals, Sequences

CONSTANTS
  Workers,          \* the requests that work on documents
  OwnVehicles, OwnDrivers,  \* what may own a document
  CompanyOf,        \* whose each of them is
  Types,            \* types a document may have
  Unset,            \* a field that is not there
  Spaces            \* one of spaces only

ASSUME DocumentsAssumption ==
  /\ Unset \notin OwnVehicles \cup OwnDrivers \cup Types
  /\ Spaces \notin OwnVehicles \cup OwnDrivers \cup Types \cup {Unset}
  /\ OwnVehicles \cap OwnDrivers = {}

VARIABLES
  docs,   \* the documents, by identifier
  held    \* what each request has read, or made, and not yet written

docVars == <<docs, held>>

Nothing == [id |-> 0]

\* A document of one owner, which is its company's.
OwnedOnce(d) ==
  /\ (d.vehicleId = Unset) # (d.driverId = Unset)
  /\ CompanyOf[IF d.vehicleId = Unset THEN d.driverId ELSE d.vehicleId] = d.companyId

\* One document there is from before.
DocInit(first) == docs = <<first>> /\ held = [w \in Workers |-> Nothing]

\* What is left of a field once it is trimmed.
given(field) == field \notin {Unset, Spaces}

\* Exactly one of a vehicle or a driver.
ownersGiven(input) == given(input.vehicleId) # given(input.driverId)

\* By its identifier alone.
findDocumentAnywhere(company, i) == i \in DOMAIN docs /\ docs[i].live

\* scoped: of the company, and not retired.
findDocument(company, i) ==
  i \in DOMAIN docs /\ docs[i].companyId = company /\ docs[i].live

\* The owner is found among what the company has.
ownerFound(company, input) ==
  CompanyOf[IF given(input.vehicleId) THEN input.vehicleId ELSE input.driverId] = company

\* The fields that are given replace the document's: the owner too.
applyDocumentMoving(d, input) ==
  [d EXCEPT !.docType = IF input.docType = Unset THEN @ ELSE input.docType,
            !.vehicleId = IF given(input.vehicleId) THEN input.vehicleId ELSE @]

\* The owner is fixed.
applyDocument(d, input) ==
  [d EXCEPT !.docType = IF input.docType = Unset THEN @ ELSE input.docType]

newDocument(company, input) ==
  [companyId |-> company, vehicleId |-> IF given(input.vehicleId) THEN input.vehicleId ELSE Unset,
   driverId |-> IF given(input.vehicleId) THEN Unset ELSE input.driverId,
   docType |-> Unset, live |-> TRUE]

Hold(w, i, d) == held' = [held EXCEPT ![w] = [id |-> i, doc |-> d]] /\ UNCHANGED docs
Holds(w) == held[w] # Nothing
Release(w) == held' = [held EXCEPT ![w] = Nothing]

\* The first half of each operation: what it looks up.  An owner that is the
\* company's may have been retired.
CreateFinds(w, company, input) ==
  /\ ~Holds(w)
  /\ ownersGiven(input) /\ ownerFound(company, input) /\ given(input.docType)
  /\ Hold(w, Len(docs) + 1, applyDocument(newDocument(company, input), input))

UpdateFinds(w, company, i, input) ==
  /\ ~Holds(w)
  /\ findDocument(company, i)
  /\ Hold(w, i, applyDocument(docs[i], input))

DeleteFinds(w, company, i) ==
  /\ ~Holds(w)
  /\ findDocument(company, i)
  /\ Hold(w, i, docs[i])

\* The second half: an insert, under an identifier of its own; a replacement of
\* the whole document, whoever has changed or retired it since, which the
\* schema refuses without a type; a mark on whatever is there then.
CreateWrites(w) == Holds(w) /\ docs' = Append(docs, held[w].doc) /\ Release(w)

UpdateWrites(w) ==
  /\ Holds(w) /\ given(held[w].doc.docType)
  /\ docs' = [docs EXCEPT ![held[w].id] = held[w].doc]
  /\ Release(w)

DeleteWrites(w) ==
  /\ Holds(w)
  /\ docs' = [docs EXCEPT ![held[w].id].live = FALSE]
  /\ Release(w)

-----------------------------------------------------------------------------
\* A document belongs to a vehicle or to a driver, never to both or to neither,
\* and to one of its own company's (Document: "Exactly one owner"; the schema:
\* "The validator cannot say 'one of'; the service enforces it").
OneOwnerEach == \A i \in DOMAIN docs : OwnedOnce(docs[i])
=============================================================================
