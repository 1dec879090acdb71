---------------------------- MODULE SitesProofs ----------------------------
(***************************************************************************)
(* What holds of the sites for any tokens, companies, requests and bodies: *)
(* only the owner of a site changes it, a displaced session is refused, a  *)
(* site has one default contact and its older fields show it.              *)
(*                                                                         *)
(* OnlyTheOwnerWrites is a property of steps, and a replace happens long   *)
(* after the gate let its request in.  What has to be carried from one to  *)
(* the other is Held: the copy a request holds is of a site that is still  *)
(* there and still of the company the request was let in for.             *)
(***************************************************************************)
EXTENDS Sites, SequenceTheorems, FiniteSetTheorems, WellFoundedInduction, TLAPS

\* Documents have a company, which an update of their other fields keeps.
HasCompany == \A i \in Ids : "company" \in DOMAIN sites[i]

Held ==
  \A r \in Requests : edit[r] # Idle =>
    /\ edit[r].id \in Ids
    /\ "company" \in DOMAIN edit[r].doc
    /\ edit[r].doc.company \in Companies
    /\ edit[r].doc.company = sites[edit[r].id].company
    /\ MayWrite(edit[r].token, edit[r].doc.company)

OwnerInv ==
  /\ DOMAIN sites = Ids /\ DOMAIN edit = Requests
  /\ HasCompany
  /\ Held

\* What the gate lets in for the sites is staff, or somebody of the company
\* the request is for, which has bought them (RequireModule, caller).
LEMMA AdmittedMayWrite ==
  ASSUME NEW t \in Tokens, NEW company \in Companies, NEW action,
         action \in {"create", "update", "delete"},
         Admit(t, <<"warehouse", action>>, company)
  PROVE  MayWrite(t, company)
<1> DEFINE key == <<"warehouse", action>>
<1>1. CASE PrincipalOf[t].staff
  BY <1>1 DEF MayWrite
<1>2. CASE ~PrincipalOf[t].staff
  <2>1. company = PrincipalOf[t].company
    BY <1>2, GateAssumption DEF Admit, caller
  <2>2. FeatureHeld(PrincipalOf[t].access["tms"], "tms", key)
    BY <1>2 DEF Admit, RequireModule, HasPermission, serviceProduct
  <2>3. FeatureFor("tms", key) = "warehouse"
    BY DEF FeatureFor
  <2>4. "warehouse" # None
    BY SubjectAssumption DEF tmsCatalog
  <2>5. "warehouse" \in PrincipalOf[t].access["tms"].features
    BY <2>2, <2>3, <2>4 DEF FeatureHeld
  <2> QED
    BY <2>1, <2>5 DEF MayWrite
<1> QED
  BY <1>1, <1>2

\* The contacts a form changes leave the company of the site alone.
LEMMA ContactsKeepCompany ==
  ASSUME NEW doc, "company" \in DOMAIN doc, NEW in
  PROVE  /\ "company" \in DOMAIN ApplyPICs(doc, in)
         /\ ApplyPICs(doc, in).company = doc.company
BY DEF ApplyPICs

\* Nor does the rest of an edit.
LEMMA EditKeepsCompany ==
  ASSUME NEW doc, "company" \in DOMAIN doc, NEW in
  PROVE  /\ "company" \in DOMAIN Edited(doc, in)
         /\ Edited(doc, in).company = doc.company
<1> DEFINE changed == ApplyPICs(doc, in)
<1>1. "company" \in DOMAIN changed /\ changed.company = doc.company
  BY ContactsKeepCompany
<1> HIDE DEF changed
<1>2. Edited(doc, in) =
        [changed EXCEPT
           !.name = IF trim(in.name) # "" THEN trim(in.name) ELSE @,
           !.location = IF in.point # "none" THEN geoPoint(in.point) ELSE @,
           !.radius = IF in.radius # "none" THEN in.radius ELSE @]
  BY DEF Edited, changed
<1> QED
  BY <1>1, <1>2

\* A new site belongs to the company the request is for.
LEMMA NewSiteCompany ==
  ASSUME NEW company, NEW in
  PROVE  /\ "company" \in DOMAIN ApplyPICs(NewSite(company, in), in)
         /\ ApplyPICs(NewSite(company, in), in).company = company
<1>1. "company" \in DOMAIN NewSite(company, in) /\ NewSite(company, in).company = company
  BY DEF NewSite
<1> QED
  BY <1>1, ContactsKeepCompany

OwnerStep ==
  \A i \in Ids : sites'[i] # sites[i] =>
    /\ MayWrite(wrote', sites'[i].company)
    /\ sites[i] # Absent => sites'[i].company = sites[i].company

LEMMA InitOwner == Init => OwnerInv
<1> SUFFICES ASSUME Init PROVE OwnerInv
  OBVIOUS
<1>1. DOMAIN sites = Ids /\ DOMAIN edit = Requests
  BY DEF Init
<1>2. HasCompany
  BY DEF Init, HasCompany, Absent
<1>3. Held
  BY DEF Init, Held
<1> QED
  BY <1>1, <1>2, <1>3 DEF OwnerInv

\* A write of a document that keeps the company of the one there, or is the
\* first, by somebody who may, leaves every copy in flight as good as it was.
LEMMA WriteKeepsOwner ==
  ASSUME OwnerInv, NEW i \in Ids, NEW doc, NEW t,
         "company" \in DOMAIN doc, MayWrite(t, doc.company),
         sites[i] # Absent => doc.company = sites[i].company,
         Write(i, doc, t)
  PROVE  /\ DOMAIN sites' = Ids
         /\ HasCompany'
         /\ \A j \in Ids : sites[j] # Absent => sites'[j].company = sites[j].company
         /\ OwnerStep
<1>1. sites' = [sites EXCEPT ![i] = doc] /\ wrote' = t
  BY DEF Write
<1>2. DOMAIN sites' = Ids
  BY <1>1 DEF OwnerInv
<1>3. \A j \in Ids : sites'[j] = IF j = i THEN doc ELSE sites[j]
  BY <1>1 DEF OwnerInv
<1>4. HasCompany'
  BY <1>3 DEF OwnerInv, HasCompany
<1>5. \A j \in Ids : sites[j] # Absent => sites'[j].company = sites[j].company
  BY <1>3
<1>6. OwnerStep
  BY <1>1, <1>3 DEF OwnerStep
<1> QED
  BY <1>2, <1>4, <1>5, <1>6

\* Copies that were in flight stay as good while no site that is there changes
\* hands.
LEMMA HeldStays ==
  ASSUME OwnerInv, NEW r \in Requests, edit[r] # Idle,
         \A j \in Ids : sites[j] # Absent => sites'[j].company = sites[j].company
  PROVE  sites'[edit[r].id].company = edit[r].doc.company
<1>1. edit[r].id \in Ids /\ sites[edit[r].id].company \in Companies
  BY DEF OwnerInv, Held
<1>2. sites[edit[r].id] # Absent
  BY <1>1, GateAssumption DEF Absent
<1> QED
  BY <1>1, <1>2 DEF OwnerInv, Held

LEMMA NextOwner ==
  ASSUME OwnerInv, [Next]_vars
  PROVE  OwnerInv' /\ OwnerStep
<1> USE DEF OwnerInv
<1>1. ASSUME UNCHANGED <<sites, edit>>
      PROVE  OwnerInv' /\ OwnerStep
  BY <1>1 DEF HasCompany, Held, OwnerStep, MayWrite
<1>2. ASSUME NEW t \in Passing, EndSession(t) \/ Expire(t) \/ SignIn(t)
      PROVE  OwnerInv' /\ OwnerStep
  BY <1>1, <1>2 DEF EndSession, Expire, SignIn, NoWrite
<1>3. ASSUME NEW t \in Tokens, NEW c \in Companies, NEW in \in Inputs, NEW i \in Ids,
             CreateSite(t, c, in, i)
      PROVE  OwnerInv' /\ OwnerStep
  <2> DEFINE doc == ApplyPICs(NewSite(c, in), in)
  <2>1. /\ sites[i] = Absent
        /\ Admit(t, <<"warehouse", "create">>, c)
        /\ Write(i, doc, t)
        /\ edit' = edit
    BY <1>3 DEF CreateSite
  <2>2. "company" \in DOMAIN doc /\ doc.company = c
    BY NewSiteCompany
  <2> HIDE DEF doc
  <2>3. MayWrite(t, doc.company)
    BY <2>1, <2>2, AdmittedMayWrite
  <2>4. /\ DOMAIN sites' = Ids
        /\ HasCompany'
        /\ \A j \in Ids : sites[j] # Absent => sites'[j].company = sites[j].company
        /\ OwnerStep
    BY <2>1, <2>2, <2>3, WriteKeepsOwner
  <2>5. Held'
    BY <2>1, <2>4, HeldStays DEF Held, MayWrite
  <2> QED
    BY <2>1, <2>4, <2>5
<1>4. ASSUME NEW r \in Requests, NEW t \in Tokens, NEW c \in Companies, NEW in \in Inputs,
             NEW i \in Ids, UpdateSiteRead(r, t, c, in, i)
      PROVE  OwnerInv' /\ OwnerStep
  <2> DEFINE doc == Edited(sites[i], in)
  <2>1. /\ sites[i].company = c
        /\ Admit(t, <<"warehouse", "update">>, c)
        /\ edit' = [edit EXCEPT ![r] = [token |-> t, id |-> i, doc |-> doc]]
        /\ sites' = sites
    BY <1>4 DEF UpdateSiteRead, Found, NoWrite
  <2>2. "company" \in DOMAIN doc /\ doc.company = c
    BY <2>1, EditKeepsCompany DEF HasCompany
  <2> HIDE DEF doc
  <2>3. MayWrite(t, c)
    BY <2>1, AdmittedMayWrite
  <2>4. Held'
    BY <2>1, <2>2, <2>3 DEF Held, MayWrite
  <2> QED
    BY <2>1, <2>4 DEF HasCompany, OwnerStep
<1>5. ASSUME NEW r \in Requests, UpdateSiteReplace(r)
      PROVE  OwnerInv' /\ OwnerStep
  <2>1. /\ edit[r] # Idle
        /\ Write(edit[r].id, edit[r].doc, edit[r].token)
        /\ edit' = [edit EXCEPT ![r] = Idle]
    BY <1>5 DEF UpdateSiteReplace
  <2>2. /\ DOMAIN sites' = Ids
        /\ HasCompany'
        /\ \A j \in Ids : sites[j] # Absent => sites'[j].company = sites[j].company
        /\ OwnerStep
    BY <2>1, WriteKeepsOwner DEF Held
  <2>3. Held'
    BY <2>1, <2>2, HeldStays DEF Held, MayWrite
  <2> QED
    BY <2>1, <2>2, <2>3
<1>6. ASSUME NEW r \in Requests, UpdateSiteFails(r)
      PROVE  OwnerInv' /\ OwnerStep
  BY <1>6 DEF UpdateSiteFails, NoWrite, HasCompany, Held, OwnerStep, MayWrite
<1>7. ASSUME NEW t \in Tokens, NEW c \in Companies, NEW i \in Ids, DeleteSite(t, c, i)
      PROVE  OwnerInv' /\ OwnerStep
  <2> DEFINE doc == [sites[i] EXCEPT !.deleted = TRUE]
  <2>1. /\ sites[i].company = c
        /\ Admit(t, <<"warehouse", "delete">>, c)
        /\ Write(i, doc, t)
        /\ edit' = edit
    BY <1>7 DEF DeleteSite, Found
  <2>2. "company" \in DOMAIN doc /\ doc.company = sites[i].company
    BY DEF HasCompany
  <2> HIDE DEF doc
  <2>3. MayWrite(t, doc.company)
    BY <2>1, <2>2, AdmittedMayWrite
  <2>4. /\ DOMAIN sites' = Ids
        /\ HasCompany'
        /\ \A j \in Ids : sites[j] # Absent => sites'[j].company = sites[j].company
        /\ OwnerStep
    BY <2>1, <2>2, <2>3, WriteKeepsOwner
  <2>5. Held'
    BY <2>1, <2>4, HeldStays DEF Held, MayWrite
  <2> QED
    BY <2>1, <2>4, <2>5
<1>8. CASE UNCHANGED vars
  BY <1>1, <1>8 DEF vars
<1> QED
  BY <1>2, <1>3, <1>4, <1>5, <1>6, <1>7, <1>8 DEF Next

\* A site changes only for staff or for the company it belongs to, and never
\* moves to another company, for any tokens and requests, though an edit is
\* written by its id alone and long after it was let in (routes.go, UpdateSite,
\* Store.Update).
THEOREM OwnersOnly == Spec => OnlyTheOwnerWrites
<1>1. Init => OwnerInv
  BY InitOwner
<1>2. OwnerInv /\ [Next]_vars => OwnerInv'
  BY NextOwner
<1>3. OwnerInv /\ [Next]_vars => [\A i \in Ids : sites'[i] # sites[i] =>
       /\ MayWrite(wrote', sites'[i].company)
       /\ sites[i] # Absent => sites'[i].company = sites[i].company]_vars
  BY NextOwner DEF OwnerStep
<1> QED
  BY <1>1, <1>2, <1>3, PTL DEF Spec, OnlyTheOwnerWrites

\* A single-device session that was displaced is never let in again, though its
\* token still verifies (RequireAuthWithRevocations asks the authentication
\* service about every such session).
THEOREM DisplacedSessions == Spec => []DisplacedIsRefused
<1>1. Init => DisplacedIsRefused
  BY DEF Init, DisplacedIsRefused
<1>2. DisplacedIsRefused /\ [Next]_vars => DisplacedIsRefused'
  <2> SUFFICES ASSUME DisplacedIsRefused, [Next]_vars PROVE DisplacedIsRefused'
    OBVIOUS
  <2>1. ASSUME NEW t \in Tokens, NEW key, NEW c, Admit(t, key, c)
        PROVE  DisplacedIsRefused'
    <3>1. PrincipalOf[t].singleDevice => t \notin ended
      BY <2>1 DEF Admit, RequireAuth, ValidateToken
    <3> QED
      BY <2>1, <3>1 DEF Admit, DisplacedIsRefused
  <2>2. ASSUME late' = late
        PROVE  DisplacedIsRefused'
    BY <2>2 DEF DisplacedIsRefused
  <2> QED
    BY <2>1, <2>2 DEF Next, vars, EndSession, Expire, SignIn, CreateSite, UpdateSiteRead,
                      UpdateSiteReplace, UpdateSiteFails, DeleteSite
<1> QED
  BY <1>1, <1>2, PTL DEF Spec

-----------------------------------------------------------------------------
(* The contacts.  Whatever forms come, a list that is stored has one       *)
(* default, and the two older fields mirror it: ApplyPICs makes it so from *)
(* any list, and nothing else touches the three fields.                    *)

SiteFields ==
  {"company", "customer", "name", "pics", "picName", "picPhone", "location", "radius", "deleted"}
SitePIC == [name : Texts \ {""}, phone : Texts, isDefault : BOOLEAN]

OneFlagged(pics) ==
  pics # <<>> => \E d \in DOMAIN pics : \A k \in DOMAIN pics : pics[k].isDefault <=> k = d

GoodSite(doc) ==
  /\ DOMAIN doc = SiteFields
  /\ IsDocument(doc)
  /\ OneFlagged(doc.pics)
  /\ doc.picName = MirrorName(doc.pics) /\ doc.picPhone = MirrorPhone(doc.pics)

SitesGood ==
  /\ DOMAIN sites = Ids /\ DOMAIN edit = Requests
  /\ \A i \in Ids : sites[i] = Absent \/ GoodSite(sites[i])
  /\ \A r \in Requests :
       edit[r] # Idle => edit[r].token \in Tokens /\ edit[r].id \in Ids /\ GoodSite(edit[r].doc)
  /\ expired \subseteq Tokens /\ ended \subseteq Tokens /\ late \subseteq Tokens
  /\ wrote \in Tokens \cup {None}

\* The least of some numbers.
LEMMA Least ==
  ASSUME NEW T, T \subseteq Nat, T # {}
  PROVE  \E m \in T : \A k \in T : m <= k
<1>1. \E m \in T : \A k \in T : ~(<<k, m>> \in OpToRel(<, Nat))
  BY NatLessThanWellFounded, WFMin
<1>2. PICK m \in T : \A k \in T : ~(<<k, m>> \in OpToRel(<, Nat))
  BY <1>1
<1>3. \A k \in T : m <= k
  <2> TAKE k \in T
  <2>1. k \in Nat /\ m \in Nat
    OBVIOUS
  <2>2. ~(k < m)
    BY <1>2, <2>1 DEF OpToRel
  <2> QED
    BY <2>1, <2>2
<1> QED
  BY <1>3

\* As many places as there are entries to keep: counted from the left, the
\* entries are numbered without a gap.
LEMMA EveryPlaceIsTaken ==
  ASSUME NEW n \in Nat, NEW F, F \subseteq 1..n, NEW k \in 1..Cardinality(F)
  PROVE  \E i \in F : Cardinality({j \in F : j <= i}) = k
<1> DEFINE upto(i) == {j \in F : j <= i}
           T == {i \in 0..n : k <= Cardinality(upto(i))}
<1>1. IsFiniteSet(F) /\ Cardinality(F) \in Nat
  <2>1. IsFiniteSet(1..n)
    BY FS_Interval
  <2>2. IsFiniteSet(F)
    BY <2>1, FS_Subset
  <2> QED
    BY <2>2, FS_CardinalityType
<1>2. \A j \in F : j \in Nat /\ 1 <= j /\ j <= n
  OBVIOUS
<1>3. \A i : IsFiniteSet(upto(i)) /\ Cardinality(upto(i)) \in Nat
  <2> TAKE i
  <2>1. upto(i) \subseteq F
    OBVIOUS
  <2> QED
    BY <1>1, <2>1, FS_Subset, FS_CardinalityType
<1>4. n \in T /\ T \subseteq Nat
  <2>1. upto(n) = F
    BY <1>2
  <2> QED
    BY <1>1, <2>1
<1>5. PICK i \in T : \A j \in T : i <= j
  BY <1>4, Least
<1> HIDE DEF upto
<1>6. i \in 0..n /\ k <= Cardinality(upto(i)) /\ k \in Nat /\ 1 <= k
  OBVIOUS
<1>7. i # 0
  <2>1. upto(0) = {}
    <3>1. \A j \in F : ~(j <= 0)
      BY <1>2
    <3> QED
      BY <3>1 DEF upto
  <2>2. Cardinality({}) = 0
    BY FS_EmptySet
  <2> QED
    BY <1>6, <2>1, <2>2
<1>8. i - 1 \in 0..n /\ i - 1 \notin T
  BY <1>5, <1>6, <1>7
<1>9. Cardinality(upto(i - 1)) < k
  BY <1>3, <1>6, <1>8
<1>10. CASE i \notin F
  <2>1. \A j \in F : j <= i <=> j <= i - 1
    BY <1>2, <1>6, <1>10
  <2>2. upto(i) = upto(i - 1)
    BY <2>1 DEF upto
  <2> QED
    BY <1>3, <1>6, <1>9, <2>2
<1>11. CASE i \in F
  <2>1. \A j \in F : j <= i <=> j <= i - 1 \/ j = i
    BY <1>2, <1>6
  <2>2. ~(i <= i - 1)
    BY <1>6
  <2>3. upto(i) = upto(i - 1) \cup {i} /\ i \notin upto(i - 1)
    BY <1>11, <2>1, <2>2 DEF upto
  <2>4. Cardinality(upto(i)) = Cardinality(upto(i - 1)) + 1
    BY <1>3, <2>3, FS_AddElement
  <2>5. Cardinality(upto(i)) = k
    <3> DEFINE c == Cardinality(upto(i - 1))
               d == Cardinality(upto(i))
    <3>1. c \in Nat /\ d = c + 1 /\ c < k /\ k <= d
      BY <1>3, <1>6, <1>9, <2>4
    <3> HIDE DEF c, d
    <3>2. d = k
      BY <1>6, <3>1
    <3> QED
      BY <3>2 DEF d
  <2> QED
    BY <1>11, <2>5 DEF upto
<1> QED
  BY <1>10, <1>11

\* A text that was trimmed, or written by the service itself.
LEMMA Trimmed == ASSUME NEW x \in Texts PROVE x # " " /\ trim(x) = x
<1>1. \A y : trim(y) # " "
  BY DEF trim
<1>2. x # " "
  BY <1>1 DEF Texts
<1> QED
  BY <1>2 DEF trim

LEMMA TextsOfAList ==
  ASSUME NEW body \in Inputs, body.pics # NoList, NEW q \in DOMAIN body.pics
  PROVE  trim(body.pics[q].name) \in Texts /\ trim(body.pics[q].phone) \in Texts
<1>1. body.pics[q] \in Entered
  BY DEF Entered
<1> QED
  BY <1>1 DEF Texts

LEMMA TextsOfOne ==
  ASSUME NEW body \in Inputs
  PROVE  trim(body.picName) \in Texts /\ trim(body.picPhone) \in Texts
BY DEF Texts

\* The entries of a list form that stay are trimmed, and have names.
LEMMA KeptIsAList ==
  ASSUME NEW body \in Inputs, body.pics # NoList, ~Nameless(body.pics)
  PROVE  Kept(body.pics) \in Seq(SitePIC)
<1> DEFINE list == body.pics
           n == Len(list)
           filled == {i \in DOMAIN list : trim(list[i].name) # "" \/ trim(list[i].phone) # ""}
           at(k) == CHOOSE i \in filled : Cardinality({j \in filled : j <= i}) = k
           entry(k) == [list[at(k)] EXCEPT !.name = trim(@), !.phone = trim(@)]
           m == Cardinality(filled)
<1>1. n \in Nat /\ DOMAIN list = 1..n
  BY SitesAssumption DEF IsBody
<1>2. filled \subseteq 1..n
  BY <1>1
<1>3. m \in Nat
  <2> HIDE DEF filled
  <2>1. IsFiniteSet(1..n)
    BY <1>1, FS_Interval
  <2>2. IsFiniteSet(filled)
    BY <1>2, <2>1, FS_Subset
  <2> QED
    BY <2>2, FS_CardinalityType
<1>4. ASSUME NEW k \in 1..m PROVE entry(k) \in SitePIC
  <2>1. \E i \in filled : Cardinality({j \in filled : j <= i}) = k
    <3> HIDE DEF filled, n
    <3> QED
      BY <1>1, <1>2, EveryPlaceIsTaken
  <2>2. at(k) \in filled
    BY <2>1
  <2> DEFINE i == at(k)
  <2> HIDE DEF i
  <2>3. i \in DOMAIN list /\ (trim(list[i].name) # "" \/ trim(list[i].phone) # "")
    BY <2>2 DEF i
  <2>4. trim(list[i].name) # ""
    BY <2>3 DEF Nameless
  <2>5. DOMAIN list[i] = {"name", "phone", "isDefault"} /\ list[i].isDefault \in BOOLEAN
    BY <2>3, SitesAssumption DEF IsBody
  <2>6. trim(list[i].name) \in Texts /\ trim(list[i].phone) \in Texts
    BY <2>3, TextsOfAList
  <2>7. [list[i] EXCEPT !.name = trim(@), !.phone = trim(@)] \in SitePIC
    <3> DEFINE e == list[i]
               f == [e EXCEPT !.name = trim(@), !.phone = trim(@)]
    <3>1. DOMAIN e = {"name", "phone", "isDefault"}
      BY <2>5
    <3> HIDE DEF e
    <3>2. /\ f = [x \in {"name", "phone", "isDefault"} |-> f[x]]
          /\ f.name = trim(e.name) /\ f.phone = trim(e.phone) /\ f.isDefault = e.isDefault
      BY <3>1
    <3>3. f.name \in Texts \ {""} /\ f.phone \in Texts /\ f.isDefault \in BOOLEAN
      BY <2>4, <2>5, <2>6, <3>2 DEF e
    <3> HIDE DEF f
    <3>4. f \in SitePIC
      BY <3>2, <3>3 DEF SitePIC
    <3> QED
      BY <3>4 DEF f, e
  <2> QED
    BY <2>7 DEF i
<1>5. Kept(body.pics) = [k \in 1..m |-> entry(k)]
  BY DEF Kept
<1> HIDE DEF m, entry
<1>6. [k \in 1..m |-> entry(k)] \in [1..m -> SitePIC]
  BY <1>4
<1> QED
  BY <1>3, <1>5, <1>6, SeqDef

LEMMA FirstFlagged ==
  ASSUME NEW pics \in Seq(SitePIC)
  PROVE  \/ DefaultIndex(pics) = 0 /\ \A i \in DOMAIN pics : ~pics[i].isDefault
         \/ DefaultIndex(pics) \in DOMAIN pics /\ pics[DefaultIndex(pics)].isDefault
<1> DEFINE flagged == {i \in DOMAIN pics : pics[i].isDefault}
<1>1. DefaultIndex(pics) = IF flagged = {} THEN 0
                           ELSE CHOOSE i \in flagged : \A j \in flagged : i <= j
  BY DEF DefaultIndex
<1>2. CASE flagged = {}
  BY <1>1, <1>2
<1>3. CASE flagged # {}
  <2>1. flagged \subseteq Nat
    OBVIOUS
  <2>2. \E i \in flagged : \A j \in flagged : i <= j
    BY <1>3, <2>1, Least
  <2>3. DefaultIndex(pics) \in flagged
    BY <1>1, <1>3, <2>2
  <2> QED
    BY <2>3
<1> QED
  BY <1>2, <1>3

\* A contact whose flag is set anew.
LEMMA Flagged ==
  ASSUME NEW p \in SitePIC, NEW b \in BOOLEAN
  PROVE  [p EXCEPT !.isDefault = b] \in SitePIC /\ [p EXCEPT !.isDefault = b].isDefault = b
BY DEF SitePIC

LEMMA OnlyDefaultIsOne ==
  ASSUME NEW pics \in Seq(SitePIC), NEW d, pics # <<>> => d \in DOMAIN pics
  PROVE  OnlyDefault(pics, d) \in Seq(SitePIC) /\ OneFlagged(OnlyDefault(pics, d))
<1> DEFINE n == Len(pics)
           r == OnlyDefault(pics, d)
<1>1. n \in Nat /\ DOMAIN pics = 1..n /\ \A i \in 1..n : pics[i] \in SitePIC
  OBVIOUS
<1>2. r = [i \in 1..n |-> [pics[i] EXCEPT !.isDefault = (i = d)]]
  BY <1>1 DEF OnlyDefault
<1>3. \A i \in 1..n : r[i] \in SitePIC /\ (r[i].isDefault <=> i = d)
  <2> TAKE i \in 1..n
  <2> DEFINE b == (i = d)
  <2>1. b \in BOOLEAN /\ pics[i] \in SitePIC
    BY <1>1
  <2>2. r[i] = [pics[i] EXCEPT !.isDefault = b]
    BY <1>2
  <2> HIDE DEF b, r
  <2>3. r[i] \in SitePIC /\ r[i].isDefault = b
    BY <2>1, <2>2, Flagged
  <2> QED
    BY <2>3 DEF b
<1>4. DOMAIN r = 1..n /\ r \in [1..n -> SitePIC]
  BY <1>2, <1>3
<1>5. r \in Seq(SitePIC)
  BY <1>1, <1>4, SeqDef
<1> HIDE DEF r
<1>6. r # <<>> => d \in DOMAIN r
  <2>1. r # <<>> => Len(r) # 0
    BY <1>5, EmptySeq
  <2>2. Len(r) = n
    BY <1>1, <1>4, <1>5
  <2> QED
    BY <1>1, <1>4, <2>1, <2>2
<1>7. OneFlagged(r)
  BY <1>3, <1>4, <1>6 DEF OneFlagged
<1> QED
  BY <1>5, <1>7 DEF r

\* The list form: one of the entries kept is the default.
LEMMA ListForm ==
  ASSUME NEW body \in Inputs, body.pics # NoList, ~Nameless(body.pics)
  PROVE  ReplacePICs(body.pics) \in Seq(SitePIC) /\ OneFlagged(ReplacePICs(body.pics))
<1> DEFINE kept == Kept(body.pics)
           d == IF DefaultIndex(kept) = 0 THEN 1 ELSE DefaultIndex(kept)
<1>1. kept \in Seq(SitePIC)
  BY KeptIsAList
<1>2. ReplacePICs(body.pics) = OnlyDefault(kept, d)
  BY DEF ReplacePICs
<1> HIDE DEF kept
<1>3. kept # <<>> => 1 \in DOMAIN kept
  BY <1>1
<1>4. kept # <<>> => d \in DOMAIN kept
  BY <1>1, <1>3, FirstFlagged
<1> HIDE DEF d
<1> QED
  BY <1>1, <1>2, <1>4, OnlyDefaultIsOne

\* The older form: the default is edited, or added as the only one.
LEMMA SingleForm ==
  ASSUME NEW pics \in Seq(SitePIC), OneFlagged(pics), NEW name \in Texts, NEW phone \in Texts
  PROVE  /\ EditDefault(pics, name, phone) \in Seq(SitePIC)
         /\ OneFlagged(EditDefault(pics, name, phone))
<1> DEFINE d == DefaultIndex(pics)
           added == [name |-> IF name = "" THEN "PIC" ELSE name,
                     phone |-> phone, isDefault |-> TRUE]
           changed == [pics[d] EXCEPT !.name = IF name = "" THEN @ ELSE name,
                                      !.phone = IF phone = "" THEN @ ELSE phone]
           r == [pics EXCEPT ![d] = changed]
<1>1. EditDefault(pics, name, phone) =
        IF d = 0 THEN OnlyDefault(Append(pics, added), Len(pics) + 1) ELSE r
  BY DEF EditDefault
<1>2. CASE d = 0
  <2>1. added \in SitePIC
    <3>1. "PIC" \in Texts
      BY DEF Texts
    <3> QED
      BY <3>1 DEF SitePIC
  <2> DEFINE more == Append(pics, added)
  <2> HIDE DEF added
  <2>2. more \in Seq(SitePIC) /\ Len(more) = Len(pics) + 1 /\ Len(pics) \in Nat
    BY <2>1, AppendProperties, LenProperties
  <2> HIDE DEF more
  <2>3. Len(pics) + 1 \in DOMAIN more
    BY <2>2
  <2>4. OnlyDefault(more, Len(pics) + 1) \in Seq(SitePIC)
          /\ OneFlagged(OnlyDefault(more, Len(pics) + 1))
    BY <2>2, <2>3, OnlyDefaultIsOne
  <2> QED
    BY <1>1, <1>2, <2>4 DEF more
<1>3. CASE d # 0
  <2>1. d \in DOMAIN pics /\ pics[d] \in SitePIC
    BY <1>3, FirstFlagged
  <2>2. changed \in SitePIC /\ changed.isDefault = pics[d].isDefault
    <3> DEFINE p == pics[d]
    <3> HIDE DEF p
    <3>1. p \in SitePIC
      BY <2>1 DEF p
    <3>2. /\ [p EXCEPT !.name = IF name = "" THEN @ ELSE name,
                       !.phone = IF phone = "" THEN @ ELSE phone] \in SitePIC
          /\ [p EXCEPT !.name = IF name = "" THEN @ ELSE name,
                       !.phone = IF phone = "" THEN @ ELSE phone].isDefault = p.isDefault
      BY <3>1 DEF SitePIC
    <3> QED
      BY <3>2 DEF p
  <2> HIDE DEF changed, d
  <2>3. /\ r \in Seq(SitePIC) /\ DOMAIN r = DOMAIN pics
        /\ \A i \in DOMAIN pics : r[i] = IF i = d THEN changed ELSE pics[i]
    BY <2>1, <2>2
  <2> HIDE DEF r
  <2>4. \A i \in DOMAIN pics : r[i].isDefault = pics[i].isDefault
    BY <2>2, <2>3
  <2>5. pics # <<>>
    BY <2>1
  <2>6. OneFlagged(r)
    BY <2>3, <2>4, <2>5 DEF OneFlagged
  <2> QED
    BY <1>1, <1>3, <2>3, <2>6 DEF r, d
<1> QED
  BY <1>2, <1>3

\* What the two older fields show of such a list.
LEMMA Mirrors ==
  ASSUME NEW pics \in Seq(SitePIC), OneFlagged(pics)
  PROVE  /\ MirrorName(pics) \in (Texts \ {""}) \cup {NoText}
         /\ MirrorPhone(pics) \in (Texts \ {""}) \cup {NoText}
         /\ \/ pics = <<>> /\ MirrorName(pics) = NoText /\ MirrorPhone(pics) = NoText
            \/ \E d \in DOMAIN pics :
                 /\ pics[d].isDefault
                 /\ MirrorName(pics) = pics[d].name
                 /\ MirrorPhone(pics) = IF pics[d].phone = "" THEN NoText ELSE pics[d].phone
<1> DEFINE d == DefaultIndex(pics)
<1>1. CASE d = 0
  <2>1. pics = <<>>
    BY <1>1, FirstFlagged DEF OneFlagged
  <2> QED
    BY <1>1, <2>1 DEF MirrorName, MirrorPhone
<1>2. CASE d # 0
  <2>1. d \in DOMAIN pics /\ pics[d].isDefault /\ pics[d] \in SitePIC
    BY <1>2, FirstFlagged
  <2>2. pics[d].name \in Texts \ {""} /\ pics[d].phone \in Texts
    BY <2>1 DEF SitePIC
  <2>3. trim(pics[d].name) = pics[d].name /\ trim(pics[d].phone) = pics[d].phone
    BY <2>2, Trimmed
  <2>4. /\ MirrorName(pics) = pics[d].name
        /\ MirrorPhone(pics) = IF pics[d].phone = "" THEN NoText ELSE pics[d].phone
    BY <1>2, <2>2, <2>3 DEF MirrorName, MirrorPhone, nilIfBlank
  <2> QED
    BY <2>1, <2>2, <2>4
<1> QED
  BY <1>1, <1>2

\* ApplyPICs makes a good site of a good one, and of a new one.
LEMMA ApplyIsGood ==
  ASSUME NEW doc, DOMAIN doc = SiteFields, NEW in \in Inputs,
         doc.pics \in Seq(SitePIC), OneFlagged(doc.pics),
         in.pics # NoList => ~Nameless(in.pics),
         doc.company \in Companies, doc.customer \in Customers \cup {None}, doc.name \in Names,
         doc.location \in Points \cup {None}, doc.radius \in {"default", "own"},
         doc.deleted \in BOOLEAN
  PROVE  GoodSite(ApplyPICs(doc, in))
<1> DEFINE pics == NewPICs(doc.pics, in)
           site == ApplyPICs(doc, in)
<1>1. pics \in Seq(SitePIC) /\ OneFlagged(pics)
  BY ListForm, SingleForm, TextsOfOne DEF NewPICs
<1>2. site = [doc EXCEPT !.pics = pics, !.picName = MirrorName(pics),
                         !.picPhone = MirrorPhone(pics)]
  BY DEF ApplyPICs
<1> HIDE DEF pics, site
<1>3. /\ DOMAIN site = SiteFields
      /\ site.pics = pics /\ site.picName = MirrorName(pics)
      /\ site.picPhone = MirrorPhone(pics)
      /\ site.company = doc.company /\ site.customer = doc.customer /\ site.name = doc.name
      /\ site.location = doc.location /\ site.radius = doc.radius /\ site.deleted = doc.deleted
  BY <1>2 DEF SiteFields
<1>4. /\ site.picName \in (Texts \ {""}) \cup {NoText}
      /\ site.picPhone \in (Texts \ {""}) \cup {NoText}
  BY <1>1, <1>3, Mirrors
<1>5. IsDocument(site)
  BY <1>1, <1>3, <1>4 DEF IsDocument, SitePIC
<1> QED
  BY <1>1, <1>3, <1>5 DEF GoodSite, site

LEMMA NewSiteIsGood ==
  ASSUME NEW c \in Companies, NEW in \in Inputs, Acceptable(in), trim(in.name) # ""
  PROVE  GoodSite(ApplyPICs(NewSite(c, in), in))
<1> DEFINE doc == NewSite(c, in)
<1>1. DOMAIN doc = SiteFields
  BY DEF NewSite, SiteFields
<1>2. doc.pics = <<>> /\ doc.company = c /\ doc.name = trim(in.name) /\ doc.deleted = FALSE
  BY DEF NewSite
<1>3. doc.customer \in Customers \cup {None}
  BY DEF NewSite
<1>4. doc.location \in Points \cup {None} /\ doc.radius \in {"default", "own"}
  BY SitesAssumption DEF NewSite, Acceptable, IsBody, geoPoint, BadPoints
<1>5. doc.name \in Names
  BY <1>2, SitesAssumption DEF IsBody
<1> HIDE DEF doc
<1>6. doc.pics \in Seq(SitePIC) /\ OneFlagged(doc.pics)
  <2>1. <<>> \in Seq(SitePIC)
    BY EmptySeq
  <2>2. OneFlagged(<<>>)
    BY DEF OneFlagged
  <2> QED
    BY <1>2, <2>1, <2>2
<1>7. in.pics # NoList => ~Nameless(in.pics)
  BY DEF Acceptable
<1>8. GoodSite(ApplyPICs(doc, in))
  BY <1>1, <1>2, <1>3, <1>4, <1>5, <1>6, <1>7, ApplyIsGood
<1> QED
  BY <1>8 DEF doc

LEMMA EditedIsGood ==
  ASSUME NEW doc, GoodSite(doc), NEW in \in Inputs, Acceptable(in)
  PROVE  GoodSite(Edited(doc, in))
<1> DEFINE site == ApplyPICs(doc, in)
           r == Edited(doc, in)
<1>1. in.pics # NoList => ~Nameless(in.pics)
  BY DEF Acceptable
<1>2. doc.pics \in Seq(SitePIC) /\ OneFlagged(doc.pics) /\ DOMAIN doc = SiteFields
  BY DEF GoodSite, IsDocument, SitePIC
<1>3. GoodSite(site)
  BY <1>1, <1>2, ApplyIsGood DEF GoodSite, IsDocument
<1>4. r = [site EXCEPT
             !.name = IF trim(in.name) # "" THEN trim(in.name) ELSE @,
             !.location = IF in.point # "none" THEN geoPoint(in.point) ELSE @,
             !.radius = IF in.radius # "none" THEN in.radius ELSE @]
  BY DEF Edited
<1> HIDE DEF site, r
<1>5. DOMAIN site = SiteFields /\ IsDocument(site)
  BY <1>3 DEF GoodSite
<1>6. /\ DOMAIN r = SiteFields
      /\ r.name = IF trim(in.name) # "" THEN trim(in.name) ELSE site.name
      /\ r.location = IF in.point # "none" THEN geoPoint(in.point) ELSE site.location
      /\ r.radius = IF in.radius # "none" THEN in.radius ELSE site.radius
      /\ r.pics = site.pics /\ r.picName = site.picName /\ r.picPhone = site.picPhone
      /\ r.company = site.company /\ r.customer = site.customer /\ r.deleted = site.deleted
  BY <1>4, <1>5 DEF SiteFields
<1>7. r.name \in Names /\ r.location \in Points \cup {None} /\ r.radius \in {"default", "own"}
  BY <1>5, <1>6, SitesAssumption DEF IsDocument, Acceptable, IsBody, geoPoint, BadPoints
<1>8. IsDocument(r)
  BY <1>5, <1>6, <1>7 DEF IsDocument
<1>9. GoodSite(r)
  BY <1>3, <1>6, <1>8 DEF GoodSite
<1> QED
  BY <1>9 DEF r

LEMMA RetiredIsGood ==
  ASSUME NEW doc, GoodSite(doc) PROVE GoodSite([doc EXCEPT !.deleted = TRUE])
<1> DEFINE r == [doc EXCEPT !.deleted = TRUE]
<1>1. /\ DOMAIN r = SiteFields /\ r.deleted = TRUE
      /\ r.name = doc.name /\ r.location = doc.location /\ r.radius = doc.radius
      /\ r.pics = doc.pics /\ r.picName = doc.picName /\ r.picPhone = doc.picPhone
      /\ r.company = doc.company /\ r.customer = doc.customer
  BY DEF GoodSite, SiteFields
<1> HIDE DEF r
<1>2. GoodSite(r)
  BY <1>1 DEF GoodSite, IsDocument
<1> QED
  BY <1>2 DEF r

LEMMA InitGood == Init => SitesGood
BY DEF Init, SitesGood

LEMMA GoodStays ==
  ASSUME SitesGood, [Next]_vars PROVE SitesGood'
<1> USE DEF SitesGood
<1>1. ASSUME NEW t \in Passing, EndSession(t) \/ Expire(t) \/ SignIn(t)
      PROVE  SitesGood'
  <2>1. t \in Tokens
    BY SitesAssumption
  <2>2. sites' = sites /\ edit' = edit /\ late' = late /\ wrote' = None
    BY <1>1 DEF EndSession, Expire, SignIn, NoWrite
  <2>3. expired' \subseteq Tokens /\ ended' \subseteq Tokens
    BY <1>1, <2>1 DEF EndSession, Expire, SignIn
  <2> QED
    BY <2>2, <2>3
<1>2. ASSUME NEW i \in Ids, NEW doc, GoodSite(doc), NEW t \in Tokens, Write(i, doc, t)
      PROVE  /\ DOMAIN sites' = Ids
             /\ \A j \in Ids : sites'[j] = Absent \/ GoodSite(sites'[j])
             /\ wrote' \in Tokens \cup {None}
  BY <1>2 DEF Write
<1>3. ASSUME NEW t \in Tokens, NEW key, NEW c, Admit(t, key, c)
      PROVE  late' \subseteq Tokens
  BY <1>3 DEF Admit
<1>4. ASSUME NEW t \in Tokens, NEW c \in Companies, NEW in \in Inputs, NEW i \in Ids,
             CreateSite(t, c, in, i)
      PROVE  SitesGood'
  <2> DEFINE doc == ApplyPICs(NewSite(c, in), in)
  <2>1. GoodSite(doc)
    BY <1>4, NewSiteIsGood DEF CreateSite
  <2>2. Write(i, doc, t) /\ Admit(t, <<"warehouse", "create">>, c)
          /\ edit' = edit /\ expired' = expired /\ ended' = ended
    BY <1>4 DEF CreateSite, sessions
  <2> HIDE DEF doc
  <2> QED
    BY <1>2, <1>3, <2>1, <2>2
<1>5. ASSUME NEW r \in Requests, NEW t \in Tokens, NEW c \in Companies, NEW in \in Inputs,
             NEW i \in Ids, UpdateSiteRead(r, t, c, in, i)
      PROVE  SitesGood'
  <2> DEFINE doc == Edited(sites[i], in)
  <2>1. GoodSite(sites[i])
    BY <1>5 DEF UpdateSiteRead, Found, Live
  <2>2. GoodSite(doc)
    BY <1>5, <2>1, EditedIsGood DEF UpdateSiteRead
  <2>3. /\ edit' = [edit EXCEPT ![r] = [token |-> t, id |-> i, doc |-> doc]]
        /\ sites' = sites /\ wrote' = None /\ expired' = expired /\ ended' = ended
        /\ Admit(t, <<"warehouse", "update">>, c)
    BY <1>5 DEF UpdateSiteRead, sessions, NoWrite
  <2> HIDE DEF doc
  <2> QED
    BY <1>3, <2>2, <2>3
<1>6. ASSUME NEW r \in Requests, UpdateSiteReplace(r)
      PROVE  SitesGood'
  <2>1. /\ edit[r] # Idle /\ Write(edit[r].id, edit[r].doc, edit[r].token)
        /\ edit' = [edit EXCEPT ![r] = Idle]
        /\ expired' = expired /\ ended' = ended /\ late' = late
    BY <1>6 DEF UpdateSiteReplace, sessions
  <2>2. /\ DOMAIN sites' = Ids
        /\ \A j \in Ids : sites'[j] = Absent \/ GoodSite(sites'[j])
        /\ wrote' \in Tokens \cup {None}
    BY <1>2, <2>1
  <2> QED
    BY <2>1, <2>2
<1>7. ASSUME NEW r \in Requests, UpdateSiteFails(r)
      PROVE  SitesGood'
  BY <1>7 DEF UpdateSiteFails, sessions, NoWrite
<1>8. ASSUME NEW t \in Tokens, NEW c \in Companies, NEW i \in Ids, DeleteSite(t, c, i)
      PROVE  SitesGood'
  <2> DEFINE doc == [sites[i] EXCEPT !.deleted = TRUE]
  <2>1. GoodSite(sites[i])
    BY <1>8 DEF DeleteSite, Found, Live
  <2>2. GoodSite(doc)
    BY <2>1, RetiredIsGood
  <2>3. Write(i, doc, t) /\ Admit(t, <<"warehouse", "delete">>, c)
          /\ edit' = edit /\ expired' = expired /\ ended' = ended
    BY <1>8 DEF DeleteSite, sessions
  <2> HIDE DEF doc
  <2> QED
    BY <1>2, <1>3, <2>2, <2>3
<1>9. CASE UNCHANGED vars
  BY <1>9 DEF vars
<1> QED
  BY <1>1, <1>4, <1>5, <1>6, <1>7, <1>8, <1>9 DEF Next

LEMMA GoodAlways == Spec => []SitesGood
<1>1. SitesGood /\ [Next]_vars => SitesGood'
  BY GoodStays
<1> QED
  BY <1>1, InitGood, PTL DEF Spec

\* Whatever bodies are sent, every document and every copy about to replace one
\* has a name, contacts with names, and null rather than "" in the two older
\* fields (Site.BeforeWrite, ApplyPICs, nilIfBlank).
THEOREM SitesTypes == Spec => []TypeOK
<1>1. SitesGood => TypeOK
  BY DEF SitesGood, TypeOK, GoodSite
<1> QED
  BY <1>1, GoodAlways, PTL

\* After any sequence of list forms and single-contact forms, for any number
\* of entries, blank and flagged as they may be, a site with contacts has
\* exactly one default (ApplyPICs).
THEOREM AlwaysOneDefault == Spec => []OneDefault
<1>1. SitesGood => OneDefault
  BY DEF SitesGood, OneDefault, GoodSite, OneFlagged
<1> QED
  BY <1>1, GoodAlways, PTL

\* A reader of the two older fields alone sees the default contact, and nobody
\* when there is none, whichever form wrote the site last (ApplyPICs).
THEOREM OlderReaders == Spec => []OlderReadersSeeTheDefault
<1>1. SitesGood => OlderReadersSeeTheDefault
  <2> SUFFICES ASSUME SitesGood, NEW i \in Ids, sites[i] # Absent
               PROVE  \/ /\ sites[i].pics = <<>>
                         /\ sites[i].picName = NoText /\ sites[i].picPhone = NoText
                      \/ \E d \in DOMAIN sites[i].pics :
                           /\ sites[i].pics[d].isDefault
                           /\ sites[i].picName = sites[i].pics[d].name
                           /\ IF sites[i].pics[d].phone = "" THEN sites[i].picPhone = NoText
                              ELSE sites[i].picPhone = sites[i].pics[d].phone
    BY DEF OlderReadersSeeTheDefault
  <2> DEFINE pics == sites[i].pics
  <2>1. /\ pics \in Seq(SitePIC) /\ OneFlagged(pics)
        /\ sites[i].picName = MirrorName(pics) /\ sites[i].picPhone = MirrorPhone(pics)
    BY DEF SitesGood, GoodSite, IsDocument, SitePIC
  <2>2. \/ pics = <<>> /\ MirrorName(pics) = NoText /\ MirrorPhone(pics) = NoText
        \/ \E d \in DOMAIN pics :
             /\ pics[d].isDefault
             /\ MirrorName(pics) = pics[d].name
             /\ MirrorPhone(pics) = IF pics[d].phone = "" THEN NoText ELSE pics[d].phone
    <3> HIDE DEF pics
    <3> QED
      BY <2>1, Mirrors
  <2> QED
    BY <2>1, <2>2
<1> QED
  BY <1>1, GoodAlways, PTL
=============================================================================
