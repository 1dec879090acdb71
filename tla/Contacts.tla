------------------------------ MODULE Contacts ------------------------------
(***************************************************************************)
(* A site's contacts (internal/services/site_write.go, ApplyPICs): a list  *)
(* with one default entry, and two older fields that mirror the default.   *)
(* A contact's id only travels along and is left out.  A text is blank     *)
(* ("", or " " as a form may send it) or one of a few names and numbers.   *)
(***************************************************************************)
EXTENDS Naturals, Sequences, FiniteSets

CONSTANTS
  NoText,  \* a null string
  NoList   \* the request body has no contact list

trim(text) == IF text = " " THEN "" ELSE text

\* A blank is stored as an empty string.
nilIfBlankIdentity(text) == trim(text)

nilIfBlank(text) == IF trim(text) = "" THEN NoText ELSE trim(text)

\* The first flagged entry, or 0.
DefaultIndex(pics) ==
  LET flagged == {i \in DOMAIN pics : pics[i].isDefault}
  IN  IF flagged = {} THEN 0
      ELSE CHOOSE i \in flagged : \A j \in flagged : i <= j

\* Every flag that was set stays set.
OnlyDefaultMore(pics, d) ==
  [i \in DOMAIN pics |-> [pics[i] EXCEPT !.isDefault = @ \/ (i = d)]]

OnlyDefault(pics, d) ==
  [i \in DOMAIN pics |-> [pics[i] EXCEPT !.isDefault = (i = d)]]

\* The list form: wholly blank entries are dropped, and the first flagged
\* entry, or else the first, is the default.
Nameless(list) ==
  \E i \in DOMAIN list : trim(list[i].name) = "" /\ trim(list[i].phone) # ""

Kept(list) ==
  LET filled == {i \in DOMAIN list : trim(list[i].name) # "" \/ trim(list[i].phone) # ""}
      place(i) == Cardinality({j \in filled : j <= i})
  IN  [k \in 1..Cardinality(filled) |->
         [list[CHOOSE i \in filled : place(i) = k] EXCEPT !.name = trim(@), !.phone = trim(@)]]

ReplacePICs(list) ==
  LET kept == Kept(list)
  IN  OnlyDefault(kept, IF DefaultIndex(kept) = 0 THEN 1 ELSE DefaultIndex(kept))

\* The older single-contact form edits the default entry, or adds one.
EditDefault(pics, name, phone) ==
  LET d == DefaultIndex(pics)
      added == [name |-> IF name = "" THEN "PIC" ELSE name,
                phone |-> phone, isDefault |-> TRUE]
  IN  IF d = 0 THEN OnlyDefault(Append(pics, added), Len(pics) + 1)
      ELSE [pics EXCEPT ![d].name = IF name = "" THEN @ ELSE name,
                        ![d].phone = IF phone = "" THEN @ ELSE phone]

NewPICs(pics, in) ==
  IF in.pics # NoList THEN ReplacePICs(in.pics)
  ELSE IF trim(in.picName) # "" \/ trim(in.picPhone) # ""
    THEN EditDefault(pics, trim(in.picName), trim(in.picPhone))
    ELSE pics

\* The older fields of a list.
MirrorName(pics) ==
  IF DefaultIndex(pics) = 0 THEN NoText
  ELSE nilIfBlank(pics[DefaultIndex(pics)].name)

MirrorPhone(pics) ==
  IF DefaultIndex(pics) = 0 THEN NoText
  ELSE nilIfBlank(pics[DefaultIndex(pics)].phone)

\* The form with a list leaves the older fields as they were.
ApplyPICsStale(site, in) ==
  LET pics == NewPICs(site.pics, in)
      source == IF in.pics # NoList THEN site.pics ELSE pics
  IN  [site EXCEPT !.pics = pics,
                   !.picName = MirrorName(source),
                   !.picPhone = MirrorPhone(source)]

ApplyPICs(site, in) ==
  LET pics == NewPICs(site.pics, in)
  IN  [site EXCEPT !.pics = pics,
                   !.picName = MirrorName(pics),
                   !.picPhone = MirrorPhone(pics)]
=============================================================================
