------------------------------- MODULE MCSites -------------------------------
(***************************************************************************)
(* Small instances of Sites.                                               *)
(***************************************************************************)
EXTENDS Sites, TLC

Symmetry == Permutations(Ids) \cup Permutations(Requests)

Person(company, singleDevice, features, all) ==
  [company |-> company, staff |-> FALSE, singleDevice |-> singleDevice,
   access |-> [tms |-> [features |-> features, all |-> all,
                        perms |-> {<<"warehouse", "read">>, <<"warehouse", "update">>}]]]

\* phone: one device, may read and edit the sites of A.  admin: whatever B has
\* bought, the sites among it.  bare: the same rights over entitlements that do
\* not have them, a token older than the purchase.  staff: a static token of
\* nobody's company.
MCPrincipalOf ==
  [phone |-> Person("A", TRUE, {"warehouse"}, FALSE),
   admin |-> Person("B", FALSE, {"warehouse"}, TRUE),
   bare  |-> Person("B", FALSE, {}, TRUE),
   staff |-> [company |-> None, staff |-> TRUE, singleDevice |-> FALSE,
              access |-> <<>>]]

MCNormalName == [n \in Names |-> IF n = "Gate" THEN "gate" ELSE n]

Contact(name, phone, isDefault) ==
  [name |-> name, phone |-> phone, isDefault |-> isDefault]

Body(name, customer, pics, picName, picPhone, point, radius) ==
  [name |-> name, customer |-> customer, pics |-> pics, picName |-> picName,
   picPhone |-> picPhone, point |-> point, radius |-> radius]

\* The first four are accepted by an edit, and all of them but the third, which
\* has no name, by a creation; the others are refused.
MCInputs ==
  { Body("gate", "none", NoList, "", "", "none", "none"),
    Body("Gate", "", <<Contact("ana", "", FALSE), Contact(" ", "", TRUE),
                       Contact("budi", " ", TRUE), Contact("ana", "08", TRUE)>>,
         "", "", "none", "none"),
    Body(" ", "none", NoList, " ", "09", "none", "none"),
    Body("gate", "k", <<>>, "ana", "", "p", "own"),
    Body("", "none", NoList, "ana", "", "none", "none"),
    Body("gate", "none", <<Contact("", "08", FALSE)>>, "", "", "none", "none"),
    Body("gate", "none", NoList, "", "", "half", "none"),
    Body("gate", "none", NoList, "", "", "none", "nought") }
=============================================================================
