------------------------- MODULE MCFacilityBilling -------------------------
(***************************************************************************)
(* Small instances of FacilityBilling for TLC.                             *)
(***************************************************************************)
EXTENDS FacilityBilling, TLC

CONSTANTS c1, c2, e1, e2, v1, v2, r1, r2

\* A write-off that the project's limits allow once, and a contact's own never.
WriteOff == {-2}

\* Requests, contacts, entries and invoices are interchangeable.
Symmetry == Permutations(Reqs) \cup Permutations(Contacts)
              \cup Permutations(Entries) \cup Permutations(Invoices)

=============================================================================
