--------------------------- MODULE MCUnitTenancies ---------------------------
(* Small instances of UnitTenancies for TLC. *)
EXTENDS UnitTenancies, TLC

\* Contacts, owners, requests, documents and transactions are alike.
Symmetry ==
  Permutations(Contacts) \cup Permutations(Owners) \cup Permutations(Requests)
    \cup Permutations(Docs) \cup Permutations(Reqs)

\* A bound: the handlers of an owner's request and its documents overlap with one another,
\* but not with those that turn the unit over or ask for that.
KindsApart ==
  LET paper == {"create", "cancel", "review", "refresh", "resubmit", "reject_move_out"}
      busy == {r \in Reqs : req[r].pc # "idle"}
  IN {req[r].op : r \in busy} \subseteq paper \/ {req[r].op : r \in busy} \cap paper = {}

\* A bound: the first deletion of a contact is the last step of a behaviour.
NobodyDeleted == deleted = {}

=============================================================================
