-------------------------- MODULE MCCommunityEvents --------------------------
(* A small instance of CommunityEvents for TLC. *)
EXTENDS CommunityEvents, TLC

\* Residents and transactions are alike.
Symmetry == Permutations(Contacts) \cup Permutations(Reqs)

=============================================================================
