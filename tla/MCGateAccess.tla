---------------------------- MODULE MCGateAccess ----------------------------
(* A small instance of GateAccess for TLC. *)
EXTENDS GateAccess, TLC

\* Flats, passes and transactions are alike.
Symmetry == Permutations(Flats) \cup Permutations(Passes) \cup Permutations(Reqs)

=============================================================================
