--------------------------- MODULE MCFeeInvoices ---------------------------
(***************************************************************************)
(* Small instances of FeeInvoices for TLC.                                 *)
(***************************************************************************)
EXTENDS FeeInvoices, TLC

CONSTANTS i1, i2, k1, k2, r1, r2

\* Without fairness the transactions are interchangeable, and so are the ids.
Symmetry == Permutations(Invoices) \cup Permutations(Credits) \cup Permutations(Reqs)

=============================================================================
