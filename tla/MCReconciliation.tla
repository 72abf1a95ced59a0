--------------------------- MODULE MCReconciliation ---------------------------
(* Reconciliation with its identifiers as model values, for TLC. *)
EXTENDS Reconciliation, TLC

\* Transactions are interchangeable.
Symmetry == Permutations(Txns)
===============================================================================
