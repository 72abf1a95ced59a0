-------------------------- MODULE MCTransactionEngine --------------------------
(* TransactionEngine with its identifiers as model values, for TLC. *)
EXTENDS TransactionEngine, TLC

\* Handlers of one kind of slot are interchangeable, and so are transactions.
Symmetry ==
    Permutations(Txns) \cup Permutations(Requests) \cup Permutations(CronRuns)
================================================================================
