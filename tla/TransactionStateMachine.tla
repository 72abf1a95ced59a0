------------------------- MODULE TransactionStateMachine -------------------------
(***************************************************************************)
(* The status vocabulary and the transition table of                       *)
(* transaction-state-machine.ts: pure data and two functions, used by every *)
(* module that reads or writes a transaction's status.                      *)
(***************************************************************************)

\* The statuses a transactions row can hold.
Status == {"PENDING", "SUCCESS", "FAILED", "EXPIRED", "REFUNDED"}

\* The three names of the older vocabulary that callers may still send.
LegacyStatus == {"ISSUED", "PAID", "CANCELLED"}

\* A status that stands for "no such row": findUnique returned null.
NoStatus == "NONE"

(***************************************************************************)
(* LEGACY_STATUS_ALIASES.  normalizeTransactionStatus throws on a name      *)
(* outside this domain; every caller is behind a DTO whose @IsIn list is     *)
(* inside it, so the throw is the domain check.                             *)
(***************************************************************************)
LEGACY_STATUS_ALIASES ==
    [s \in Status \cup LegacyStatus |->
        CASE s = "ISSUED"    -> "PENDING"
          [] s = "PAID"      -> "SUCCESS"
          [] s = "CANCELLED" -> "FAILED"
          [] OTHER           -> s]

\* Mutant of TRANSACTION_STATE_MACHINE: an unpaid transaction can be refunded.
REFUNDABLE_WHEN_PENDING ==
    [s \in Status |->
        CASE s = "PENDING" -> {"SUCCESS", "FAILED", "EXPIRED", "REFUNDED"}
          [] s = "SUCCESS" -> {"REFUNDED"}
          [] OTHER         -> {}]

TRANSACTION_STATE_MACHINE ==
    [s \in Status |->
        CASE s = "PENDING" -> {"SUCCESS", "FAILED", "EXPIRED"}
          [] s = "SUCCESS" -> {"REFUNDED"}
          [] OTHER         -> {}]

normalizeTransactionStatus(s) == LEGACY_STATUS_ALIASES[s]

isValidTransition(from, to) ==
    normalizeTransactionStatus(to)
        \in TRANSACTION_STATE_MACHINE[normalizeTransactionStatus(from)]

\* The statuses without a successor.
FinalStatus == {s \in Status : TRANSACTION_STATE_MACHINE[s] = {}}
==================================================================================
