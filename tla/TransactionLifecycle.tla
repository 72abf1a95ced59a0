--------------------------- MODULE TransactionLifecycle ---------------------------
(***************************************************************************)
(* What the rest of the system may rely on about a transaction's status:    *)
(* the abstract specification that TransactionEngine implements.            *)
(*                                                                         *)
(* ARCHITECTURE.md 4.2 draws a strict lifecycle.  The engine keeps it for    *)
(* every transaction on which no two transitions overlapped between their   *)
(* read and their write ("raced" transactions are the others).  For a raced *)
(* transaction only a weaker promise is left: a write is legal with respect *)
(* to SOME status the row held before, not to the one it overwrites.        *)
(***************************************************************************)
EXTENDS TransactionStateMachine

CONSTANT Txns            \* transaction identifiers

VARIABLES
    status,              \* the row's status, NoStatus before it exists
    held,                \* every status the row has held so far
    raced                \* transactions on which two transitions overlapped

vars == <<status, held, raced>>

TypeOK ==
    /\ status \in [Txns -> Status \cup {NoStatus}]
    /\ held \in [Txns -> SUBSET Status]
    /\ raced \in SUBSET Txns

Init ==
    /\ status = [t \in Txns |-> NoStatus]
    /\ held = [t \in Txns |-> {}]
    /\ raced = {}

Write(t, s) ==
    /\ status' = [status EXCEPT ![t] = s]
    /\ held' = [held EXCEPT ![t] = @ \cup {s}]
    /\ UNCHANGED raced

Create(t) ==
    /\ status[t] = NoStatus
    /\ Write(t, "PENDING")

\* The edges of the state diagram.
Advance(t, s) ==
    /\ status[t] # NoStatus
    /\ s \in TRANSACTION_STATE_MACHINE[status[t]]
    /\ Write(t, s)

\* A transition decided on a status the row held earlier.
Overwrite(t, s) ==
    /\ t \in raced
    /\ \E f \in held[t] : s \in TRANSACTION_STATE_MACHINE[f]
    /\ Write(t, s)

Race(t) ==
    /\ t \notin raced
    /\ raced' = raced \cup {t}
    /\ UNCHANGED <<status, held>>

Next ==
    \E t \in Txns :
        \/ Create(t)
        \/ Race(t)
        \/ \E s \in Status : Advance(t, s) \/ Overwrite(t, s)

Spec == Init /\ [][Next]_vars

----------------------------------------------------------------------------------
\* Money goes back only for a payment that came in: a row that is or was REFUNDED
\* has held SUCCESS, whatever raced (refundTransaction, transitionStatus).
RefundNeedsPayment ==
    \A t \in Txns : "REFUNDED" \in held[t] => "SUCCESS" \in held[t]

\* A row that left PENDING is never payable again, even when stale writes race.
NeverPendingAgain ==
    [][\A t \in Txns : status[t] \in Status \ {"PENDING"} => status'[t] # "PENDING"]_vars

\* FAILED, EXPIRED and REFUNDED are final for a transaction that did not race.
FinalUnlessRaced ==
    [][\A t \in Txns \ raced : status[t] \in FinalStatus => status'[t] = status[t]]_vars
===================================================================================
