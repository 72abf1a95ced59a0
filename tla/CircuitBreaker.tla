------------------------------ MODULE CircuitBreaker ------------------------------
(***************************************************************************)
(* WebhookCircuitBreakerService: one merchant's breaker as a value and the   *)
(* four methods as operators on it.  The clock is abstracted to whether the  *)
(* cooldown is still running (Date.now() < openUntil); an entry missing from *)
(* the map behaves as Closed does.                                          *)
(***************************************************************************)
EXTENDS Naturals

CONSTANT Threshold      \* failureThreshold

ASSUME ThresholdAssumption == Threshold \in Nat \ {0}

Breaker == [failures : Nat, state : {"CLOSED", "OPEN", "HALF_OPEN"}, cooling : BOOLEAN]

Closed == [failures |-> 0, state |-> "CLOSED", cooling |-> FALSE]

\* Mutant of CanAttempt: the clock is not asked.
CanAlwaysAttempt(b) == TRUE

\* What canAttempt returns, and the state it leaves behind: the first question
\* after the cooldown turns OPEN into HALF_OPEN.
CanAttempt(b) == ~(b.state = "OPEN" /\ b.cooling)

Asked(b) ==
    IF b.state = "OPEN" /\ ~b.cooling THEN [b EXCEPT !.state = "HALF_OPEN"] ELSE b

RecordSuccess(b) == Closed

\* Mutant of RecordFailure: the failure of the probe after the cooldown does not
\* open the breaker again.
RecordFailureOnce(b) ==
    IF b.failures + 1 = Threshold
    THEN [failures |-> b.failures + 1, state |-> "OPEN", cooling |-> TRUE]
    ELSE [failures |-> b.failures + 1, state |-> "CLOSED", cooling |-> FALSE]

RecordFailure(b) ==
    IF b.failures + 1 >= Threshold
    THEN [failures |-> b.failures + 1, state |-> "OPEN", cooling |-> TRUE]
    ELSE [failures |-> b.failures + 1, state |-> "CLOSED", cooling |-> FALSE]

\* The cooldown ends.
Cooled(b) == [b EXCEPT !.cooling = FALSE]

\* A breaker is closed exactly as long as it has counted fewer failures in a row
\* than the threshold, and only an open one is cooling down.
Consistent(b) ==
    /\ b.state = "CLOSED" <=> b.failures < Threshold
    /\ b.cooling => b.state = "OPEN"
===================================================================================
