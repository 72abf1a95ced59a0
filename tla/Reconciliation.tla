------------------------------ MODULE Reconciliation ------------------------------
(***************************************************************************)
(* ReconciliationService.performDailyReconciliation against a database that  *)
(* does not stand still: the settlement file, the rows and each correction    *)
(* are read at different times, while the other handlers of TransactionEngine *)
(* create and settle transactions.                                           *)
(*                                                                         *)
(* The settlement file is the one of SettlementSimulatorService, which makes  *)
(* it from the same table; the newest transaction is always SUCCESS in it.     *)
(* Runs follow one another: the scheduler starts one a day and nothing else   *)
(* does.                                                                    *)
(***************************************************************************)
EXTENDS TransactionStateMachine, Naturals, Sequences, FiniteSets, FiniteSetsExt

CONSTANTS
    Txns,          \* transaction identifiers
    FileLimit,     \* take: 50 of the settlement simulator
    RowLimit,      \* take: 100 of the reconciliation
    MaxRuns,       \* how many days are looked at (bound of the model)
    MaxAborts      \* how many runs may stop half-way (bound of the model)

ASSUME LimitsAssumption ==
    /\ FileLimit \in Nat \ {0}
    /\ RowLimit \in Nat /\ RowLimit >= FileLimit
    /\ MaxRuns \in Nat /\ MaxAborts \in Nat

VARIABLES
    status,       \* Txns -> the column transactions.status
    created,      \* the rows in the order of createdAt, oldest first
    aged,         \* how many of them are older than 24 hours
    other,        \* Txns -> what another handler has found legal to write, or NoStatus
    run,          \* the run in progress, or the last one
    records,      \* Txns -> the reconciliations row, or Unchecked
    corrections,  \* Txns -> history rows with the reason 'Reconciliation correction'
    audits,       \* Txns -> audit_logs rows RECONCILIATION_CORRECTION
    runs, aborts  \* how many runs began, and how many stopped half-way

table == <<status, created, aged, other>>
results == <<records, corrections, audits>>
vars == <<table, run, results, runs, aborts>>

Bank == {"SUCCESS", "FAILED"}

\* A settlement row that is not in the file.
Absent == "ABSENT"

\* A reconciliations row.  The discrepancy text is its two statuses.
Record == [verdict : {"MATCHED", "RESOLVED"}, internal : Status, bank : Bank,
           bankTxnId : BOOLEAN]
Unchecked == [verdict |-> "NONE"]

PCs == {"idle", "file", "rows", "row", "find", "update", "history", "audit",
        "upsert", "done", "rejected", "stopped"}

Run == [pc : PCs,
        file : [Txns -> Bank \cup {Absent}],    \* settlementFile, by txnId
        newest : Seq(Txns),                     \* auxiliary: its first line, if any
        rows : Seq(Txns),                       \* the rows, newest first
        seen : [Txns -> Status \cup {NoStatus}],\* their statuses when they were read
        next : Nat]                             \* the loop's place in rows

NoRun == [pc |-> "idle", file |-> [t \in Txns |-> Absent], newest |-> <<>>,
          rows |-> <<>>, seen |-> [t \in Txns |-> NoStatus], next |-> 1]

TypeOK ==
    /\ status \in [Txns -> Status \cup {NoStatus}]
    /\ created \in Seq(Txns)
    /\ aged \in 0..Len(created)
    /\ other \in [Txns -> Status \cup {NoStatus}]
    /\ run \in Run
    /\ records \in [Txns -> Record \cup {Unchecked}]
    /\ corrections \in [Txns -> Nat]
    /\ audits \in [Txns -> Nat]
    /\ runs \in 0..MaxRuns
    /\ aborts \in 0..MaxAborts

Init ==
    /\ status = [t \in Txns |-> NoStatus]
    /\ created = <<>>
    /\ aged = 0
    /\ other = [t \in Txns |-> NoStatus]
    /\ run = NoRun
    /\ records = [t \in Txns |-> Unchecked]
    /\ corrections = [t \in Txns |-> 0]
    /\ audits = [t \in Txns |-> 0]
    /\ runs = 0
    /\ aborts = 0

----------------------------------------------------------------------------------
(* The rest of the system, and time. *)

Create(t) ==
    /\ status[t] = NoStatus
    /\ status' = [status EXCEPT ![t] = "PENDING"]
    /\ created' = Append(created, t)
    /\ UNCHANGED <<aged, other, run, results, runs, aborts>>

\* Another handler's transitionStatus, from its read to its write.
OtherFind(t) ==
    /\ status[t] # NoStatus /\ other[t] = NoStatus
    /\ \E s \in TRANSACTION_STATE_MACHINE[status[t]] : other' = [other EXCEPT ![t] = s]
    /\ UNCHANGED <<status, created, aged, run, results, runs, aborts>>

OtherUpdate(t) ==
    /\ other[t] # NoStatus
    /\ status' = [status EXCEPT ![t] = other[t]]
    /\ other' = [other EXCEPT ![t] = NoStatus]
    /\ UNCHANGED <<created, aged, run, results, runs, aborts>>

\* The oldest row leaves the window of 24 hours.
Age ==
    /\ aged < Len(created)
    /\ aged' = aged + 1
    /\ UNCHANGED <<status, created, other, run, results, runs, aborts>>

----------------------------------------------------------------------------------
(* The settlement file and the rows. *)

\* findMany of the last 24 hours, newest first, at most n.
Newest(n) ==
    LET size == Min({n, Len(created) - aged})
    IN  [i \in 1..size |-> created[Len(created) + 1 - i]]

\* Mutant of Settled: the first two lines of the file are SUCCESS.
SettledUpToOne(lines, i) ==
    IF i <= 2 \/ status[lines[i]] = "SUCCESS" THEN "SUCCESS" ELSE "FAILED"

\* The status of a line of the file.
Settled(lines, i) ==
    IF i = 1 \/ status[lines[i]] = "SUCCESS" THEN "SUCCESS" ELSE "FAILED"

StartRun ==
    /\ run.pc \in {"idle", "done", "rejected", "stopped"}
    /\ runs < MaxRuns
    /\ runs' = runs + 1
    /\ run' = [NoRun EXCEPT !.pc = "file"]
    /\ UNCHANGED <<table, results, aborts>>

\* getSettlementFile.
ReadFile ==
    /\ run.pc = "file"
    /\ LET lines == Newest(FileLimit)
           line(t) == {i \in DOMAIN lines : lines[i] = t}
       IN  run' = [run EXCEPT !.pc = "rows",
                      !.newest = Newest(1),
                      !.file = [t \in Txns |-> IF line(t) = {} THEN Absent
                                  ELSE Settled(lines, CHOOSE i \in line(t) : TRUE)]]
    /\ UNCHANGED <<table, results, runs, aborts>>

ReadRows ==
    /\ run.pc = "rows"
    /\ run' = [run EXCEPT !.pc = "row", !.rows = Newest(RowLimit), !.seen = status]
    /\ UNCHANGED <<table, results, runs, aborts>>

----------------------------------------------------------------------------------
(* The loop. *)

Current == run.rows[run.next]

\* settlement?.status ?? 'FAILED'
BankStatus(t) == IF run.file[t] = Absent THEN "FAILED" ELSE run.file[t]

IsMatch(internal, bank) == internal = "SUCCESS" <=> bank = "SUCCESS"

\* Mutant of NeedsCorrection: only a payment that is still open is corrected.
OpenNeedsCorrection(internal, bank) == internal = "PENDING" /\ bank = "SUCCESS"

NeedsCorrection(internal, bank) == ~IsMatch(internal, bank) /\ bank = "SUCCESS"

Row ==
    /\ run.pc = "row"
    /\ run' = [run EXCEPT !.pc =
                  CASE run.next > Len(run.rows) -> "done"
                    [] run.next <= Len(run.rows)
                       /\ NeedsCorrection(run.seen[Current], BankStatus(Current)) -> "find"
                    [] OTHER -> "upsert"]
    /\ UNCHANGED <<table, results, runs, aborts>>

\* Mutant of Correctable: the special path for final states.
AlwaysCorrectable(from) == from # "SUCCESS"

\* The check of transitionStatus on the status it reads.
Correctable(from) == isValidTransition(from, "SUCCESS")

\* transitionStatus: read and check; its exception ends the run.
Find ==
    /\ run.pc = "find"
    /\ run' = IF Correctable(status[Current])
              THEN [run EXCEPT !.pc = "update"]
              ELSE [run EXCEPT !.pc = "rejected"]
    /\ UNCHANGED <<table, results, runs, aborts>>

Update ==
    /\ run.pc = "update"
    /\ status' = [status EXCEPT ![Current] = "SUCCESS"]
    /\ run' = [run EXCEPT !.pc = "history"]
    /\ UNCHANGED <<created, aged, other, results, runs, aborts>>

History ==
    /\ run.pc = "history"
    /\ corrections' = [corrections EXCEPT ![Current] = @ + 1]
    /\ run' = [run EXCEPT !.pc = "audit"]
    /\ UNCHANGED <<table, records, audits, runs, aborts>>

\* Mutant of Audit: the correction is not logged.
AuditNothing ==
    /\ run.pc = "audit"
    /\ run' = [run EXCEPT !.pc = "upsert"]
    /\ UNCHANGED <<table, results, runs, aborts>>

\* auditService.logAction.
Audit ==
    /\ run.pc = "audit"
    /\ audits' = [audits EXCEPT ![Current] = @ + 1]
    /\ run' = [run EXCEPT !.pc = "upsert"]
    /\ UNCHANGED <<table, records, corrections, runs, aborts>>

\* What the upsert writes; bankTxnId: undefined leaves an older value in place.
Verdict(t) ==
    [verdict   |-> IF IsMatch(run.seen[t], BankStatus(t)) THEN "MATCHED" ELSE "RESOLVED",
     internal  |-> run.seen[t],
     bank      |-> BankStatus(t),
     bankTxnId |-> run.file[t] # Absent
                      \/ (records[t] # Unchecked /\ records[t].bankTxnId)]

\* Mutant of Upsert: an insert that leaves an existing row alone.
InsertOnly ==
    /\ run.pc = "upsert"
    /\ records' = [records EXCEPT ![Current] = IF @ = Unchecked THEN Verdict(Current) ELSE @]
    /\ run' = [run EXCEPT !.pc = "row", !.next = @ + 1]
    /\ UNCHANGED <<table, corrections, audits, runs, aborts>>

Upsert ==
    /\ run.pc = "upsert"
    /\ records' = [records EXCEPT ![Current] = Verdict(Current)]
    /\ run' = [run EXCEPT !.pc = "row", !.next = @ + 1]
    /\ UNCHANGED <<table, corrections, audits, runs, aborts>>

\* A call fails or the process stops; what was written stays.
Stop ==
    /\ run.pc \notin {"idle", "done", "rejected", "stopped"}
    /\ aborts < MaxAborts
    /\ aborts' = aborts + 1
    /\ run' = [run EXCEPT !.pc = "stopped"]
    /\ UNCHANGED <<table, results, runs>>

Progress ==
    \/ ReadFile \/ ReadRows \/ Row \/ Find \/ Update \/ History \/ Audit \/ Upsert

Next ==
    \/ \E t \in Txns : Create(t) \/ OtherFind(t) \/ OtherUpdate(t)
    \/ Age
    \/ StartRun
    \/ Progress
    \/ Stop

Spec == Init /\ [][Next]_vars

----------------------------------------------------------------------------------
(* Safety. *)

\* Every row the run has passed has this run's verdict in the reconciliations table,
\* whatever an earlier day wrote there and whatever else happens meanwhile; a run that
\* is done has passed them all (the upsert of performDailyReconciliation).
ReportAgrees ==
    run.pc # "stopped" =>
        \A i \in 1..Len(run.rows) :
            i < run.next \/ run.pc = "done" =>
                LET r == records[run.rows[i]]
                IN  /\ r # Unchecked
                    /\ r.internal = run.seen[run.rows[i]]
                    /\ r.bank = BankStatus(run.rows[i])
                    /\ r.verdict = "MATCHED" <=> IsMatch(r.internal, r.bank)

\* A transaction is corrected at most once in its life, over all runs and whatever
\* races with them: the legality check lets only PENDING through, and nothing makes
\* a transaction PENDING again.
CorrectedOnce ==
    \A t \in Txns :
        corrections[t] +
            (IF run.pc \in {"update", "history"} /\ Current = t THEN 1 ELSE 0) <= 1

\* Corrections and audit entries go together: an audit entry has its correction, and
\* a correction is in the audit log unless the run stopped in between.
AuditFollowsHistory ==
    LET unaudited(t) == corrections[t] - audits[t]
    IN  /\ \A t \in Txns : audits[t] <= corrections[t]
        /\ Cardinality({t \in Txns : unaudited(t) > 0})
              <= aborts + (IF run.pc = "audit" THEN 1 ELSE 0)

\* A record RESOLVED against the bank's SUCCESS is backed by a correction that
\* reached the history (the transition comes before the upsert, and throws).
ResolvedByCorrection ==
    \A t \in Txns :
        records[t] # Unchecked /\ records[t].verdict = "RESOLVED"
                /\ records[t].bank = "SUCCESS" => corrections[t] > 0

\* The only transaction a run ever corrects is the first of its settlement file:
\* every other SUCCESS of the file was the row's own status, which cannot have gone
\* back to PENDING since.
OnlyNewestCorrected ==
    run.pc \in {"update", "history"} => run.newest = <<Current>>

----------------------------------------------------------------------------------
(* The inductive invariant behind the properties above. *)

Open(t) == status[t] \in {"PENDING", NoStatus}

\* A transaction is created once, and no handler is about to make one PENDING.
TableSound ==
    /\ \A i, j \in DOMAIN created : created[i] = created[j] => i = j
    /\ \A i \in DOMAIN created : status[created[i]] # NoStatus
    /\ \A t \in Txns : other[t] # NoStatus => status[t] # NoStatus /\ other[t] # "PENDING"

\* The run's list names no row twice; inside the loop's body the run is at one of them.
RunSound ==
    /\ \A i, j \in DOMAIN run.rows : run.rows[i] = run.rows[j] => i = j
    /\ \A i \in DOMAIN run.rows :
           status[run.rows[i]] # NoStatus /\ run.seen[run.rows[i]] # NoStatus
    /\ run.next # 0
    /\ run.pc \in {"idle", "file", "rows"} => run.rows = <<>> /\ run.next = 1
    /\ run.pc \in {"find", "update", "history", "audit", "upsert"}
           => run.next \in DOMAIN run.rows
    /\ run.pc = "done" => run.next > Len(run.rows)

\* A line of the file that says SUCCESS is its first, or was the row's own status.
FileSound ==
    \A t \in Txns : run.file[t] = "SUCCESS" => run.newest = <<t>> \/ ~Open(t)

\* What is corrected stays settled, and the run knows how far its correction has come.
CorrectionSound ==
    /\ \A t \in Txns : corrections[t] <= 1 /\ (corrections[t] = 1 => ~Open(t))
    /\ run.pc \in {"find", "update", "history", "audit"}
           => NeedsCorrection(run.seen[Current], BankStatus(Current))
    /\ run.pc \in {"update", "history"} => corrections[Current] = 0
    /\ run.pc = "history" => ~Open(Current)
    /\ run.pc = "audit" => corrections[Current] = 1 /\ audits[Current] = 0
    /\ run.pc = "upsert" /\ NeedsCorrection(run.seen[Current], BankStatus(Current))
           => corrections[Current] = 1

Unaudited == {t \in Txns : corrections[t] > audits[t]}

IInv ==
    /\ TypeOK /\ TableSound /\ RunSound /\ FileSound /\ CorrectionSound
    /\ IsFiniteSet(Unaudited)
    /\ ReportAgrees /\ AuditFollowsHistory /\ ResolvedByCorrection /\ OnlyNewestCorrected
==================================================================================
