--------------------------- MODULE ReconciliationProofs ---------------------------
(***************************************************************************)
(* What TLAPS proves of Reconciliation, for any transactions, any limits of   *)
(* the file and the list, and any number of runs and stops: its report, its   *)
(* corrections and its audit entries agree, whatever other handlers do.        *)
(***************************************************************************)
EXTENDS Reconciliation, FiniteSetTheorems, TLAPS

----------------------------------------------------------------------------------
(* The operators. *)

\* Only what is PENDING can become SUCCESS.
LEMMA Correctability ==
    ASSUME NEW s \in Status, Correctable(s)
    PROVE  s = "PENDING"
BY DEF Correctable, isValidTransition, normalizeTransactionStatus, LEGACY_STATUS_ALIASES,
       TRANSACTION_STATE_MACHINE, Status, LegacyStatus

\* Nothing leads back to PENDING.
LEMMA NeverPendingAgain ==
    ASSUME NEW s \in Status, NEW r \in TRANSACTION_STATE_MACHINE[s]
    PROVE  r \in Status \ {"PENDING"}
BY DEF TRANSACTION_STATE_MACHINE, Status

LEMMA MinOfTwo ==
    ASSUME NEW a \in Nat, NEW b \in Nat
    PROVE  Min({a, b}) = IF a <= b THEN a ELSE b
<1>1. \E x \in {a, b} : \A y \in {a, b} : x <= y
  OBVIOUS
<1>2. Min({a, b}) \in {a, b} /\ \A y \in {a, b} : Min({a, b}) <= y
  BY <1>1 DEF Min
<1> QED
  BY <1>2

\* The newest rows are rows of the table, none of them twice; the newest one of all
\* begins every such list.
LEMMA NewestRows ==
    ASSUME TypeOK, TableSound, NEW n \in Nat
    PROVE  /\ Newest(n) \in Seq(Txns)
           /\ \A i, j \in DOMAIN Newest(n) : Newest(n)[i] = Newest(n)[j] => i = j
           /\ \A i \in DOMAIN Newest(n) : status[Newest(n)[i]] # NoStatus
           /\ 1 \in DOMAIN Newest(n) => Newest(1) = <<Newest(n)[1]>>
<1> DEFINE size == Min({n, Len(created) - aged})
<1>1. /\ created \in Seq(Txns) /\ aged \in 0..Len(created) /\ Len(created) \in Nat
      /\ DOMAIN created = 1..Len(created)
  BY DEF TypeOK
<1>2. size \in 0..Len(created) /\ size <= n /\ size <= Len(created) - aged
  BY <1>1, MinOfTwo
<1>3. Newest(n) = [i \in 1..size |-> created[Len(created) + 1 - i]]
  BY DEF Newest
<1> HIDE DEF size
<1>4. \A i \in 1..size : Len(created) + 1 - i \in DOMAIN created
  BY <1>1, <1>2
<1>5. Newest(n) \in Seq(Txns) /\ DOMAIN Newest(n) = 1..size
  BY <1>1, <1>2, <1>3, <1>4
<1>6. \A i, j \in DOMAIN Newest(n) : Newest(n)[i] = Newest(n)[j] => i = j
  BY <1>1, <1>2, <1>3, <1>4, <1>5 DEF TableSound
<1>7. \A i \in DOMAIN Newest(n) : status[Newest(n)[i]] # NoStatus
  BY <1>3, <1>4, <1>5 DEF TableSound
<1>8. ASSUME 1 \in DOMAIN Newest(n) PROVE Newest(1) = <<Newest(n)[1]>>
  <2>1. 1 <= size /\ Len(created) - aged \in Nat /\ 1 <= Len(created) - aged
    BY <1>1, <1>2, <1>5, <1>8
  <2>2. Min({1, Len(created) - aged}) = 1
    BY <2>1, MinOfTwo
  <2>3. Newest(1) = [i \in 1..1 |-> created[Len(created) + 1 - i]]
    BY <2>2 DEF Newest
  <2>4. Newest(n)[1] = created[Len(created) + 1 - 1]
    BY <1>3, <2>1
  <2> QED
    BY <2>3, <2>4
<1> QED
  BY <1>5, <1>6, <1>7, <1>8

\* The audit log's gap is counted by Unaudited.
LEMMA UnauditedIsTheGap ==
    ASSUME NEW c \in [Txns -> Nat], NEW a \in [Txns -> Nat]
    PROVE  {t \in Txns : c[t] - a[t] > 0} = {t \in Txns : c[t] > a[t]}
<1>1. \A t \in Txns : c[t] \in Nat /\ a[t] \in Nat
  OBVIOUS
<1> QED
  BY <1>1

LEMMA GapAccounted ==
    ASSUME TypeOK
    PROVE  AuditFollowsHistory <=>
               /\ \A t \in Txns : audits[t] <= corrections[t]
               /\ Cardinality(Unaudited) <= aborts + (IF run.pc = "audit" THEN 1 ELSE 0)
<1>1. {t \in Txns : corrections[t] - audits[t] > 0} = Unaudited
  BY UnauditedIsTheGap DEF TypeOK, Unaudited
<1> QED
  BY <1>1 DEF AuditFollowsHistory

LEMMA GapAccountedNext ==
    ASSUME TypeOK'
    PROVE  AuditFollowsHistory' <=>
               /\ \A t \in Txns : audits'[t] <= corrections'[t]
               /\ Cardinality(Unaudited') <= aborts' + (IF run'.pc = "audit" THEN 1 ELSE 0)
<1>1. {t \in Txns : corrections'[t] - audits'[t] > 0} = Unaudited'
  BY UnauditedIsTheGap DEF TypeOK, Unaudited
<1> QED
  BY <1>1 DEF AuditFollowsHistory

----------------------------------------------------------------------------------
(* Type correctness. *)

LEMMA TypeInit ==
    ASSUME Init
    PROVE  TypeOK
<1> USE LimitsAssumption
<1>1. NoRun \in Run
  BY DEF NoRun, Run, PCs, Bank, Absent, NoStatus, Status
<1> QED
  BY <1>1 DEF Init, TypeOK

\* The handlers of the rest of the system keep the table what it is, and never reopen
\* or remove a row.
LEMMA TableStep ==
    ASSUME TypeOK, TableSound,
           \/ \E t \in Txns : Create(t) \/ OtherFind(t) \/ OtherUpdate(t)
           \/ Age
    PROVE  /\ UNCHANGED <<run, results, runs, aborts>>
           /\ TypeOK' /\ TableSound'
           /\ \A t \in Txns : status[t] # NoStatus => status'[t] # NoStatus
           /\ \A t \in Txns : ~Open(t) => ~Open(t)'
<1>1. ASSUME NEW t \in Txns, Create(t)
      PROVE  /\ TypeOK' /\ TableSound'
             /\ \A u \in Txns : status[u] # NoStatus => status'[u] # NoStatus
             /\ \A u \in Txns : ~Open(u) => ~Open(u)'
  <2>1. /\ created \in Seq(Txns) /\ created' = Append(created, t)
        /\ status \in [Txns -> Status \cup {NoStatus}]
        /\ status[t] = NoStatus /\ status' = [status EXCEPT ![t] = "PENDING"]
        /\ UNCHANGED <<aged, other, run, results, runs, aborts>>
    BY <1>1 DEF TypeOK, Create
  <2>2. /\ created' \in Seq(Txns) /\ Len(created') = Len(created) + 1
        /\ DOMAIN created' = 1..Len(created) + 1 /\ DOMAIN created = 1..Len(created)
        /\ \A i \in DOMAIN created : created'[i] = created[i]
        /\ created'[Len(created) + 1] = t /\ Len(created) \in Nat
    BY <2>1
  <2>3. TypeOK'
    BY <2>1, <2>2 DEF TypeOK, Status, results
  <2>4. \A i, j \in DOMAIN created' : created'[i] = created'[j] => i = j
    <3>1. \A i \in DOMAIN created : created[i] # t
      BY <2>1 DEF TableSound
    <3> QED
      BY <2>2, <3>1 DEF TableSound
  <2>5. \A u \in Txns : status'[u] = IF u = t THEN "PENDING" ELSE status[u]
    BY <2>1
  <2>6. \A i \in DOMAIN created' : status'[created'[i]] # NoStatus
    <3>1. \A i \in DOMAIN created : created[i] \in Txns /\ status[created[i]] # NoStatus
      BY <2>1 DEF TableSound
    <3> QED
      BY <2>2, <2>5, <3>1 DEF NoStatus
  <2> QED
    BY <2>1, <2>3, <2>4, <2>5, <2>6 DEF TableSound, Open, NoStatus
<1>2. ASSUME NEW t \in Txns, OtherFind(t)
      PROVE  /\ TypeOK' /\ TableSound'
             /\ \A u \in Txns : status[u] # NoStatus => status'[u] # NoStatus
             /\ \A u \in Txns : ~Open(u) => ~Open(u)'
  <2>1. PICK s \in TRANSACTION_STATE_MACHINE[status[t]] : other' = [other EXCEPT ![t] = s]
    BY <1>2 DEF OtherFind
  <2>2. status[t] \in Status /\ status[t] # NoStatus /\ other \in [Txns -> Status \cup {NoStatus}]
    BY <1>2 DEF OtherFind, TypeOK
  <2>3. s \in Status \ {"PENDING"}
    BY <2>1, <2>2, NeverPendingAgain
  <2>4. UNCHANGED <<status, created, aged, run, results, runs, aborts>>
    BY <1>2 DEF OtherFind
  <2>5. \A u \in Txns : other'[u] = IF u = t THEN s ELSE other[u]
    BY <2>1, <2>2
  <2>6. TypeOK'
    BY <2>1, <2>2, <2>3, <2>4 DEF TypeOK, results
  <2> QED
    BY <2>2, <2>3, <2>4, <2>5, <2>6 DEF TableSound, Open
<1>3. ASSUME NEW t \in Txns, OtherUpdate(t)
      PROVE  /\ TypeOK' /\ TableSound'
             /\ \A u \in Txns : status[u] # NoStatus => status'[u] # NoStatus
             /\ \A u \in Txns : ~Open(u) => ~Open(u)'
  <2>1. /\ other[t] # NoStatus /\ other[t] \in Status \ {"PENDING"}
        /\ status' = [status EXCEPT ![t] = other[t]]
        /\ other' = [other EXCEPT ![t] = NoStatus]
        /\ UNCHANGED <<created, aged, run, results, runs, aborts>>
    BY <1>3 DEF OtherUpdate, TypeOK, TableSound
  <2>2. TypeOK'
    BY <2>1 DEF TypeOK, results
  <2>3. \A u \in Txns : /\ status'[u] = IF u = t THEN other[t] ELSE status[u]
                        /\ other'[u] = IF u = t THEN NoStatus ELSE other[u]
    BY <2>1 DEF TypeOK
  <2>4. \A i \in DOMAIN created : created[i] \in Txns
    BY DEF TypeOK
  <2> QED
    BY <2>1, <2>2, <2>3, <2>4 DEF TableSound, Open
<1>4. ASSUME Age PROVE TypeOK' /\ TableSound' /\ status' = status
  BY <1>4 DEF Age, TypeOK, TableSound, results
<1> QED
  BY <1>1, <1>2, <1>3, <1>4 DEF Create, OtherFind, OtherUpdate, Age, Open

\* A step of the run leaves created, aged and other alone; it changes a status at
\* Update only, to SUCCESS.
LEMMA RunTypeStep ==
    ASSUME TypeOK, TableSound, RunSound, StartRun \/ Progress \/ Stop
    PROVE  TypeOK' /\ TableSound'
<1> USE LimitsAssumption
<1>1. /\ run \in Run /\ run.pc \in PCs /\ run.file \in [Txns -> Bank \cup {Absent}]
      /\ run.newest \in Seq(Txns) /\ run.rows \in Seq(Txns)
      /\ run.seen \in [Txns -> Status \cup {NoStatus}] /\ run.next \in Nat
  BY DEF TypeOK, Run
<1>2. run.pc \in {"find", "update", "history", "audit", "upsert"}
        => Current \in Txns /\ run.seen[Current] \in Status
  BY <1>1 DEF RunSound, Current
<1>3. CASE StartRun
  <2>1. NoRun \in Run
    BY DEF NoRun, Run, PCs, Bank, Absent, NoStatus, Status
  <2>2. run' \in Run
    BY <1>3, <2>1 DEF StartRun, Run, PCs
  <2> QED
    BY <1>3, <2>2 DEF StartRun, TypeOK, TableSound, table, results
<1>4. CASE ReadFile
  <2> DEFINE lines == Newest(FileLimit)
             line(t) == {i \in DOMAIN lines : lines[i] = t}
             file == [t \in Txns |-> IF line(t) = {} THEN Absent
                                    ELSE Settled(lines, CHOOSE i \in line(t) : TRUE)]
  <2>1. Newest(1) \in Seq(Txns)
    BY NewestRows
  <2>2. \A i : Settled(lines, i) \in Bank
    BY DEF Settled, Bank
  <2>3. file \in [Txns -> Bank \cup {Absent}]
    BY <2>2
  <2>4. run' = [run EXCEPT !.pc = "rows", !.newest = Newest(1), !.file = file]
    BY <1>4 DEF ReadFile
  <2> HIDE DEF file
  <2>5. run' \in Run
    BY <1>1, <2>1, <2>3, <2>4 DEF Run, PCs
  <2> QED
    BY <1>4, <2>5 DEF ReadFile, TypeOK, TableSound, table, results
<1>5. CASE ReadRows
  <2>1. Newest(RowLimit) \in Seq(Txns)
    BY NewestRows
  <2>2. run' \in Run
    BY <1>1, <1>5, <2>1 DEF ReadRows, Run, PCs, TypeOK
  <2> QED
    BY <1>5, <2>2 DEF ReadRows, TypeOK, TableSound, table, results
<1>6. CASE Row
  <2>1. run' \in Run
    BY <1>1, <1>6 DEF Row, Run, PCs
  <2> QED
    BY <1>6, <2>1 DEF Row, TypeOK, TableSound, table, results
<1>7. CASE Find
  <2>1. run' \in Run
    BY <1>1, <1>7 DEF Find, Run, PCs
  <2> QED
    BY <1>7, <2>1 DEF Find, TypeOK, TableSound, table, results
<1>8. CASE Update
  <2>1. run' \in Run
    BY <1>1, <1>8 DEF Update, Run, PCs
  <2>2. status' = [status EXCEPT ![Current] = "SUCCESS"]
    BY <1>8 DEF Update
  <2>3. \A t \in Txns : status'[t] = status[t] \/ status'[t] = "SUCCESS"
    BY <2>2 DEF TypeOK
  <2>4. TypeOK'
    BY <1>2, <1>8, <2>1, <2>2 DEF Update, TypeOK, results, Status
  <2>5. \A i \in DOMAIN created : created[i] \in Txns
    BY DEF TypeOK
  <2> QED
    BY <1>8, <2>3, <2>4, <2>5 DEF Update, TableSound, NoStatus
<1>9. CASE History
  <2>1. run' \in Run
    BY <1>1, <1>9 DEF History, Run, PCs
  <2>2. corrections' \in [Txns -> Nat]
    BY <1>2, <1>9 DEF History, TypeOK
  <2> QED
    BY <1>9, <2>1, <2>2 DEF History, TypeOK, TableSound, table
<1>10. CASE Audit
  <2>1. run' \in Run
    BY <1>1, <1>10 DEF Audit, Run, PCs
  <2>2. audits' \in [Txns -> Nat]
    BY <1>2, <1>10 DEF Audit, TypeOK
  <2> QED
    BY <1>10, <2>1, <2>2 DEF Audit, TypeOK, TableSound, table
<1>11. CASE Upsert
  <2>1. run' \in Run
    <3>1. run' = [run EXCEPT !.pc = "row", !.next = run.next + 1] /\ run.next + 1 \in Nat
      BY <1>1, <1>11 DEF Upsert
    <3> QED
      BY <1>1, <3>1 DEF Run, PCs
  <2>2. Current \in Txns /\ run.seen[Current] \in Status
    BY <1>2, <1>11 DEF Upsert
  <2>3. BankStatus(Current) \in Bank
    BY <1>1, <2>2 DEF BankStatus, Bank
  <2> DEFINE known == run.file[Current] # Absent
                         \/ (records[Current] # Unchecked /\ records[Current].bankTxnId)
  <2>4. known \in BOOLEAN
    OBVIOUS
  <2> HIDE DEF known
  <2>5. Verdict(Current) = [verdict |-> Verdict(Current).verdict, internal |-> run.seen[Current],
                            bank |-> BankStatus(Current), bankTxnId |-> known]
    BY DEF Verdict, known
  <2>6. Verdict(Current).verdict \in {"MATCHED", "RESOLVED"}
    BY DEF Verdict
  <2>7. Verdict(Current) \in Record
    BY <2>2, <2>3, <2>4, <2>5, <2>6 DEF Record
  <2>8. records' \in [Txns -> Record \cup {Unchecked}]
    BY <1>11, <2>2, <2>7 DEF Upsert, TypeOK
  <2> QED
    BY <1>11, <2>1, <2>8 DEF Upsert, TypeOK, TableSound, table
<1>12. CASE Stop
  <2>1. run' \in Run
    BY <1>1, <1>12 DEF Stop, Run, PCs
  <2> QED
    BY <1>12, <2>1 DEF Stop, TypeOK, TableSound, table, results
<1> QED
  BY <1>3, <1>4, <1>5, <1>6, <1>7, <1>8, <1>9, <1>10, <1>11, <1>12 DEF Progress

----------------------------------------------------------------------------------
(* The invariant. *)

LEMMA InitIInv ==
    ASSUME Init
    PROVE  IInv
<1>1. TypeOK
  BY TypeInit
<1>2. run = NoRun /\ run.pc = "idle" /\ run.rows = <<>> /\ run.next = 1
  BY DEF Init, NoRun
<1>3. /\ created = <<>> /\ \A t \in Txns : /\ other[t] = NoStatus /\ records[t] = Unchecked
                                           /\ corrections[t] = 0 /\ audits[t] = 0
  BY DEF Init
<1>4. \A t \in Txns : run.file[t] = "ABSENT"
  BY DEF Init, NoRun, Absent
<1>5. TableSound /\ RunSound /\ FileSound /\ CorrectionSound
  BY <1>2, <1>3, <1>4 DEF TableSound, RunSound, FileSound, CorrectionSound
<1>6. Unaudited = {}
  BY <1>3 DEF Unaudited
<1>7. IsFiniteSet(Unaudited) /\ AuditFollowsHistory
  <2>1. aborts = 0
    BY DEF Init
  <2> QED
    BY <1>1, <1>2, <1>3, <1>6, <2>1, GapAccounted, FS_EmptySet
<1>8. ReportAgrees /\ ResolvedByCorrection /\ OnlyNewestCorrected
  BY <1>2, <1>3 DEF ReportAgrees, ResolvedByCorrection, OnlyNewestCorrected
<1> QED
  BY <1>1, <1>5, <1>7, <1>8 DEF IInv

\* Whatever leaves the results alone leaves the audit log's gap alone; inside the gap's
\* own step only a stopped run may leave it open.
LEMMA GapStill ==
    ASSUME IInv, TypeOK', UNCHANGED results, run.pc = "audit" => run'.pc = "audit" \/ aborts' = aborts + 1,
           aborts' \in {aborts, aborts + 1}
    PROVE  IsFiniteSet(Unaudited)' /\ AuditFollowsHistory'
<1>1. Unaudited' = Unaudited /\ corrections' = corrections /\ audits' = audits
  BY DEF Unaudited, results
<1>2. /\ \A t \in Txns : audits[t] <= corrections[t]
      /\ Cardinality(Unaudited) <= aborts + (IF run.pc = "audit" THEN 1 ELSE 0)
      /\ IsFiniteSet(Unaudited) /\ aborts \in Nat
  BY GapAccounted, LimitsAssumption DEF IInv, TypeOK
<1>3. Cardinality(Unaudited) \in Nat
  BY <1>2, FS_CardinalityType
<1> QED
  BY <1>1, <1>2, <1>3, GapAccountedNext

LEMMA TableKeepsIInv ==
    ASSUME IInv,
           \/ \E t \in Txns : Create(t) \/ OtherFind(t) \/ OtherUpdate(t)
           \/ Age
    PROVE  IInv'
<1>1. /\ UNCHANGED <<run, results, runs, aborts>>
      /\ TypeOK' /\ TableSound'
      /\ \A t \in Txns : status[t] # NoStatus => status'[t] # NoStatus
      /\ \A t \in Txns : ~Open(t) => ~Open(t)'
  BY TableStep DEF IInv
<1>2. \A i \in DOMAIN run.rows : run.rows[i] \in Txns
  BY DEF IInv, TypeOK, Run
<1>3. RunSound'
  BY <1>1, <1>2 DEF IInv, RunSound
<1>4. FileSound'
  BY <1>1 DEF IInv, FileSound
<1>5. CorrectionSound'
  <2>1. run.pc \in {"find", "update", "history", "audit", "upsert"} => Current \in Txns
    BY <1>2 DEF IInv, RunSound, Current
  <2> QED
    BY <1>1, <2>1 DEF IInv, CorrectionSound, Current, results, BankStatus
<1>6. IsFiniteSet(Unaudited)' /\ AuditFollowsHistory'
  BY <1>1, GapStill DEF IInv
<1>7. ReportAgrees' /\ ResolvedByCorrection' /\ OnlyNewestCorrected'
  BY <1>1 DEF IInv, ReportAgrees, ResolvedByCorrection, OnlyNewestCorrected, Current, results,
              BankStatus
<1> QED
  BY <1>1, <1>3, <1>4, <1>5, <1>6, <1>7 DEF IInv

\* The steps that only read.
LEMMA StartRunKeepsIInv ==
    ASSUME IInv, StartRun
    PROVE  IInv'
<1>1. TypeOK' /\ TableSound'
  BY RunTypeStep DEF IInv
<1>2. /\ run.pc \in {"idle", "done", "rejected", "stopped"}
      /\ run' = [NoRun EXCEPT !.pc = "file"]
      /\ UNCHANGED <<table, results, aborts>>
  BY DEF StartRun
<1>3. /\ run'.pc = "file" /\ run'.rows = <<>> /\ run'.next = 1
      /\ \A t \in Txns : run'.file[t] = "ABSENT"
  BY <1>2 DEF NoRun, Absent
<1>4. RunSound' /\ FileSound' /\ CorrectionSound'
  BY <1>2, <1>3 DEF IInv, RunSound, FileSound, CorrectionSound, Open, table, results
<1>5. IsFiniteSet(Unaudited)' /\ AuditFollowsHistory'
  BY <1>1, <1>2, GapStill
<1>6. ReportAgrees' /\ ResolvedByCorrection' /\ OnlyNewestCorrected'
  BY <1>2, <1>3 DEF IInv, ReportAgrees, ResolvedByCorrection, OnlyNewestCorrected, results
<1> QED
  BY <1>1, <1>4, <1>5, <1>6 DEF IInv

\* The file that is read says SUCCESS of its first line, and of rows that are SUCCESS.
LEMMA ReadFileKeepsIInv ==
    ASSUME IInv, ReadFile
    PROVE  IInv'
<1> DEFINE lines == Newest(FileLimit)
           line(t) == {i \in DOMAIN lines : lines[i] = t}
           file == [t \in Txns |-> IF line(t) = {} THEN Absent
                                  ELSE Settled(lines, CHOOSE i \in line(t) : TRUE)]
<1>1. TypeOK' /\ TableSound'
  BY RunTypeStep DEF IInv, Progress
<1>2. /\ run.pc = "file" /\ UNCHANGED <<table, results, runs, aborts>>
      /\ run' = [run EXCEPT !.pc = "rows", !.newest = Newest(1), !.file = file]
  BY DEF ReadFile
<1>3. /\ run'.pc = "rows" /\ run'.rows = run.rows /\ run'.next = run.next
      /\ run'.newest = Newest(1) /\ run'.file = file
  <2> HIDE DEF file
  <2> QED
    BY <1>2 DEF IInv, TypeOK, Run
<1>4. ASSUME NEW t \in Txns, file[t] = "SUCCESS"
      PROVE  Newest(1) = <<t>> \/ ~Open(t)
  <2>1. line(t) # {} /\ file[t] = Settled(lines, CHOOSE i \in line(t) : TRUE)
    BY <1>4 DEF Absent
  <2>2. PICK i \in DOMAIN lines : lines[i] = t /\ Settled(lines, i) = "SUCCESS"
    BY <1>4, <2>1
  <2>3. i = 1 \/ status[t] = "SUCCESS"
    BY <2>2 DEF Settled
  <2>4. 1 \in DOMAIN lines => Newest(1) = <<lines[1]>>
    BY NewestRows, LimitsAssumption DEF IInv
  <2> QED
    BY <2>2, <2>3, <2>4 DEF Open, NoStatus
<1>5. run.rows = <<>> /\ run.next = 1
  BY <1>2 DEF IInv, RunSound
<1>6. RunSound' /\ CorrectionSound'
  BY <1>2, <1>3, <1>5 DEF IInv, RunSound, CorrectionSound, Open, table, results
<1>7. FileSound'
  <2> HIDE DEF file
  <2> QED
    BY <1>2, <1>3, <1>4 DEF FileSound, Open, table
<1>8. IsFiniteSet(Unaudited)' /\ AuditFollowsHistory'
  BY <1>1, <1>2, GapStill
<1>9. ReportAgrees' /\ ResolvedByCorrection' /\ OnlyNewestCorrected'
  <2> HIDE DEF file
  <2> QED
    BY <1>2, <1>3, <1>5 DEF IInv, ReportAgrees, ResolvedByCorrection, OnlyNewestCorrected, results
<1> QED
  BY <1>1, <1>6, <1>7, <1>8, <1>9 DEF IInv

LEMMA ReadRowsKeepsIInv ==
    ASSUME IInv, ReadRows
    PROVE  IInv'
<1>1. TypeOK' /\ TableSound'
  BY RunTypeStep DEF IInv, Progress
<1>2. /\ run.pc = "rows" /\ UNCHANGED <<table, results, runs, aborts>>
      /\ run' = [run EXCEPT !.pc = "row", !.rows = Newest(RowLimit), !.seen = status]
  BY DEF ReadRows
<1>3. /\ run'.pc = "row" /\ run'.rows = Newest(RowLimit) /\ run'.seen = status
      /\ run'.next = 1 /\ run'.newest = run.newest /\ run'.file = run.file
  BY <1>2 DEF IInv, RunSound, TypeOK, Run
<1>4. /\ \A i, j \in DOMAIN Newest(RowLimit) : Newest(RowLimit)[i] = Newest(RowLimit)[j] => i = j
      /\ \A i \in DOMAIN Newest(RowLimit) : status[Newest(RowLimit)[i]] # NoStatus
  BY NewestRows, LimitsAssumption DEF IInv
<1>5. RunSound' /\ FileSound' /\ CorrectionSound'
  BY <1>2, <1>3, <1>4 DEF IInv, RunSound, FileSound, CorrectionSound, Open, table, results
<1>6. IsFiniteSet(Unaudited)' /\ AuditFollowsHistory'
  BY <1>1, <1>2, GapStill
<1>7. ReportAgrees' /\ ResolvedByCorrection' /\ OnlyNewestCorrected'
  BY <1>2, <1>3 DEF IInv, ReportAgrees, ResolvedByCorrection, OnlyNewestCorrected, results
<1> QED
  BY <1>1, <1>5, <1>6, <1>7 DEF IInv

\* The steps of the loop's body, which keep the run's lists.
LoopStep ==
    /\ run'.rows = run.rows /\ run'.seen = run.seen /\ run'.file = run.file
    /\ run'.newest = run.newest

LEMMA RowKeepsIInv ==
    ASSUME IInv, Row
    PROVE  IInv'
<1>1. TypeOK' /\ TableSound'
  BY RunTypeStep DEF IInv, Progress
<1> DEFINE at == CASE run.next > Len(run.rows) -> "done"
                   [] run.next <= Len(run.rows)
                      /\ NeedsCorrection(run.seen[Current], BankStatus(Current)) -> "find"
                   [] OTHER -> "upsert"
<1>2. /\ run.pc = "row" /\ UNCHANGED <<table, results, runs, aborts>>
      /\ run' = [run EXCEPT !.pc = at]
  BY DEF Row
<1>3. /\ run.rows \in Seq(Txns) /\ Len(run.rows) \in Nat /\ run.next \in Nat \ {0}
      /\ DOMAIN run.rows = 1..Len(run.rows)
  BY DEF IInv, TypeOK, Run, RunSound
<1>4. \/ at = "done" /\ run.next > Len(run.rows)
      \/ at = "find" /\ run.next \in DOMAIN run.rows
                     /\ NeedsCorrection(run.seen[Current], BankStatus(Current))
      \/ at = "upsert" /\ run.next \in DOMAIN run.rows
                       /\ ~NeedsCorrection(run.seen[Current], BankStatus(Current))
  <2>1. CASE run.next > Len(run.rows)
    BY <1>3, <2>1
  <2>2. CASE run.next <= Len(run.rows) /\ NeedsCorrection(run.seen[Current], BankStatus(Current))
    <3>1. ~(run.next > Len(run.rows)) /\ run.next \in DOMAIN run.rows
      BY <1>3, <2>2
    <3> QED
      BY <2>2, <3>1
  <2>3. CASE ~(run.next > Len(run.rows)) /\ ~NeedsCorrection(run.seen[Current], BankStatus(Current))
    <3>1. run.next \in DOMAIN run.rows
      BY <1>3, <2>3
    <3> QED
      BY <2>3, <3>1
  <2> QED
    BY <1>3, <2>1, <2>2, <2>3
<1> HIDE DEF at
<1>5. run'.pc = at /\ run'.next = run.next /\ LoopStep
  BY <1>2 DEF LoopStep, IInv, TypeOK, Run
<1>6. Current' = Current /\ \A t : BankStatus(t)' = BankStatus(t)
  BY <1>5 DEF LoopStep, Current, BankStatus
<1>7. RunSound' /\ FileSound'
  BY <1>2, <1>4, <1>5 DEF IInv, RunSound, FileSound, Open, table, LoopStep
<1>8. CorrectionSound'
  BY <1>2, <1>4, <1>5, <1>6 DEF IInv, CorrectionSound, Open, table, results, LoopStep
<1>9. IsFiniteSet(Unaudited)' /\ AuditFollowsHistory'
  BY <1>1, <1>2, GapStill
<1>10. ReportAgrees'
  BY <1>2, <1>3, <1>4, <1>5, <1>6 DEF IInv, ReportAgrees, results, LoopStep
<1>11. ResolvedByCorrection' /\ OnlyNewestCorrected'
  BY <1>2, <1>4, <1>5 DEF IInv, ResolvedByCorrection, OnlyNewestCorrected, results
<1> QED
  BY <1>1, <1>7, <1>8, <1>9, <1>10, <1>11 DEF IInv

\* What the loop's body knows of the row it is at.
LEMMA AtRow ==
    ASSUME IInv, run.pc \in {"find", "update", "history", "audit", "upsert"}
    PROVE  /\ run.next \in DOMAIN run.rows /\ Current \in Txns
           /\ run.next \in Nat /\ DOMAIN run.rows = 1..Len(run.rows)
           /\ run.seen[Current] \in Status
           /\ status[Current] \in Status
BY DEF IInv, TypeOK, Run, RunSound, Current

\* The check of transitionStatus lets only a PENDING row through, so what it lets
\* through is the first line of the file, and was never corrected before.
LEMMA FindKeepsIInv ==
    ASSUME IInv, Find
    PROVE  IInv'
<1>1. TypeOK' /\ TableSound'
  BY RunTypeStep DEF IInv, Progress
<1>2. /\ run.pc = "find" /\ UNCHANGED <<table, results, runs, aborts>>
      /\ run' = IF Correctable(status[Current])
                THEN [run EXCEPT !.pc = "update"] ELSE [run EXCEPT !.pc = "rejected"]
  BY DEF Find
<1>3. /\ run'.pc \in {"update", "rejected"} /\ run'.next = run.next /\ LoopStep
      /\ run'.pc = "update" => Correctable(status[Current])
  BY <1>2 DEF LoopStep, IInv, TypeOK, Run
<1>4. Current' = Current /\ \A t : BankStatus(t)' = BankStatus(t)
  BY <1>3 DEF LoopStep, Current, BankStatus
<1>5. run.next \in DOMAIN run.rows /\ Current \in Txns /\ status[Current] \in Status
  BY <1>2, AtRow
<1>6. ASSUME Correctable(status[Current])
      PROVE  corrections[Current] = 0 /\ run.newest = <<Current>>
  <2>1. Open(Current)
    BY <1>5, <1>6, Correctability DEF Open
  <2>2. corrections[Current] \in Nat /\ corrections[Current] <= 1 /\ corrections[Current] # 1
    BY <1>5, <2>1 DEF IInv, TypeOK, CorrectionSound
  <2>3. run.file[Current] = "SUCCESS"
    <3>1. BankStatus(Current) = "SUCCESS"
      BY <1>2 DEF IInv, CorrectionSound, NeedsCorrection
    <3> QED
      BY <3>1 DEF BankStatus
  <2> QED
    BY <1>5, <2>1, <2>2, <2>3 DEF IInv, FileSound
<1>7. RunSound' /\ FileSound'
  BY <1>2, <1>3, <1>5 DEF IInv, RunSound, FileSound, Open, table, LoopStep
<1>8. CorrectionSound'
  BY <1>2, <1>3, <1>4, <1>6 DEF IInv, CorrectionSound, Open, table, results, LoopStep
<1>9. IsFiniteSet(Unaudited)' /\ AuditFollowsHistory'
  BY <1>1, <1>2, GapStill
<1>10. ReportAgrees'
  BY <1>2, <1>3, <1>4 DEF IInv, ReportAgrees, results, LoopStep
<1>11. ResolvedByCorrection' /\ OnlyNewestCorrected'
  BY <1>2, <1>3, <1>4, <1>6 DEF IInv, ResolvedByCorrection, OnlyNewestCorrected, results, LoopStep
<1> QED
  BY <1>1, <1>7, <1>8, <1>9, <1>10, <1>11 DEF IInv

LEMMA UpdateKeepsIInv ==
    ASSUME IInv, Update
    PROVE  IInv'
<1>1. TypeOK' /\ TableSound'
  BY RunTypeStep DEF IInv, Progress
<1>2. /\ run.pc = "update" /\ UNCHANGED <<created, aged, other, results, runs, aborts>>
      /\ run' = [run EXCEPT !.pc = "history"]
      /\ status' = [status EXCEPT ![Current] = "SUCCESS"]
  BY DEF Update
<1>3. run'.pc = "history" /\ run'.next = run.next /\ LoopStep
  BY <1>2 DEF LoopStep, IInv, TypeOK, Run
<1>4. Current' = Current /\ \A t : BankStatus(t)' = BankStatus(t)
  BY <1>3 DEF LoopStep, Current, BankStatus
<1>5. run.next \in DOMAIN run.rows /\ Current \in Txns
  BY <1>2, AtRow
<1>6. \A t \in Txns : status'[t] = IF t = Current THEN "SUCCESS" ELSE status[t]
  BY <1>2, <1>5 DEF IInv, TypeOK
<1>7. /\ \A t \in Txns : ~Open(t) => ~Open(t)'
      /\ ~Open(Current)'
  BY <1>4, <1>5, <1>6 DEF Open, NoStatus
<1>8. RunSound' /\ FileSound'
  <2>1. \A i \in DOMAIN run.rows : run.rows[i] \in Txns
    BY DEF IInv, TypeOK, Run
  <2> QED
    BY <1>2, <1>3, <1>5, <1>6, <1>7, <2>1 DEF IInv, RunSound, FileSound, LoopStep, NoStatus
<1>9. CorrectionSound'
  BY <1>2, <1>3, <1>4, <1>5, <1>7 DEF IInv, CorrectionSound, results, LoopStep
<1>10. IsFiniteSet(Unaudited)' /\ AuditFollowsHistory'
  BY <1>1, <1>2, GapStill
<1>11. ReportAgrees'
  BY <1>2, <1>3, <1>4 DEF IInv, ReportAgrees, results, LoopStep
<1>12. ResolvedByCorrection' /\ OnlyNewestCorrected'
  BY <1>2, <1>3, <1>4 DEF IInv, ResolvedByCorrection, OnlyNewestCorrected, results, LoopStep
<1> QED
  BY <1>1, <1>8, <1>9, <1>10, <1>11, <1>12 DEF IInv

\* The history row opens the audit log's gap by one.
LEMMA HistoryKeepsIInv ==
    ASSUME IInv, History
    PROVE  IInv'
<1>1. TypeOK' /\ TableSound'
  BY RunTypeStep DEF IInv, Progress
<1>2. /\ run.pc = "history" /\ UNCHANGED <<table, records, audits, runs, aborts>>
      /\ run' = [run EXCEPT !.pc = "audit"]
      /\ corrections' = [corrections EXCEPT ![Current] = corrections[Current] + 1]
  BY DEF History
<1>3. run'.pc = "audit" /\ run'.next = run.next /\ LoopStep
  BY <1>2 DEF LoopStep, IInv, TypeOK, Run
<1>4. Current' = Current /\ \A t : BankStatus(t)' = BankStatus(t)
  BY <1>3 DEF LoopStep, Current, BankStatus
<1>5. run.next \in DOMAIN run.rows /\ Current \in Txns
  BY <1>2, AtRow
<1>6. corrections[Current] = 0 /\ ~Open(Current)
  BY <1>2 DEF IInv, CorrectionSound
<1>7. \A t \in Txns : corrections'[t] = IF t = Current THEN 1 ELSE corrections[t]
  BY <1>2, <1>5, <1>6 DEF IInv, TypeOK
<1>8. /\ \A t \in Txns : audits[t] <= corrections[t] /\ audits[t] \in Nat
                         /\ corrections[t] \in Nat
      /\ Cardinality(Unaudited) <= aborts
      /\ IsFiniteSet(Unaudited) /\ aborts \in Nat
  BY <1>2, GapAccounted, LimitsAssumption DEF IInv, TypeOK
<1>9. audits[Current] = 0
  BY <1>5, <1>6, <1>8
<1>10. RunSound' /\ FileSound'
  BY <1>2, <1>3, <1>5 DEF IInv, RunSound, FileSound, Open, table, LoopStep
<1>11. CorrectionSound'
  BY <1>2, <1>3, <1>4, <1>5, <1>6, <1>7, <1>9 DEF IInv, CorrectionSound, Open, table, LoopStep
<1>12. Unaudited' = Unaudited \cup {Current}
  BY <1>2, <1>5, <1>7, <1>9 DEF Unaudited
<1>13. /\ IsFiniteSet(Unaudited') /\ Cardinality(Unaudited') <= Cardinality(Unaudited) + 1
       /\ Cardinality(Unaudited) \in Nat /\ Cardinality(Unaudited') \in Nat
  <2>1. Cardinality(Unaudited) \in Nat
    BY <1>8, FS_CardinalityType
  <2> QED
    BY <1>8, <1>12, <2>1, FS_AddElement
<1>14. AuditFollowsHistory'
  <2>1. \A t \in Txns : audits'[t] <= corrections'[t]
    BY <1>2, <1>7, <1>8, <1>9
  <2> QED
    BY <1>1, <1>2, <1>3, <1>8, <1>13, <2>1, GapAccountedNext
<1>15. ReportAgrees'
  BY <1>2, <1>3, <1>4 DEF IInv, ReportAgrees, LoopStep
<1>16. ResolvedByCorrection' /\ OnlyNewestCorrected'
  BY <1>2, <1>3, <1>7 DEF IInv, ResolvedByCorrection, OnlyNewestCorrected
<1> QED
  BY <1>1, <1>10, <1>11, <1>13, <1>14, <1>15, <1>16 DEF IInv

\* The audit entry closes it again.
LEMMA AuditKeepsIInv ==
    ASSUME IInv, Audit
    PROVE  IInv'
<1>1. TypeOK' /\ TableSound'
  BY RunTypeStep DEF IInv, Progress
<1>2. /\ run.pc = "audit" /\ UNCHANGED <<table, records, corrections, runs, aborts>>
      /\ run' = [run EXCEPT !.pc = "upsert"]
      /\ audits' = [audits EXCEPT ![Current] = audits[Current] + 1]
  BY DEF Audit
<1>3. run'.pc = "upsert" /\ run'.next = run.next /\ LoopStep
  BY <1>2 DEF LoopStep, IInv, TypeOK, Run
<1>4. Current' = Current /\ \A t : BankStatus(t)' = BankStatus(t)
  BY <1>3 DEF LoopStep, Current, BankStatus
<1>5. run.next \in DOMAIN run.rows /\ Current \in Txns
  BY <1>2, AtRow
<1>6. corrections[Current] = 1 /\ audits[Current] = 0
  BY <1>2 DEF IInv, CorrectionSound
<1>7. \A t \in Txns : audits'[t] = IF t = Current THEN 1 ELSE audits[t]
  BY <1>2, <1>5, <1>6 DEF IInv, TypeOK
<1>8. /\ \A t \in Txns : audits[t] <= corrections[t] /\ audits[t] \in Nat
                         /\ corrections[t] \in Nat
      /\ Cardinality(Unaudited) <= aborts + 1
      /\ IsFiniteSet(Unaudited) /\ aborts \in Nat
  BY <1>2, GapAccounted, LimitsAssumption DEF IInv, TypeOK
<1>9. RunSound' /\ FileSound'
  BY <1>2, <1>3, <1>5 DEF IInv, RunSound, FileSound, Open, table, LoopStep
<1>10. CorrectionSound'
  BY <1>2, <1>3, <1>4, <1>6 DEF IInv, CorrectionSound, Open, table, LoopStep
<1>11. Unaudited' = Unaudited \ {Current} /\ Current \in Unaudited
  BY <1>2, <1>5, <1>6, <1>7 DEF Unaudited
<1>12. /\ IsFiniteSet(Unaudited') /\ Cardinality(Unaudited') = Cardinality(Unaudited) - 1
       /\ Cardinality(Unaudited) \in Nat
  BY <1>8, <1>11, FS_CardinalityType, FS_RemoveElement
<1>13. AuditFollowsHistory'
  <2>1. \A t \in Txns : audits'[t] <= corrections'[t]
    BY <1>2, <1>6, <1>7, <1>8
  <2> QED
    BY <1>1, <1>2, <1>3, <1>8, <1>12, <2>1, GapAccountedNext
<1>14. ReportAgrees'
  BY <1>2, <1>3, <1>4 DEF IInv, ReportAgrees, LoopStep
<1>15. ResolvedByCorrection' /\ OnlyNewestCorrected'
  BY <1>2, <1>3 DEF IInv, ResolvedByCorrection, OnlyNewestCorrected
<1> QED
  BY <1>1, <1>9, <1>10, <1>12, <1>13, <1>14, <1>15 DEF IInv

\* The verdict that is written is this run's, of a row no earlier place of the list has.
LEMMA UpsertKeepsIInv ==
    ASSUME IInv, Upsert
    PROVE  IInv'
<1>1. TypeOK' /\ TableSound'
  BY RunTypeStep DEF IInv, Progress
<1>2. /\ run.pc = "upsert" /\ UNCHANGED <<table, corrections, audits, runs, aborts>>
      /\ run' = [run EXCEPT !.pc = "row", !.next = run.next + 1]
      /\ records' = [records EXCEPT ![Current] = Verdict(Current)]
  BY DEF Upsert
<1>3. run'.pc = "row" /\ run'.next = run.next + 1 /\ LoopStep
  BY <1>2 DEF LoopStep, IInv, TypeOK, Run
<1>4. \A t : BankStatus(t)' = BankStatus(t)
  BY <1>3 DEF LoopStep, BankStatus
<1>5. /\ run.next \in DOMAIN run.rows /\ Current \in Txns /\ run.next \in Nat
      /\ DOMAIN run.rows = 1..Len(run.rows)
  BY <1>2, AtRow
<1>6. \A t \in Txns : records'[t] = IF t = Current THEN Verdict(Current) ELSE records[t]
  BY <1>2, <1>5 DEF IInv, TypeOK
<1>7. /\ Verdict(Current).verdict = IF IsMatch(run.seen[Current], BankStatus(Current))
                                    THEN "MATCHED" ELSE "RESOLVED"
      /\ Verdict(Current).internal = run.seen[Current]
      /\ Verdict(Current).bank = BankStatus(Current)
  BY DEF Verdict
<1>8. RunSound' /\ FileSound'
  BY <1>2, <1>3, <1>5 DEF IInv, RunSound, FileSound, Open, table, LoopStep
<1>9. CorrectionSound'
  BY <1>2, <1>3 DEF IInv, CorrectionSound, Open, table
<1>10. IsFiniteSet(Unaudited)' /\ AuditFollowsHistory'
  <2>1. Unaudited' = Unaudited
    BY <1>2 DEF Unaudited
  <2> QED
    BY <1>1, <1>2, <1>3, <2>1, GapAccounted, GapAccountedNext DEF IInv
<1>11. ReportAgrees'
  <2> SUFFICES ASSUME NEW i \in 1..Len(run.rows), i < run.next + 1
               PROVE  LET r == records'[run.rows[i]]
                      IN  /\ r # Unchecked
                          /\ r.internal = run.seen[run.rows[i]]
                          /\ r.bank = BankStatus(run.rows[i])
                          /\ r.verdict = "MATCHED" <=> IsMatch(r.internal, r.bank)
    BY <1>3, <1>4 DEF ReportAgrees, LoopStep
  <2>1. CASE i = run.next
    <3>1. records'[run.rows[i]] = Verdict(Current) /\ run.rows[i] = Current
      BY <1>5, <1>6, <2>1 DEF Current
    <3>2. Verdict(Current) # Unchecked
      BY <1>7 DEF Unchecked
    <3> QED
      BY <1>7, <3>1, <3>2
  <2>2. CASE i < run.next
    <3>1. run.rows[i] \in Txns
      BY DEF IInv, TypeOK, Run
    <3>2. i \in DOMAIN run.rows /\ i # run.next
      BY <1>5, <2>2
    <3>3. run.rows[i] # Current
      BY <1>5, <3>2 DEF IInv, RunSound, Current
    <3> QED
      BY <1>2, <1>6, <2>2, <3>1, <3>3 DEF IInv, ReportAgrees
  <2> QED
    BY <1>5, <2>1, <2>2
<1>12. ResolvedByCorrection'
  <2>1. ASSUME Verdict(Current).verdict = "RESOLVED", Verdict(Current).bank = "SUCCESS"
        PROVE  corrections[Current] > 0
    BY <1>2, <1>7, <2>1 DEF IInv, CorrectionSound, NeedsCorrection
  <2> QED
    BY <1>2, <1>6, <2>1 DEF IInv, ResolvedByCorrection
<1>13. OnlyNewestCorrected'
  BY <1>3 DEF OnlyNewestCorrected
<1> QED
  BY <1>1, <1>8, <1>9, <1>10, <1>11, <1>12, <1>13 DEF IInv

LEMMA StopKeepsIInv ==
    ASSUME IInv, Stop
    PROVE  IInv'
<1>1. TypeOK' /\ TableSound'
  BY RunTypeStep DEF IInv
<1>2. /\ run.pc \notin {"idle", "done", "rejected", "stopped"}
      /\ UNCHANGED <<table, results, runs>> /\ aborts' = aborts + 1
      /\ run' = [run EXCEPT !.pc = "stopped"]
  BY DEF Stop
<1>3. run'.pc = "stopped" /\ run'.next = run.next /\ LoopStep
  BY <1>2 DEF LoopStep, IInv, TypeOK, Run
<1>4. RunSound' /\ FileSound' /\ CorrectionSound'
  BY <1>2, <1>3 DEF IInv, RunSound, FileSound, CorrectionSound, Open, table, results, LoopStep
<1>5. IsFiniteSet(Unaudited)' /\ AuditFollowsHistory'
  BY <1>1, <1>2, GapStill
<1>6. ReportAgrees' /\ ResolvedByCorrection' /\ OnlyNewestCorrected'
  BY <1>2, <1>3 DEF IInv, ReportAgrees, ResolvedByCorrection, OnlyNewestCorrected, results
<1> QED
  BY <1>1, <1>4, <1>5, <1>6 DEF IInv

LEMMA NextIInv ==
    ASSUME IInv, [Next]_vars
    PROVE  IInv'
<1>1. CASE Next
  BY <1>1, TableKeepsIInv, StartRunKeepsIInv, ReadFileKeepsIInv, ReadRowsKeepsIInv,
     RowKeepsIInv, FindKeepsIInv, UpdateKeepsIInv, HistoryKeepsIInv, AuditKeepsIInv,
     UpsertKeepsIInv, StopKeepsIInv
     DEF Next, Progress
<1>2. CASE UNCHANGED vars
  BY <1>2 DEF vars, table, results, IInv, TypeOK, TableSound, RunSound, FileSound,
              CorrectionSound, Open, Current, BankStatus, Unaudited, ReportAgrees,
              AuditFollowsHistory, ResolvedByCorrection, OnlyNewestCorrected
<1> QED
  BY <1>1, <1>2

----------------------------------------------------------------------------------
(* What follows from the invariant. *)

\* IInv is an invariant: the run's list, the verdicts and the corrections agree with the
\* table at every step of a run, whatever the other handlers do in between.
THEOREM Inductive == Spec => []IInv
BY InitIInv, NextIInv, PTL DEF Spec

\* The reconciliation's variables keep their types.
THEOREM TypeCorrect == Spec => []TypeOK
BY Inductive, PTL DEF IInv

\* Every row a run has passed has that run's verdict.
THEOREM ReportsAgree == Spec => []ReportAgrees
BY Inductive, PTL DEF IInv

LEMMA NotYetCorrected ==
    ASSUME IInv
    PROVE  CorrectedOnce
<1>1. ASSUME NEW t \in Txns
      PROVE  corrections[t] +
                 (IF run.pc \in {"update", "history"} /\ Current = t THEN 1 ELSE 0) <= 1
  <2>1. corrections[t] \in Nat /\ corrections[t] <= 1
    BY <1>1 DEF IInv, TypeOK, CorrectionSound
  <2>2. CASE run.pc \in {"update", "history"} /\ Current = t
    <3>1. corrections[t] = 0
      BY <2>2 DEF IInv, CorrectionSound
    <3> QED
      BY <2>2, <3>1
  <2>3. CASE ~(run.pc \in {"update", "history"} /\ Current = t)
    BY <2>1, <2>3
  <2> QED
    BY <2>2, <2>3
<1> QED
  BY <1>1 DEF CorrectedOnce

\* No transaction is corrected twice, over all runs and whatever races with them.
THEOREM CorrectedAtMostOnce == Spec => []CorrectedOnce
BY Inductive, NotYetCorrected, PTL

\* Every audit entry has its correction; a correction without one cost a stopped run.
THEOREM CorrectionsAudited == Spec => []AuditFollowsHistory
BY Inductive, PTL DEF IInv

\* A verdict RESOLVED against the bank's SUCCESS is backed by a correction.
THEOREM ResolvedBacked == Spec => []ResolvedByCorrection
BY Inductive, PTL DEF IInv

\* A run corrects nothing but the first transaction of its settlement file.
THEOREM NewestAlone == Spec => []OnlyNewestCorrected
BY Inductive, PTL DEF IInv

===================================================================================
