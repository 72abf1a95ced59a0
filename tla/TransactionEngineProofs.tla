------------------------- MODULE TransactionEngineProofs -------------------------
(***************************************************************************)
(* What TLAPS proves of TransactionEngine for every set of transactions,     *)
(* requests and cron runs and for any number of aborts.                      *)
(***************************************************************************)
EXTENDS TransactionEngine, SequenceTheorems, FiniteSetTheorems, TLAPS

\* Appending keeps a sequence a sequence and leaves its old elements alone.
LEMMA AppendFacts ==
    ASSUME NEW S, NEW s \in Seq(S), NEW e \in S
    PROVE  /\ Append(s, e) \in Seq(S)
           /\ \A i \in DOMAIN Append(s, e) :
                  \/ i \in DOMAIN s /\ Append(s, e)[i] = s[i]
                  \/ Append(s, e)[i] = e
  OBVIOUS

\* Marking a delivery as queued keeps a sequence of deliveries one.
LEMMA MarkQueued ==
    ASSUME NEW s \in Seq(Delivery), NEW i
    PROVE  [s EXCEPT ![i].queued = TRUE] \in Seq(Delivery)
<1> DEFINE e == [s[i] EXCEPT !.queued = TRUE]
           new == [s EXCEPT ![i] = e]
<1>1. /\ Len(s) \in Nat
      /\ s \in [1..Len(s) -> Delivery]
  OBVIOUS
<1>2. i \in 1..Len(s) => e \in Delivery
  <2>1. \A d \in Delivery : [d EXCEPT !.queued = TRUE] \in Delivery
    BY DEF Delivery
  <2> QED
    BY <1>1, <2>1
<1>3. new \in [1..Len(s) -> Delivery]
  <2> HIDE DEF e
  <2> QED BY <1>1, <1>2
<1> HIDE DEF new
<1>4. new \in Seq(Delivery)
  BY <1>1, <1>3, SeqDef
<1> QED
  BY <1>4 DEF new

\* The transition table leads from statuses to statuses, and what each caller asks
\* for is a status; only SUCCESS leads to REFUNDED.
LEMMA TableFacts ==
    /\ \A f \in Status : TRANSACTION_STATE_MACHINE[f] \in SUBSET (Status \ {"PENDING"})
    /\ \A f \in Status : "REFUNDED" \in TRANSACTION_STATE_MACHINE[f] <=> f = "SUCCESS"
    /\ \A s \in BankStatus : normalizeTransactionStatus(s) \in GoalOf("row")
    /\ \A r : GoalOf(r) \in SUBSET (Status \ {"PENDING"})
    /\ NoStatus \notin Status
    /\ \A from, to \in Status : Legal(from, to) <=> to \in TRANSACTION_STATE_MACHINE[from]
    /\ \A to : ~Legal(NoStatus, to)
<1>1. \A f \in Status : TRANSACTION_STATE_MACHINE[f] \in SUBSET (Status \ {"PENDING"})
  BY DEF TRANSACTION_STATE_MACHINE, Status
<1>2. \A f \in Status : "REFUNDED" \in TRANSACTION_STATE_MACHINE[f] <=> f = "SUCCESS"
  BY DEF TRANSACTION_STATE_MACHINE, Status
<1>3. \A s \in BankStatus : normalizeTransactionStatus(s) \in GoalOf("row")
  BY DEF BankStatus, normalizeTransactionStatus, LEGACY_STATUS_ALIASES, GoalOf, Status,
         LegacyStatus
<1>4. \A r : GoalOf(r) \in SUBSET (Status \ {"PENDING"})
  BY DEF GoalOf, Status
<1>5. NoStatus \notin Status
  BY DEF NoStatus, Status
<1>6. \A s \in Status : normalizeTransactionStatus(s) = s
  BY DEF normalizeTransactionStatus, LEGACY_STATUS_ALIASES, Status, LegacyStatus
<1>7. \A from, to \in Status : Legal(from, to) <=> to \in TRANSACTION_STATE_MACHINE[from]
  BY <1>5, <1>6 DEF Legal, isValidTransition
<1>8. \A to : ~Legal(NoStatus, to)
  BY DEF Legal
<1>9. QED
  BY <1>1, <1>2, <1>3, <1>4, <1>5, <1>7, <1>8

LEMMA InitIInv == Init => IInv
<1> SUFFICES ASSUME Init PROVE IInv
  OBVIOUS
<1>1. TypeOK
  BY BoundsAssumption DEF Init, TypeOK, Idle, Job, Ops, PCs
<1>2. \A w \in Workers : JobSound(job[w])
  BY DEF Init, JobSound, Idle
<1>3. HeldSound
  BY DEF Init, HeldSound
<1>4. WindowSound
  BY DEF Init, WindowSound, Idle
<1>5. HistorySound
  BY DEF Init, HistorySound
<1>6. RefundNeedsPayment
  BY DEF Init, RefundNeedsPayment, Lifecycle!RefundNeedsPayment
<1>7. QED
  BY <1>1, <1>2, <1>3, <1>4, <1>5, <1>6 DEF IInv

----------------------------------------------------------------------------------
(* Steps that touch neither a status nor the history. *)

\* A handler that moves on without touching status, history or the auxiliary
\* variables, to a place that is sound and not between a read and a write.
LEMMA QuietStep ==
    ASSUME IInv,
           NEW w \in Workers, NEW j \in Job,
           JobSound(j), j.pc # "update",
           Goto(w, j),
           UNCHANGED <<status, history, held, raced>>,
           rows' \in [Txns -> Seq(Delivery)],
           overdue' \in SUBSET Txns,
           arrived' \in 0..MaxRequests,
           aborts' \in 0..MaxAborts
    PROVE  IInv'
<1>1. job' \in [Workers -> Job] /\ job'[w] = j
  BY DEF IInv, TypeOK, Goto
<1>2. \A v \in Workers \ {w} : job'[v] = job[v]
  BY DEF IInv, TypeOK, Goto
<1>3. TypeOK'
  BY <1>1 DEF IInv, TypeOK
<1>4. \A v \in Workers : JobSound(job[v])'
  BY <1>1, <1>2 DEF IInv, JobSound
<1>5. HeldSound'
  BY DEF IInv, HeldSound
<1>6. WindowSound'
  BY <1>1, <1>2 DEF IInv, WindowSound, InWindow
<1>7. HistorySound'
  BY DEF IInv, HistorySound
<1>8. RefundNeedsPayment'
  BY DEF IInv, RefundNeedsPayment, Lifecycle!RefundNeedsPayment
<1>9. QED
  BY <1>3, <1>4, <1>5, <1>6, <1>7, <1>8 DEF IInv

LEMMA IdleSound == Idle \in Job /\ JobSound(Idle)
  BY DEF Idle, Job, Ops, PCs, JobSound

\* Arrivals other than the creation of a transaction.
LEMMA ArriveQuiet ==
    ASSUME IInv, NEW w \in Workers,
           StartCallback(w) \/ StartRefund(w) \/ StartQuery(w) \/ StartReconcile(w),
           arrived' \in 0..MaxRequests
    PROVE  IInv'
<1>0. /\ rows \in [Txns -> Seq(Delivery)] /\ overdue \in SUBSET Txns
      /\ aborts \in 0..MaxAborts
  BY DEF IInv, TypeOK
<1>1. CASE StartCallback(w)
  <2>1. PICK t \in Txns, s \in BankStatus :
            Goto(w, [Idle EXCEPT !.op = "callback", !.pc = "find", !.txn = t,
                                 !.to = normalizeTransactionStatus(s), !.ret = "row"])
    BY <1>1 DEF StartCallback
  <2> DEFINE to == normalizeTransactionStatus(s)
             j == [Idle EXCEPT !.op = "callback", !.pc = "find", !.txn = t,
                               !.to = to, !.ret = "row"]
  <2>2. to \in GoalOf("row") /\ to \in Status
    BY TableFacts
  <2>3. j \in Job /\ JobSound(j) /\ j.pc # "update"
    <3> HIDE DEF to
    <3> QED BY <2>2 DEF Idle, Job, Ops, PCs, JobSound
  <2> HIDE DEF j
  <2>4. Goto(w, j)
    BY <2>1 DEF j
  <2> QED
    BY <1>0, <1>1, <2>3, <2>4, QuietStep DEF StartCallback
<1>2. CASE StartRefund(w)
  <2>1. PICK t \in Txns :
            Goto(w, [Idle EXCEPT !.op = "refund", !.pc = "find", !.txn = t,
                                 !.to = "REFUNDED", !.ret = "scan"])
    BY <1>2 DEF StartRefund
  <2> DEFINE j == [Idle EXCEPT !.op = "refund", !.pc = "find", !.txn = t,
                               !.to = "REFUNDED", !.ret = "scan"]
  <2>2. j \in Job /\ JobSound(j) /\ j.pc # "update"
    BY DEF Idle, Job, Ops, PCs, JobSound, GoalOf, Status
  <2> HIDE DEF j
  <2>3. Goto(w, j)
    BY <2>1 DEF j
  <2> QED
    BY <1>0, <1>2, <2>2, <2>3, QuietStep DEF StartRefund
<1>3. CASE StartQuery(w)
  <2> DEFINE j == [Idle EXCEPT !.op = "query", !.pc = "scan"]
  <2>1. j \in Job /\ JobSound(j) /\ j.pc # "update"
    BY DEF Idle, Job, Ops, PCs, JobSound
  <2> HIDE DEF j
  <2>2. Goto(w, j)
    BY <1>3 DEF StartQuery, j
  <2> QED
    BY <1>0, <1>3, <2>1, <2>2, QuietStep DEF StartQuery
<1>4. CASE StartReconcile(w)
  <2>1. PICK bad \in SUBSET Txns :
            Goto(w, [Idle EXCEPT !.op = "reconcile", !.pc = "next", !.ret = "next",
                                 !.to = "SUCCESS", !.todo = bad])
    BY <1>4 DEF StartReconcile
  <2> DEFINE j == [Idle EXCEPT !.op = "reconcile", !.pc = "next", !.ret = "next",
                               !.to = "SUCCESS", !.todo = bad]
  <2>2. j \in Job /\ JobSound(j) /\ j.pc # "update"
    BY DEF Idle, Job, Ops, PCs, JobSound, GoalOf, Status
  <2> HIDE DEF j
  <2>3. Goto(w, j)
    BY <2>1 DEF j
  <2> QED
    BY <1>0, <1>4, <2>2, <2>3, QuietStep DEF StartReconcile
<1>5. QED
  BY <1>1, <1>2, <1>3, <1>4

\* The cron, and the handler's steps around its transitions.
LEMMA HandlerQuiet ==
    ASSUME IInv, NEW w \in Workers,
           \/ StartCron(w) \/ CreateDelivery(w) \/ Enqueue(w) \/ Scan(w)
           \/ NextItem(w) \/ EndOfList(w) \/ Answer(w) \/ Abort(w)
    PROVE  IInv'
<1>0. /\ rows \in [Txns -> Seq(Delivery)] /\ overdue \in SUBSET Txns
      /\ arrived \in 0..MaxRequests /\ aborts \in 0..MaxAborts
      /\ job[w] \in Job /\ JobSound(job[w])
  BY DEF IInv, TypeOK
<1>1. CASE StartCron(w)
  <2> DEFINE j == [Idle EXCEPT !.op = "cron", !.pc = "scan"]
  <2>1. j \in Job /\ JobSound(j) /\ j.pc # "update"
    BY DEF Idle, Job, Ops, PCs, JobSound
  <2> HIDE DEF j
  <2>2. Goto(w, j)
    BY <1>1 DEF StartCron, j
  <2> QED
    BY <1>0, <1>1, <2>1, <2>2, QuietStep DEF StartCron
<1>2. CASE CreateDelivery(w)
  <2> DEFINE t == job[w].txn
             n == Len(rows[t]) + 1
             j == [job[w] EXCEPT !.pc = "enqueue", !.row = n]
             d == [status |-> job[w].to, queued |-> FALSE]
  <2>1. t \in Txns /\ job[w].to \in Status /\ rows[t] \in Seq(Delivery) /\ d \in Delivery
    BY <1>0, <1>2 DEF CreateDelivery, JobSound, Delivery
  <2>2. j \in Job /\ JobSound(j) /\ j.pc # "update"
    <3>1. n \in Nat
      BY <2>1
    <3> HIDE DEF n
    <3> QED BY <1>0, <2>1, <3>1 DEF Job, PCs, JobSound
  <2>3. Append(rows[t], d) \in Seq(Delivery)
    BY <2>1
  <2>4. rows' = [rows EXCEPT ![t] = Append(rows[t], d)] /\ Goto(w, j)
    BY <1>2 DEF CreateDelivery
  <2>5. rows' \in [Txns -> Seq(Delivery)]
    <3> HIDE DEF t, d
    <3> QED BY <1>0, <2>3, <2>4
  <2> HIDE DEF j
  <2> QED
    BY <1>0, <1>2, <2>2, <2>4, <2>5, QuietStep DEF CreateDelivery
<1>3. CASE Enqueue(w)
  <2> DEFINE t == job[w].txn
             j == [job[w] EXCEPT !.pc = "ok"]
             new == [rows[t] EXCEPT ![job[w].row].queued = TRUE]
  <2>1. t \in Txns /\ rows[t] \in Seq(Delivery)
    BY <1>0, <1>3 DEF Enqueue, JobSound
  <2>2. j \in Job /\ JobSound(j) /\ j.pc # "update"
    BY <1>0 DEF Job, PCs, JobSound
  <2>3. new \in Seq(Delivery)
    BY <2>1, MarkQueued
  <2>4. rows' = [rows EXCEPT ![t] = new] /\ Goto(w, j)
    BY <1>3 DEF Enqueue
  <2>5. rows' \in [Txns -> Seq(Delivery)]
    <3> HIDE DEF t, new
    <3> QED BY <1>0, <2>3, <2>4
  <2> HIDE DEF j
  <2> QED
    BY <1>0, <1>3, <2>2, <2>4, <2>5, QuietStep DEF Enqueue
<1>4. CASE Scan(w)
  <2> DEFINE j == [job[w] EXCEPT !.pc = "next", !.ret = "next", !.to = "EXPIRED",
                                 !.txn = NoTxn, !.todo = Expirable]
  <2>1. j \in Job /\ JobSound(j) /\ j.pc # "update"
    BY <1>0 DEF Job, PCs, JobSound, GoalOf, Status, Expirable
  <2> HIDE DEF j
  <2>2. Goto(w, j)
    BY <1>4 DEF Scan, j
  <2> QED
    BY <1>0, <1>4, <2>1, <2>2, QuietStep DEF Scan
<1>5. CASE NextItem(w)
  <2>1. PICK t \in job[w].todo :
            Goto(w, [job[w] EXCEPT !.pc = "find", !.txn = t, !.todo = @ \ {t}])
    BY <1>5 DEF NextItem
  <2> DEFINE j == [job[w] EXCEPT !.pc = "find", !.txn = t, !.todo = @ \ {t}]
  <2>2. t \in Txns
    BY <1>0 DEF Job
  <2>3. j \in Job /\ JobSound(j) /\ j.pc # "update"
    BY <1>0, <1>5, <2>2 DEF NextItem, Job, PCs, JobSound
  <2> HIDE DEF j
  <2>4. Goto(w, j)
    BY <2>1 DEF j
  <2> QED
    BY <1>0, <1>5, <2>3, <2>4, QuietStep DEF NextItem
<1>6. CASE EndOfList(w)
  <2> DEFINE j == [job[w] EXCEPT !.pc = "ok", !.txn = NoTxn]
  <2>1. j \in Job /\ JobSound(j) /\ j.pc # "update"
    BY <1>0 DEF Job, PCs, JobSound
  <2> HIDE DEF j
  <2>2. Goto(w, j)
    BY <1>6 DEF EndOfList, j
  <2> QED
    BY <1>0, <1>6, <2>1, <2>2, QuietStep DEF EndOfList
<1>7. CASE Answer(w)
  BY <1>0, <1>7, IdleSound, QuietStep DEF Answer, Idle
<1>8. CASE Abort(w)
  <2>1. aborts' \in 0..MaxAborts
    BY <1>0, <1>8, BoundsAssumption DEF Abort
  <2> QED
    BY <1>0, <1>8, <2>1, IdleSound, QuietStep DEF Abort, Idle
<1>9. QED
  BY <1>1, <1>2, <1>3, <1>4, <1>5, <1>6, <1>7, <1>8

----------------------------------------------------------------------------------
(* Steps that write a status or a history row, or open a window. *)

LEMMA WriteFacts ==
    ASSUME IInv, NEW t \in Txns, NEW s \in Status, SetStatus(t, s)
    PROVE  /\ status' \in [Txns -> Status \cup {NoStatus}]
           /\ held' \in [Txns -> SUBSET Status]
           /\ \A u \in Txns \ {t} : status'[u] = status[u] /\ held'[u] = held[u]
           /\ status'[t] = s
           /\ held'[t] = held[t] \cup {s}
           /\ HeldSound'
<1>1. /\ status \in [Txns -> Status \cup {NoStatus}]
      /\ held \in [Txns -> SUBSET Status]
      /\ HeldSound
  BY DEF IInv, TypeOK
<1>2. /\ status' \in [Txns -> Status \cup {NoStatus}]
      /\ held' \in [Txns -> SUBSET Status]
      /\ \A u \in Txns \ {t} : status'[u] = status[u] /\ held'[u] = held[u]
      /\ status'[t] = s
      /\ held'[t] = held[t] \cup {s}
  BY <1>1 DEF SetStatus
<1>3. HeldSound'
  BY <1>1, <1>2, TableFacts DEF HeldSound
<1> QED
  BY <1>2, <1>3

LEMMA CreateStep ==
    ASSUME IInv, NEW w \in Workers, StartCreate(w), arrived' \in 0..MaxRequests
    PROVE  IInv'
<1>1. PICK t \in Txns :
          /\ status[t] = NoStatus
          /\ SetStatus(t, "PENDING")
          /\ Goto(w, [Idle EXCEPT !.op = "create", !.pc = "history", !.txn = t,
                                  !.to = "PENDING", !.ret = "ok"])
  BY DEF StartCreate
<1> DEFINE j == [Idle EXCEPT !.op = "create", !.pc = "history", !.txn = t,
                             !.to = "PENDING", !.ret = "ok"]
<1>2. /\ j \in Job /\ j.pc = "history" /\ j.txn = t /\ j.to = "PENDING"
      /\ j.ret = "ok" /\ j.seen = NoStatus
  BY DEF Idle, Job, Ops, PCs, Status
<1> HIDE DEF j
<1>3. /\ job' \in [Workers -> Job] /\ job'[w] = j
      /\ \A v \in Workers \ {w} : job'[v] = job[v]
  BY <1>1, <1>2 DEF Goto, IInv, TypeOK, j
<1>4. "PENDING" \in Status
  BY DEF Status
<1>5. /\ status' \in [Txns -> Status \cup {NoStatus}]
      /\ held' \in [Txns -> SUBSET Status]
      /\ \A u \in Txns \ {t} : status'[u] = status[u] /\ held'[u] = held[u]
      /\ held'[t] = held[t] \cup {"PENDING"}
      /\ HeldSound'
  BY <1>1, <1>4, WriteFacts
<1>6. TypeOK'
  BY <1>3, <1>5 DEF IInv, TypeOK, StartCreate
<1>7. \A v \in Workers : JobSound(job[v])'
  <2> TAKE v \in Workers
  <2>1. CASE v = w
    BY <2>1, <1>2, <1>3, <1>5 DEF JobSound
  <2>2. CASE v # w
    BY <2>2, <1>3, <1>5 DEF IInv, JobSound
  <2> QED
    BY <2>1, <2>2
<1>8. WindowSound'
  <2> SUFFICES ASSUME NEW v \in Workers, job'[v].pc = "update", job'[v].txn \notin raced'
               PROVE  job'[v].seen = status'[job'[v].txn] /\ ~InWindow(v, job[v].txn)'
    BY DEF WindowSound
  <2>1. v # w /\ job'[v] = job[v] /\ raced' = raced
    BY <1>2, <1>3 DEF StartCreate
  <2>2. job[v].txn \in Txns /\ job[v].seen = status[job[v].txn] /\ ~InWindow(v, job[v].txn)
    BY <2>1 DEF IInv, WindowSound, JobSound
  <2>3. job[v].seen \in held[job[v].txn]
    BY <2>1 DEF IInv, JobSound
  <2>4. job[v].txn # t
    BY <2>2, <2>3, <1>1 DEF IInv, HeldSound
  <2>5. ~InWindow(v, job[v].txn)'
    BY <2>1, <2>2, <1>2, <1>3 DEF InWindow
  <2> QED
    BY <2>1, <2>2, <2>4, <2>5, <1>5
<1>9. HistorySound'
  BY <1>5 DEF IInv, HistorySound, StartCreate
<1>10. RefundNeedsPayment'
  BY <1>5 DEF IInv, RefundNeedsPayment, Lifecycle!RefundNeedsPayment
<1>11. QED
  BY <1>5, <1>6, <1>7, <1>8, <1>9, <1>10 DEF IInv

LEMMA FindStep ==
    ASSUME IInv, NEW w \in Workers, Find(w)
    PROVE  IInv'
<1> DEFINE t == job[w].txn
<1>0. /\ TypeOK /\ job[w] \in Job /\ JobSound(job[w]) /\ job[w].pc = "find" /\ t \in Txns
      /\ job[w].to \in Status
  BY TableFacts DEF IInv, TypeOK, Find, JobSound
<1>1. CASE Legal(status[t], job[w].to)
  <2> DEFINE j == [job[w] EXCEPT !.pc = "update", !.seen = status[t]]
  <2>1. status[t] \in Status /\ status[t] \in held[t]
    BY <1>0, <1>1, TableFacts DEF IInv, TypeOK, HeldSound
  <2>2. job[w].to \in TRANSACTION_STATE_MACHINE[status[t]]
    BY <1>0, <1>1, <2>1, TableFacts
  <2>3. /\ j \in Job /\ JobSound(j) /\ j.pc = "update" /\ j.txn = t
        /\ j.seen = status[t]
    BY <1>0, <2>1, <2>2 DEF Job, PCs, JobSound
  <2>4. Goto(w, j) /\ raced' = IF InWindow(w, t) THEN raced \cup {t} ELSE raced
    BY <1>1 DEF Find
  <2> HIDE DEF j
  <2>5. /\ job' \in [Workers -> Job] /\ job'[w] = j
        /\ \A v \in Workers \ {w} : job'[v] = job[v]
    BY <1>0, <2>3, <2>4 DEF Goto, TypeOK
  <2>6. raced' \in SUBSET Txns /\ raced \subseteq raced'
    BY <1>0, <2>4 DEF TypeOK
  <2>7. TypeOK'
    BY <1>0, <2>5, <2>6 DEF TypeOK, Find
  <2>8. \A v \in Workers : JobSound(job[v])'
    BY <2>3, <2>5 DEF IInv, JobSound, Find
  <2>9. HeldSound'
    BY DEF IInv, HeldSound, Find
  <2>10. WindowSound'
    <3> SUFFICES ASSUME NEW v \in Workers, job'[v].pc = "update", job'[v].txn \notin raced'
                 PROVE  job'[v].seen = status'[job'[v].txn] /\ ~InWindow(v, job[v].txn)'
      BY DEF WindowSound
    <3>1. CASE v = w
      <4>1. ~InWindow(w, t)
        BY <3>1, <2>3, <2>4, <2>5
      <4>2. ~InWindow(v, job[v].txn)'
        BY <3>1, <4>1, <2>3, <2>5 DEF InWindow
      <4> QED
        BY <3>1, <4>2, <2>3, <2>5 DEF Find
    <3>2. CASE v # w
      <4>1. job'[v] = job[v] /\ job[v].pc = "update" /\ job[v].txn \notin raced
        BY <3>2, <2>5, <2>6
      <4>2. job[v].seen = status[job[v].txn] /\ ~InWindow(v, job[v].txn)
        BY <4>1 DEF IInv, WindowSound
      <4>3. job[v].txn # t
        BY <3>2, <4>1, <2>4 DEF InWindow
      <4>4. ~InWindow(v, job[v].txn)'
        BY <4>2, <4>3, <2>3, <2>5 DEF InWindow
      <4> QED
        BY <4>1, <4>2, <4>4 DEF Find
    <3> QED
      BY <3>1, <3>2
  <2>11. HistorySound'
    BY DEF IInv, HistorySound, Find
  <2>12. RefundNeedsPayment'
    BY DEF IInv, RefundNeedsPayment, Lifecycle!RefundNeedsPayment, Find
  <2> QED
    BY <2>7, <2>8, <2>9, <2>10, <2>11, <2>12 DEF IInv
<1>2. CASE ~Legal(status[t], job[w].to)
  <2> DEFINE j == Refuse(job[w])
  <2>1. j \in Job /\ JobSound(j) /\ j.pc # "update"
    BY <1>0 DEF Refuse, Job, PCs, JobSound
  <2>2. Goto(w, j) /\ raced' = raced
    BY <1>2 DEF Find
  <2> HIDE DEF j
  <2> QED
    BY <1>0, <2>1, <2>2, QuietStep DEF Find, TypeOK
<1> QED
  BY <1>1, <1>2

LEMMA UpdateStep ==
    ASSUME IInv, NEW w \in Workers, Update(w)
    PROVE  IInv'
<1> DEFINE t == job[w].txn
           s == job[w].to
           j == [job[w] EXCEPT !.pc = "history"]
<1>0. /\ TypeOK /\ job[w] \in Job /\ JobSound(job[w]) /\ job[w].pc = "update"
      /\ t \in Txns /\ s \in Status
      /\ job[w].seen \in held[t] /\ s \in TRANSACTION_STATE_MACHINE[job[w].seen]
      /\ job[w].seen \in Status
  BY TableFacts DEF IInv, TypeOK, Update, JobSound
<1>1. /\ status' \in [Txns -> Status \cup {NoStatus}]
      /\ held' \in [Txns -> SUBSET Status]
      /\ \A u \in Txns \ {t} : status'[u] = status[u] /\ held'[u] = held[u]
      /\ held'[t] = held[t] \cup {s}
      /\ HeldSound'
  BY <1>0, WriteFacts DEF Update
<1>2. /\ j \in Job /\ j.pc = "history" /\ j.txn = t /\ j.to = s
      /\ j.seen = job[w].seen /\ j.ret = job[w].ret
  BY <1>0 DEF Job, PCs
<1>3. /\ job' \in [Workers -> Job] /\ job'[w] = j
      /\ \A v \in Workers \ {w} : job'[v] = job[v]
  <2>1. Goto(w, j)
    BY DEF Update
  <2> HIDE DEF j
  <2> QED
    BY <1>0, <1>2, <2>1 DEF Goto, TypeOK
<1> HIDE DEF j
<1>4. TypeOK'
  BY <1>0, <1>1, <1>3 DEF TypeOK, Update
<1>5. \A v \in Workers : JobSound(job[v])'
  <2> TAKE v \in Workers
  <2>1. CASE v = w
    BY <2>1, <1>0, <1>1, <1>2, <1>3 DEF JobSound
  <2>2. CASE v # w
    BY <2>2, <1>0, <1>1, <1>3 DEF IInv, JobSound
  <2> QED
    BY <2>1, <2>2
<1>6. WindowSound'
  <2> SUFFICES ASSUME NEW v \in Workers, job'[v].pc = "update", job'[v].txn \notin raced'
               PROVE  job'[v].seen = status'[job'[v].txn] /\ ~InWindow(v, job[v].txn)'
    BY DEF WindowSound
  <2>1. v # w /\ job'[v] = job[v] /\ raced' = raced
    BY <1>2, <1>3 DEF Update
  <2>2. /\ job[v].txn \in Txns /\ job[v].seen = status[job[v].txn]
        /\ ~InWindow(v, job[v].txn)
    BY <2>1 DEF IInv, WindowSound, JobSound
  <2>3. job[v].txn # t
    BY <2>1, <2>2, <1>0 DEF InWindow
  <2>4. ~InWindow(v, job[v].txn)'
    BY <2>2, <1>2, <1>3 DEF InWindow
  <2> QED
    BY <2>1, <2>2, <2>3, <2>4, <1>1
<1>7. HistorySound'
  BY <1>1 DEF IInv, HistorySound, Update
<1>8. RefundNeedsPayment'
  <2>1. s = "REFUNDED" => "SUCCESS" \in held[t]
    BY <1>0, TableFacts
  <2> QED
    BY <2>1, <1>1 DEF IInv, RefundNeedsPayment, Lifecycle!RefundNeedsPayment
<1> QED
  BY <1>1, <1>4, <1>5, <1>6, <1>7, <1>8 DEF IInv

\* What a handler appends to the history tells the truth about its author.
LEMMA EntrySound ==
    ASSUME NEW j \in Job, JobSound(j), j.pc = "history"
    PROVE  LET e == [from |-> j.seen, to |-> j.to, by |-> Reason(j)]
           IN  /\ e \in Entry
               /\ e.to \in held[j.txn]
               /\ IF e.by = "created"
                  THEN e.from = NoStatus /\ e.to = "PENDING"
                  ELSE /\ e.from \in held[j.txn]
                       /\ e.to \in TRANSACTION_STATE_MACHINE[e.from]
               /\ e.by = "refund" <=> e.to = "REFUNDED"
               /\ e.by = "expiry" => e.to = "EXPIRED"
               /\ e.by = "reconciliation" => e.to = "SUCCESS"
<1>0. j.to \in held[j.txn] /\ j.seen \in Status \cup {NoStatus}
  BY DEF JobSound, Job
<1>1. CASE j.ret = "ok"
  BY <1>0, <1>1 DEF JobSound, GoalOf, Reason, Entry, Reasons, Status
<1>2. CASE j.ret = "row"
  BY <1>0, <1>2 DEF JobSound, GoalOf, Reason, Entry, Reasons, Status
<1>3. CASE j.ret = "scan"
  BY <1>0, <1>3 DEF JobSound, GoalOf, Reason, Entry, Reasons, Status
<1>4. CASE j.ret = "next"
  BY <1>0, <1>4 DEF JobSound, GoalOf, Reason, Entry, Reasons, Status
<1> QED
  BY <1>1, <1>2, <1>3, <1>4 DEF JobSound

LEMMA RecordStep ==
    ASSUME IInv, NEW w \in Workers, Record(w)
    PROVE  IInv'
<1> DEFINE t == job[w].txn
           e == [from |-> job[w].seen, to |-> job[w].to, by |-> Reason(job[w])]
           j == [job[w] EXCEPT !.pc = job[w].ret, !.seen = NoStatus]
<1>0. /\ TypeOK /\ job[w] \in Job /\ JobSound(job[w]) /\ job[w].pc = "history"
      /\ t \in Txns /\ job[w].to \in Status
      /\ job[w].ret \in {"ok", "row", "scan", "next"}
      /\ job[w].ret = "next" => job[w].to \in GoalOf("next")
  BY TableFacts DEF IInv, TypeOK, Record, JobSound, Status
<1>1. /\ e \in Entry
      /\ e.to \in held[t]
      /\ IF e.by = "created"
         THEN e.from = NoStatus /\ e.to = "PENDING"
         ELSE e.from \in held[t] /\ e.to \in TRANSACTION_STATE_MACHINE[e.from]
      /\ e.by = "refund" <=> e.to = "REFUNDED"
      /\ e.by = "expiry" => e.to = "EXPIRED"
      /\ e.by = "reconciliation" => e.to = "SUCCESS"
  BY <1>0, EntrySound
<1>2. history' = [history EXCEPT ![t] = Append(history[t], e)] /\ Goto(w, j)
  BY DEF Record
<1>3. j \in Job /\ JobSound(j) /\ j.pc # "update"
  BY <1>0 DEF Job, PCs, JobSound
<1> HIDE DEF e, j
<1>4. /\ job' \in [Workers -> Job] /\ job'[w] = j
      /\ \A v \in Workers \ {w} : job'[v] = job[v]
  BY <1>0, <1>2, <1>3 DEF Goto, TypeOK
<1>5. /\ \A u \in Txns : history[u] \in Seq(Entry)
      /\ \A u \in Txns \ {t} : history'[u] = history[u]
      /\ history'[t] = Append(history[t], e)
  BY <1>0, <1>2 DEF TypeOK
<1>6. history' \in [Txns -> Seq(Entry)]
  <2>1. Append(history[t], e) \in Seq(Entry)
    BY <1>0, <1>1, <1>5, AppendFacts
  <2> HIDE DEF t
  <2> QED
    BY <1>0, <1>2, <2>1 DEF TypeOK
<1>7. TypeOK'
  BY <1>0, <1>4, <1>6 DEF TypeOK, Record
<1>8. \A v \in Workers : JobSound(job[v])'
  BY <1>3, <1>4 DEF IInv, JobSound, Record
<1>9. HeldSound'
  BY DEF IInv, HeldSound, Record
<1>10. WindowSound'
  BY <1>3, <1>4 DEF IInv, WindowSound, InWindow, Record
<1>11. HistorySound'
  <2> SUFFICES ASSUME NEW u \in Txns, NEW i \in DOMAIN history'[u]
               PROVE  LET f == history'[u][i]
                      IN  /\ f.to \in held[u]
                          /\ IF f.by = "created"
                             THEN f.from = NoStatus /\ f.to = "PENDING"
                             ELSE /\ f.from \in held[u]
                                  /\ f.to \in TRANSACTION_STATE_MACHINE[f.from]
                          /\ f.by = "refund" <=> f.to = "REFUNDED"
                          /\ f.by = "expiry" => f.to = "EXPIRED"
                          /\ f.by = "reconciliation" => f.to = "SUCCESS"
    BY DEF HistorySound, Record
  <2>1. CASE u = t /\ history'[u][i] = e
    BY <2>1, <1>1
  <2>2. CASE i \in DOMAIN history[u] /\ history'[u][i] = history[u][i]
    BY <2>2 DEF IInv, HistorySound
  <2>3. (u = t /\ history'[u][i] = e)
            \/ (i \in DOMAIN history[u] /\ history'[u][i] = history[u][i])
    <3>1. CASE u = t
      BY <3>1, <1>0, <1>1, <1>5, AppendFacts
    <3>2. CASE u # t
      BY <3>2, <1>5
    <3> QED BY <3>1, <3>2
  <2> QED
    BY <2>1, <2>2, <2>3
<1>12. RefundNeedsPayment'
  BY DEF IInv, RefundNeedsPayment, Lifecycle!RefundNeedsPayment, Record
<1> QED
  BY <1>7, <1>8, <1>9, <1>10, <1>11, <1>12 DEF IInv

\* A step that leaves the jobs, the statuses and the history alone.
LEMMA PassiveStep ==
    ASSUME IInv, UNCHANGED <<status, history, rows, job, arrived, aborts, held, raced>>,
           overdue' \in SUBSET Txns
    PROVE  IInv'
<1>1. TypeOK'
  BY DEF IInv, TypeOK
<1>2. (\A w \in Workers : JobSound(job[w]))' /\ HeldSound' /\ WindowSound'
  BY DEF IInv, JobSound, HeldSound, WindowSound, InWindow
<1>3. HistorySound' /\ RefundNeedsPayment'
  BY DEF IInv, HistorySound, RefundNeedsPayment, Lifecycle!RefundNeedsPayment
<1> QED
  BY <1>1, <1>2, <1>3 DEF IInv

LEMMA NextIInv == IInv /\ [Next]_vars => IInv'
<1> SUFFICES ASSUME IInv, [Next]_vars PROVE IInv'
  OBVIOUS
<1>1. ASSUME NEW w \in Requests, Arrive(w) PROVE IInv'
  <2>1. w \in Workers /\ arrived' \in 0..MaxRequests
    BY <1>1, BoundsAssumption DEF IInv, TypeOK, Arrive, Workers
  <2> QED
    BY <1>1, <2>1, CreateStep, ArriveQuiet DEF Arrive
<1>2. ASSUME NEW w \in CronRuns, StartCron(w) PROVE IInv'
  BY <1>2, HandlerQuiet DEF Workers
<1>3. ASSUME NEW w \in Workers, Progress(w) PROVE IInv'
  BY <1>3, FindStep, UpdateStep, RecordStep, HandlerQuiet DEF Progress
<1>4. ASSUME NEW w \in Workers, Abort(w) PROVE IInv'
  BY <1>4, HandlerQuiet
<1>5. ASSUME NEW t \in Txns, Overdue(t) PROVE IInv'
  <2>1. overdue' \in SUBSET Txns
    BY <1>5 DEF Overdue, IInv, TypeOK
  <2> QED
    BY <1>5, <2>1, PassiveStep DEF Overdue
<1>6. CASE UNCHANGED vars
  <2>1. overdue' \in SUBSET Txns
    BY <1>6 DEF vars, IInv, TypeOK
  <2> QED
    BY <1>6, <2>1, PassiveStep DEF vars
<1> QED
  BY <1>1, <1>2, <1>3, <1>4, <1>5, <1>6 DEF Next

----------------------------------------------------------------------------------
(* The theorems. *)

\* IInv is an invariant of the engine: in every reachable state each handler inside
\* transitionStatus holds a status its transaction really had, and on a transaction
\* that did not race at most one of them stands between its read and its write.
THEOREM Inductive == Spec => []IInv
<1> QED
  BY InitIInv, NextIInv, PTL DEF Spec

\* Every variable of the engine keeps its type.
THEOREM TypeCorrect == Spec => []TypeOK
<1>1. IInv => TypeOK
  BY DEF IInv
<1> QED
  BY <1>1, Inductive, PTL

\* Whatever the handlers' interleaving and wherever they stop, a history row tells of
\* a transition the table allows, between statuses the transaction really held, by
\* an author that may cause it (transactionHistory.create of transitionStatus).
THEOREM HistoryTellsTheTruth == Spec => []HistorySound
<1>1. IInv => HistorySound
  BY DEF IInv
<1> QED
  BY <1>1, Inductive, PTL

\* Money goes back only for a payment that came in, even when transitions overlap:
\* no row becomes REFUNDED that was never SUCCESS (refundTransaction).
THEOREM NoRefundWithoutPayment == Spec => []RefundNeedsPayment
<1>1. IInv => RefundNeedsPayment
  BY DEF IInv
<1> QED
  BY <1>1, Inductive, PTL

----------------------------------------------------------------------------------
(* The engine implements TransactionLifecycle. *)

\* The instance speaks of the same statuses and the same table.
LEMMA SameVocabulary ==
    /\ Lifecycle!NoStatus = NoStatus
    /\ Lifecycle!Status = Status
    /\ Lifecycle!TRANSACTION_STATE_MACHINE = TRANSACTION_STATE_MACHINE
<1>1. Lifecycle!NoStatus = NoStatus
  BY DEF Lifecycle!NoStatus, NoStatus
<1>2. Lifecycle!Status = Status
  BY DEF Lifecycle!Status, Status
<1>3. Lifecycle!TRANSACTION_STATE_MACHINE = TRANSACTION_STATE_MACHINE
  BY <1>2 DEF Lifecycle!TRANSACTION_STATE_MACHINE, TRANSACTION_STATE_MACHINE
<1> QED
  BY <1>1, <1>2, <1>3

LEMMA InitRefines == Init => Lifecycle!Init
  BY SameVocabulary DEF Init, Lifecycle!Init

\* The write of a transition is an edge of the state diagram where nothing raced, and
\* an Overwrite where something did.
LEMMA UpdateRefines ==
    ASSUME IInv, NEW w \in Workers, Update(w)
    PROVE  Lifecycle!Next
<1> DEFINE t == job[w].txn
           s == job[w].to
<1>1. /\ job[w].pc = "update" /\ t \in Txns /\ s \in Status
      /\ job[w].seen \in held[t] /\ s \in TRANSACTION_STATE_MACHINE[job[w].seen]
  BY TableFacts DEF IInv, TypeOK, Update, JobSound
<1>2. Lifecycle!Write(t, s)
  BY DEF Update, SetStatus, Lifecycle!Write
<1>3. CASE t \in raced
  <2>1. Lifecycle!Overwrite(t, s)
    BY <1>1, <1>2, <1>3, SameVocabulary DEF Lifecycle!Overwrite
  <2> QED
    BY <1>1, <2>1, SameVocabulary DEF Lifecycle!Next
<1>4. CASE t \notin raced
  <2>1. status[t] = job[w].seen
    BY <1>1, <1>4 DEF IInv, WindowSound
  <2>2. status[t] # NoStatus
    BY <1>1 DEF IInv, HeldSound
  <2>3. Lifecycle!Advance(t, s)
    BY <1>1, <1>2, <2>1, <2>2, SameVocabulary DEF Lifecycle!Advance
  <2> QED
    BY <1>1, <2>3, SameVocabulary DEF Lifecycle!Next
<1> QED
  BY <1>3, <1>4

LEMMA StepRefines == IInv /\ [Next]_vars => [Lifecycle!Next]_(Lifecycle!vars)
<1> SUFFICES ASSUME IInv, [Next]_vars PROVE Lifecycle!Next \/ UNCHANGED Lifecycle!vars
  OBVIOUS
<1>1. ASSUME NEW w \in Workers, StartCreate(w) PROVE Lifecycle!Next
  <2>1. PICK t \in Txns : status[t] = NoStatus /\ SetStatus(t, "PENDING")
    BY <1>1 DEF StartCreate
  <2>2. Lifecycle!Create(t)
    BY <1>1, <2>1, SameVocabulary DEF StartCreate, SetStatus, Lifecycle!Create, Lifecycle!Write
  <2> QED
    BY <2>2 DEF Lifecycle!Next
<1>2. ASSUME NEW w \in Workers, Find(w) PROVE Lifecycle!Next \/ UNCHANGED Lifecycle!vars
  <2>1. job[w].txn \in Txns
    BY <1>2 DEF IInv, JobSound, Find
  <2>2. CASE raced' = raced
    BY <1>2, <2>2 DEF Find, Lifecycle!vars
  <2>3. CASE raced' # raced
    <3>1. Lifecycle!Race(job[w].txn)
      BY <1>2, <2>3 DEF Find, Lifecycle!Race
    <3> QED
      BY <2>1, <3>1 DEF Lifecycle!Next
  <2> QED
    BY <2>2, <2>3
<1>3. ASSUME NEW w \in Workers,
             \/ StartCallback(w) \/ StartRefund(w) \/ StartQuery(w) \/ StartReconcile(w)
             \/ StartCron(w) \/ Record(w) \/ CreateDelivery(w) \/ Enqueue(w)
             \/ Scan(w) \/ NextItem(w) \/ EndOfList(w) \/ Answer(w) \/ Abort(w)
      PROVE  UNCHANGED Lifecycle!vars
  BY <1>3 DEF StartCallback, StartRefund, StartQuery, StartReconcile, StartCron, Record,
              CreateDelivery, Enqueue, Scan, NextItem, EndOfList, Answer, Abort,
              Lifecycle!vars
<1>4. ASSUME NEW w \in Requests, Arrive(w)
      PROVE  Lifecycle!Next \/ UNCHANGED Lifecycle!vars
  BY <1>1, <1>3, <1>4 DEF Arrive, Workers
<1>5. ASSUME NEW w \in CronRuns, StartCron(w) PROVE UNCHANGED Lifecycle!vars
  BY <1>3, <1>5 DEF Workers
<1>6. ASSUME NEW w \in Workers, Progress(w)
      PROVE  Lifecycle!Next \/ UNCHANGED Lifecycle!vars
  BY <1>2, <1>3, <1>6, UpdateRefines DEF Progress
<1>7. ASSUME NEW t \in Txns, Overdue(t) PROVE UNCHANGED Lifecycle!vars
  BY <1>7 DEF Overdue, Lifecycle!vars
<1>8. CASE UNCHANGED vars
  BY <1>8 DEF vars, Lifecycle!vars
<1> QED
  BY <1>3, <1>4, <1>5, <1>6, <1>7, <1>8 DEF Next

\* Refinement: seen from outside, the engine moves a transaction along the edges of
\* the state diagram only, except on transactions where two transitions overlapped,
\* where a write may follow an edge from a status the row held earlier.
THEOREM ImplementsLifecycle == Spec => LifecycleSpec
<1>1. Init => Lifecycle!Init
  BY InitRefines
<1>2. IInv /\ [Next]_vars => [Lifecycle!Next]_(Lifecycle!vars)
  BY StepRefines
<1> QED
  BY <1>1, <1>2, Inductive, PTL DEF Spec, LifecycleSpec, Lifecycle!Spec

\* What one step of the lifecycle may do to a status: create it, follow an edge from it,
\* or, where transitions overlapped, follow an edge from a status it had.
LEMMA LifecycleStep ==
    ASSUME IInv, [Lifecycle!Next]_(Lifecycle!vars), NEW t \in Txns, status'[t] # status[t]
    PROVE  \/ status[t] = NoStatus
           \/ status'[t] \in TRANSACTION_STATE_MACHINE[status[t]]
           \/ t \in raced /\ \E f \in held[t] : status'[t] \in TRANSACTION_STATE_MACHINE[f]
<1>1. status \in [Txns -> Status \cup {NoStatus}]
  BY DEF IInv, TypeOK
<1>2. ASSUME NEW u \in Txns, NEW s, Lifecycle!Write(u, s)
      PROVE  u = t /\ status'[t] = s
  BY <1>1, <1>2 DEF Lifecycle!Write
<1>3. PICK u \in Txns : \/ Lifecycle!Create(u) \/ Lifecycle!Race(u)
                        \/ \E s \in Status : Lifecycle!Advance(u, s) \/ Lifecycle!Overwrite(u, s)
  BY SameVocabulary DEF Lifecycle!Next, Lifecycle!vars
<1>4. CASE Lifecycle!Create(u)
  BY <1>2, <1>4, SameVocabulary DEF Lifecycle!Create
<1>5. ASSUME NEW s \in Status, Lifecycle!Advance(u, s)
      PROVE  status'[t] \in TRANSACTION_STATE_MACHINE[status[t]]
  BY <1>2, <1>5, SameVocabulary DEF Lifecycle!Advance
<1>6. ASSUME NEW s \in Status, Lifecycle!Overwrite(u, s)
      PROVE  t \in raced /\ \E f \in held[t] : status'[t] \in TRANSACTION_STATE_MACHINE[f]
  BY <1>2, <1>6, SameVocabulary DEF Lifecycle!Overwrite
<1> QED
  BY <1>3, <1>4, <1>5, <1>6 DEF Lifecycle!Race

\* A transaction that left PENDING is never payable again, even when stale writes race:
\* no edge leads back, and no write of transitionStatus creates a row.
THEOREM NeverPayableAgain == Spec => Lifecycle!NeverPendingAgain
<1>1. ASSUME IInv, [Lifecycle!Next]_(Lifecycle!vars), NEW t \in Txns,
             status[t] \in Lifecycle!Status \ {"PENDING"}
      PROVE  status'[t] # "PENDING"
  <2>1. status[t] \in Status /\ status[t] # "PENDING" /\ status[t] # NoStatus
    BY <1>1, SameVocabulary DEF Status, NoStatus
  <2>2. \A f \in Status : "PENDING" \notin TRANSACTION_STATE_MACHINE[f]
    BY DEF TRANSACTION_STATE_MACHINE, Status
  <2>3. held[t] \subseteq Status
    BY <1>1 DEF IInv, TypeOK
  <2> QED
    BY <1>1, <2>1, <2>2, <2>3, LifecycleStep
<1>2. IInv /\ [Next]_vars => [Lifecycle!Next]_(Lifecycle!vars)
  BY StepRefines
<1>3. IInv /\ [Next]_vars =>
          [\A t \in Txns : status[t] \in Lifecycle!Status \ {"PENDING"} =>
                               status'[t] # "PENDING"]_(Lifecycle!vars)
  BY <1>1, <1>2
<1> QED
  BY <1>3, Inductive, PTL DEF Spec, Lifecycle!NeverPendingAgain

\* FAILED, EXPIRED and REFUNDED are final for a transaction on which no two transitions
\* have overlapped (the guard of transitionStatus).
THEOREM FinalStaysFinal == Spec => Lifecycle!FinalUnlessRaced
<1>1. ASSUME IInv, [Lifecycle!Next]_(Lifecycle!vars), NEW t \in Txns \ raced,
             status[t] \in Lifecycle!FinalStatus
      PROVE  status'[t] = status[t]
  <2>1. status[t] \in Status /\ TRANSACTION_STATE_MACHINE[status[t]] = {}
    BY <1>1, SameVocabulary DEF Lifecycle!FinalStatus
  <2>2. status[t] # NoStatus
    BY <2>1 DEF Status, NoStatus
  <2> QED
    BY <1>1, <2>1, <2>2, LifecycleStep
<1>2. IInv /\ [Next]_vars => [Lifecycle!Next]_(Lifecycle!vars)
  BY StepRefines
<1>3. IInv /\ [Next]_vars =>
          [\A t \in Txns \ raced : status[t] \in Lifecycle!FinalStatus =>
                                       status'[t] = status[t]]_(Lifecycle!vars)
  BY <1>1, <1>2
<1> QED
  BY <1>3, Inductive, PTL DEF Spec, Lifecycle!FinalUnlessRaced

----------------------------------------------------------------------------------
(* The steps, sorted by what the counting properties see of them. *)

\* The places of a handler that owes a history row or a notification.
Owing == {"history", "row", "enqueue"}

\* A step that writes nothing and moves no handler that owes something.
Aside ==
    /\ UNCHANGED <<status, history, rows, held, aborts>>
    /\ raced \subseteq raced'
    /\ \A v \in Workers : job[v].pc \in Owing \/ job'[v].pc \in Owing => job'[v] = job[v]

\* One handler moves, the others stay.
LEMMA Moved ==
    ASSUME IInv, NEW w \in Workers, NEW j, Goto(w, j)
    PROVE  job'[w] = j /\ \A v \in Workers : v # w => job'[v] = job[v]
  BY DEF IInv, TypeOK, Goto

LEMMA AsideMove ==
    ASSUME NEW w \in Workers, job[w].pc \notin Owing, job'[w].pc \notin Owing,
           \A v \in Workers : v # w => job'[v] = job[v],
           UNCHANGED <<status, history, rows, held, aborts>>, raced \subseteq raced'
    PROVE  Aside
  BY DEF Aside

LEMMA AsideSteps ==
    ASSUME IInv, NEW w \in Workers,
           \/ StartCallback(w) \/ StartRefund(w) \/ StartQuery(w) \/ StartReconcile(w)
           \/ StartCron(w) \/ Find(w) \/ Scan(w) \/ NextItem(w) \/ EndOfList(w)
           \/ Answer(w)
    PROVE  Aside
<1>0. job[w] \in Job /\ job \in [Workers -> Job]
  BY DEF IInv, TypeOK
<1>1. CASE StartCallback(w)
  <2>1. /\ job'[w].pc = "find"
        /\ \A v \in Workers : v # w => job'[v] = job[v]
    BY <1>0, <1>1 DEF StartCallback, Goto, Idle
  <2>2. /\ job[w].pc \notin Owing /\ raced \subseteq raced'
        /\ UNCHANGED <<status, history, rows, held, aborts>>
    BY <1>1 DEF StartCallback, Owing
  <2> QED
    BY <2>1, <2>2, AsideMove DEF Owing
<1>2. CASE StartRefund(w)
  <2>1. /\ job'[w].pc = "find"
        /\ \A v \in Workers : v # w => job'[v] = job[v]
    BY <1>0, <1>2 DEF StartRefund, Goto, Idle
  <2>2. /\ job[w].pc \notin Owing /\ raced \subseteq raced'
        /\ UNCHANGED <<status, history, rows, held, aborts>>
    BY <1>2 DEF StartRefund, Owing
  <2> QED
    BY <2>1, <2>2, AsideMove DEF Owing
<1>3. CASE StartQuery(w)
  <2>1. /\ job'[w].pc = "scan"
        /\ \A v \in Workers : v # w => job'[v] = job[v]
    BY <1>0, <1>3 DEF StartQuery, Goto, Idle
  <2>2. /\ job[w].pc \notin Owing /\ raced \subseteq raced'
        /\ UNCHANGED <<status, history, rows, held, aborts>>
    BY <1>3 DEF StartQuery, Owing
  <2> QED
    BY <2>1, <2>2, AsideMove DEF Owing
<1>4. CASE StartReconcile(w)
  <2>1. /\ job'[w].pc = "next"
        /\ \A v \in Workers : v # w => job'[v] = job[v]
    BY <1>0, <1>4 DEF StartReconcile, Goto, Idle
  <2>2. /\ job[w].pc \notin Owing /\ raced \subseteq raced'
        /\ UNCHANGED <<status, history, rows, held, aborts>>
    BY <1>4 DEF StartReconcile, Owing
  <2> QED
    BY <2>1, <2>2, AsideMove DEF Owing
<1>5. CASE StartCron(w)
  <2>1. /\ job'[w].pc = "scan"
        /\ \A v \in Workers : v # w => job'[v] = job[v]
    BY <1>0, <1>5 DEF StartCron, Goto, Idle
  <2>2. /\ job[w].pc \notin Owing /\ raced \subseteq raced'
        /\ UNCHANGED <<status, history, rows, held, aborts>>
    BY <1>5 DEF StartCron, Owing
  <2> QED
    BY <2>1, <2>2, AsideMove DEF Owing
<1>6. CASE Find(w)
  <2>1. /\ job'[w].pc \in {"update", "rejected"}
        /\ \A v \in Workers : v # w => job'[v] = job[v]
    BY <1>0, <1>6 DEF Find, Goto, Refuse, Job
  <2>2. /\ job[w].pc \notin Owing /\ raced \subseteq raced'
        /\ UNCHANGED <<status, history, rows, held, aborts>>
    BY <1>6 DEF Find, Owing
  <2> QED
    BY <2>1, <2>2, AsideMove DEF Owing
<1>7. CASE Scan(w)
  <2>1. /\ job'[w].pc = "next"
        /\ \A v \in Workers : v # w => job'[v] = job[v]
    BY <1>0, <1>7 DEF Scan, Goto, Job
  <2>2. /\ job[w].pc \notin Owing /\ raced \subseteq raced'
        /\ UNCHANGED <<status, history, rows, held, aborts>>
    BY <1>7 DEF Scan, Owing
  <2> QED
    BY <2>1, <2>2, AsideMove DEF Owing
<1>8. CASE NextItem(w)
  <2>1. /\ job'[w].pc = "find"
        /\ \A v \in Workers : v # w => job'[v] = job[v]
    BY <1>0, <1>8 DEF NextItem, Goto, Job
  <2>2. /\ job[w].pc \notin Owing /\ raced \subseteq raced'
        /\ UNCHANGED <<status, history, rows, held, aborts>>
    BY <1>8 DEF NextItem, Owing
  <2> QED
    BY <2>1, <2>2, AsideMove DEF Owing
<1>9. CASE EndOfList(w)
  <2>1. /\ job'[w].pc = "ok"
        /\ \A v \in Workers : v # w => job'[v] = job[v]
    BY <1>0, <1>9 DEF EndOfList, Goto, Job
  <2>2. /\ job[w].pc \notin Owing /\ raced \subseteq raced'
        /\ UNCHANGED <<status, history, rows, held, aborts>>
    BY <1>9 DEF EndOfList, Owing
  <2> QED
    BY <2>1, <2>2, AsideMove DEF Owing
<1>10. CASE Answer(w)
  <2>1. /\ job'[w].pc = "idle"
        /\ \A v \in Workers : v # w => job'[v] = job[v]
    BY <1>0, <1>10 DEF Answer, Goto, Idle
  <2>2. /\ job[w].pc \notin Owing /\ raced \subseteq raced'
        /\ UNCHANGED <<status, history, rows, held, aborts>>
    BY <1>10 DEF Answer, Owing
  <2> QED
    BY <2>1, <2>2, AsideMove DEF Owing
<1> QED
  BY <1>1, <1>2, <1>3, <1>4, <1>5, <1>6, <1>7, <1>8, <1>9, <1>10

\* Every step is one of these.
LEMMA StepCases ==
    ASSUME IInv, [Next]_vars
    PROVE  \/ Aside
           \/ \E w \in Workers : \/ StartCreate(w) /\ UNCHANGED aborts
                                 \/ Update(w) \/ Record(w) \/ CreateDelivery(w)
                                 \/ Enqueue(w) \/ Abort(w)
<1>1. ASSUME NEW w \in Requests, Arrive(w)
      PROVE  \/ Aside
             \/ \E v \in Workers : StartCreate(v) /\ UNCHANGED aborts
  <2>1. w \in Workers
    BY DEF Workers
  <2>2. StartCreate(w) => UNCHANGED aborts
    BY DEF StartCreate
  <2> QED
    BY <1>1, <2>1, <2>2, AsideSteps DEF Arrive
<1>2. ASSUME NEW w \in CronRuns, StartCron(w) PROVE Aside
  BY <1>2, AsideSteps DEF Workers
<1>3. ASSUME NEW w \in Workers, Progress(w)
      PROVE  \/ Aside
             \/ Update(w) \/ Record(w) \/ CreateDelivery(w) \/ Enqueue(w)
  BY <1>3, AsideSteps DEF Progress
<1>4. ASSUME NEW t \in Txns, Overdue(t) PROVE Aside
  BY <1>4 DEF Overdue, Aside
<1>5. CASE UNCHANGED vars
  BY <1>5 DEF vars, Aside
<1> QED
  BY <1>1, <1>2, <1>3, <1>4, <1>5 DEF Next

\* What each of the others does to the handler.
LEMMA CreateFacts ==
    ASSUME IInv, NEW w \in Workers, StartCreate(w)
    PROVE  \E t \in Txns :
               /\ status[t] = NoStatus /\ job[w].pc = "idle"
               /\ status' = [status EXCEPT ![t] = "PENDING"]
               /\ held'[t] = held[t] \cup {"PENDING"}
               /\ \A u \in Txns : u # t => held'[u] = held[u]
               /\ job'[w].pc = "history" /\ job'[w].txn = t
               /\ job'[w].seen = NoStatus /\ job'[w].to = "PENDING"
               /\ \A v \in Workers : v # w => job'[v] = job[v]
<1>1. PICK t \in Txns :
          /\ status[t] = NoStatus
          /\ SetStatus(t, "PENDING")
          /\ Goto(w, [Idle EXCEPT !.op = "create", !.pc = "history", !.txn = t,
                                  !.to = "PENDING", !.ret = "ok"])
  BY DEF StartCreate
<1> DEFINE j == [Idle EXCEPT !.op = "create", !.pc = "history", !.txn = t,
                             !.to = "PENDING", !.ret = "ok"]
<1>2. j.pc = "history" /\ j.txn = t /\ j.seen = NoStatus /\ j.to = "PENDING"
  BY DEF Idle
<1>3. Goto(w, j)
  BY <1>1
<1> HIDE DEF j
<1>4. job'[w] = j /\ \A v \in Workers : v # w => job'[v] = job[v]
  BY <1>3, Moved
<1>5. /\ status' = [status EXCEPT ![t] = "PENDING"]
      /\ held' = [held EXCEPT ![t] = @ \cup {"PENDING"}]
      /\ held \in [Txns -> SUBSET Status]
  BY <1>1 DEF SetStatus, IInv, TypeOK
<1> QED
  BY <1>1, <1>2, <1>4, <1>5 DEF StartCreate

LEMMA UpdateFacts ==
    ASSUME IInv, NEW w \in Workers, Update(w)
    PROVE  \E t \in Txns, seen \in Status, to \in Status :
               /\ job[w].pc = "update" /\ job[w].txn = t
               /\ job[w].seen = seen /\ job[w].to = to
               /\ to \in TRANSACTION_STATE_MACHINE[seen]
               /\ status' = [status EXCEPT ![t] = to]
               /\ held'[t] = held[t] \cup {to}
               /\ \A u \in Txns : u # t => held'[u] = held[u]
               /\ job'[w].pc = "history" /\ job'[w].txn = t
               /\ job'[w].seen = seen /\ job'[w].to = to
               /\ \A v \in Workers : v # w => job'[v] = job[v]
<1>1. /\ job[w] \in Job /\ job[w].pc = "update" /\ job[w].txn \in Txns
      /\ job[w].to \in Status /\ job[w].seen \in Status
      /\ job[w].to \in TRANSACTION_STATE_MACHINE[job[w].seen]
  BY TableFacts DEF IInv, TypeOK, Update, JobSound
<1> DEFINE j == [job[w] EXCEPT !.pc = "history"]
<1>2. /\ j.pc = "history" /\ j.txn = job[w].txn /\ j.seen = job[w].seen
      /\ j.to = job[w].to
  BY <1>1 DEF Job
<1>3. Goto(w, j)
  BY DEF Update
<1> HIDE DEF j
<1>4. job'[w] = j /\ \A v \in Workers : v # w => job'[v] = job[v]
  BY <1>3, Moved
<1>5. PICK t \in Txns, seen \in Status, to \in Status :
          t = job[w].txn /\ seen = job[w].seen /\ to = job[w].to
  BY <1>1
<1>6. /\ status' = [status EXCEPT ![t] = to]
      /\ held' = [held EXCEPT ![t] = @ \cup {to}]
      /\ held \in [Txns -> SUBSET Status]
  BY <1>5 DEF Update, SetStatus, IInv, TypeOK
<1> QED
  BY <1>1, <1>2, <1>4, <1>5, <1>6

LEMMA RecordFacts ==
    ASSUME IInv, NEW w \in Workers, Record(w)
    PROVE  \E t \in Txns, e \in Entry :
               /\ job[w].pc = "history" /\ job[w].txn = t
               /\ job[w].ret \in {"ok", "row", "scan", "next"}
               /\ e.from = job[w].seen /\ e.to = job[w].to
               /\ e.by = "bank" <=> job[w].ret = "row"
               /\ history'[t] = Append(history[t], e)
               /\ \A u \in Txns : u # t => history'[u] = history[u]
               /\ job'[w].pc = job[w].ret /\ job'[w].txn = t /\ job'[w].to = job[w].to
               /\ \A v \in Workers : v # w => job'[v] = job[v]
<1> DEFINE e == [from |-> job[w].seen, to |-> job[w].to, by |-> Reason(job[w])]
           j == [job[w] EXCEPT !.pc = job[w].ret, !.seen = NoStatus]
<1>1. /\ job[w] \in Job /\ JobSound(job[w]) /\ job[w].pc = "history"
      /\ job[w].txn \in Txns /\ job[w].ret \in {"ok", "row", "scan", "next"}
      /\ history \in [Txns -> Seq(Entry)]
  BY DEF IInv, TypeOK, Record, JobSound
<1>2. e \in Entry
  BY <1>1, EntrySound
<1>3. e.by = "bank" <=> job[w].ret = "row"
  <2>1. e.by = Reason(job[w])
    OBVIOUS
  <2>2. Reason(job[w]) = "bank" <=> job[w].ret = "row"
    BY <1>1 DEF Reason
  <2> QED
    BY <2>1, <2>2
<1>4. e.from = job[w].seen /\ e.to = job[w].to
  OBVIOUS
<1>5. history' = [history EXCEPT ![job[w].txn] = Append(history[job[w].txn], e)]
  BY DEF Record
<1>6. Goto(w, j)
  BY DEF Record
<1>7. j.pc = job[w].ret /\ j.txn = job[w].txn /\ j.to = job[w].to
  BY <1>1 DEF Job
<1> HIDE DEF e, j
<1>8. job'[w] = j /\ \A v \in Workers : v # w => job'[v] = job[v]
  BY <1>6, Moved
<1>9. PICK t \in Txns : t = job[w].txn
  BY <1>1
<1>10. /\ history'[t] = Append(history[t], e)
       /\ \A u \in Txns : u # t => history'[u] = history[u]
  BY <1>1, <1>5, <1>9
<1> QED
  BY <1>1, <1>2, <1>3, <1>4, <1>7, <1>8, <1>9, <1>10

----------------------------------------------------------------------------------
(* Counting. *)

\* A part of a finite set is finite and no larger.
LEMMA Fewer ==
    ASSUME NEW B, IsFiniteSet(B), NEW A \in SUBSET B
    PROVE  IsFiniteSet(A) /\ Cardinality(A) \in Nat /\ Cardinality(A) <= Cardinality(B)
  BY FS_Subset, FS_CardinalityType

\* A set with one element more at most.
LEMMA OneMore ==
    ASSUME NEW B, IsFiniteSet(B), NEW z, NEW A \in SUBSET (B \cup {z})
    PROVE  /\ IsFiniteSet(A) /\ Cardinality(A) \in Nat /\ Cardinality(B) \in Nat
           /\ Cardinality(A) <= Cardinality(B) + 1
<1>1. /\ IsFiniteSet(B \cup {z})
      /\ Cardinality(B \cup {z}) = IF z \in B THEN Cardinality(B) ELSE Cardinality(B) + 1
  BY FS_AddElement
<1>2. PICK n \in Nat : n = Cardinality(B)
  BY FS_CardinalityType
<1>3. Cardinality(B \cup {z}) <= n + 1 /\ Cardinality(B \cup {z}) \in Nat
  BY <1>1, <1>2
<1>4. /\ IsFiniteSet(A) /\ Cardinality(A) \in Nat
      /\ Cardinality(A) <= Cardinality(B \cup {z})
  BY <1>1, Fewer
<1>5. Cardinality(A) <= n + 1
  BY <1>2, <1>3, <1>4
<1> QED
  BY <1>2, <1>4, <1>5

\* The positions of a sequence are finitely many.
LEMMA Positions ==
    ASSUME NEW S, NEW s \in Seq(S)
    PROVE  IsFiniteSet(DOMAIN s)
<1>1. DOMAIN s = 1..Len(s) /\ Len(s) \in Nat
  OBVIOUS
<1> QED
  BY <1>1, FS_Interval

----------------------------------------------------------------------------------
(* The audit trail. *)

AuditInv == IInv /\ IsFiniteSet(Lost) /\ AuditComplete

\* Where the history only grows, where what a row newly holds is about to be recorded,
\* and where whoever is about to record something goes on to or has, but for the
\* pairs in X, no status is lost but those.
LEMMA LostGrows ==
    ASSUME NEW X,
           \A t \in Txns : \A s \in held'[t] :
               \/ s \in held[t]
               \/ \E w \in Workers :
                      job'[w].pc = "history" /\ job'[w].txn = t /\ job'[w].to = s,
           \A t \in Txns : \A i \in DOMAIN history[t] :
               i \in DOMAIN history'[t] /\ history'[t][i].to = history[t][i].to,
           \A v \in Workers : job[v].pc = "history" =>
               \/ /\ job'[v].pc = "history"
                  /\ job'[v].txn = job[v].txn /\ job'[v].to = job[v].to
               \/ \E i \in DOMAIN history'[job[v].txn] :
                      history'[job[v].txn][i].to = job[v].to
               \/ <<job[v].txn, job[v].to>> \in X
    PROVE  Lost' \in SUBSET (Lost \cup X)
<1> SUFFICES ASSUME NEW t \in Txns, NEW s \in Status, s \in Unrecorded(t)',
                    <<t, s>> \notin X
             PROVE  s \in Unrecorded(t)
  BY DEF Lost
<1>1. /\ s \in held'[t]
      /\ \A i \in DOMAIN history'[t] : history'[t][i].to # s
      /\ \A w \in Workers : job'[w].pc = "history" /\ job'[w].txn = t => job'[w].to # s
  BY DEF Unrecorded, At
<1>2. s \in held[t]
  BY <1>1
<1>3. \A i \in DOMAIN history[t] : history[t][i].to # s
  BY <1>1
<1>4. \A w \in Workers : job[w].pc = "history" /\ job[w].txn = t => job[w].to # s
  BY <1>1
<1> QED
  BY <1>2, <1>3, <1>4 DEF Unrecorded, At

\* No status is lost: the count stands.
LEMMA NothingLost ==
    ASSUME AuditInv, aborts' = aborts, Lost' \in SUBSET Lost
    PROVE  IsFiniteSet(Lost)' /\ AuditComplete'
<1>1. PICK B : B = Lost
  OBVIOUS
<1>2. PICK C : C = Lost'
  OBVIOUS
<1>3. IsFiniteSet(C) /\ Cardinality(C) \in Nat /\ Cardinality(C) <= Cardinality(B)
  BY <1>1, <1>2, Fewer DEF AuditInv
<1>4. Cardinality(B) \in Nat /\ aborts \in Nat /\ Cardinality(B) <= aborts
  BY <1>1, FS_CardinalityType DEF AuditInv, AuditComplete, IInv, TypeOK
<1>5. Cardinality(C) <= aborts'
  BY <1>3, <1>4
<1> QED
  BY <1>2, <1>3, <1>5 DEF AuditComplete

LEMMA AsideLost == ASSUME Aside PROVE Lost' \in SUBSET (Lost \cup {})
<1>1. \A v \in Workers : job[v].pc = "history" => job'[v] = job[v]
  BY DEF Aside, Owing
<1> QED
  BY <1>1, LostGrows DEF Aside

LEMMA CreateLost ==
    ASSUME IInv, NEW w \in Workers, StartCreate(w)
    PROVE  Lost' \in SUBSET (Lost \cup {})
<1>1. UNCHANGED history
  BY DEF StartCreate
<1>2. PICK t \in Txns :
          /\ job[w].pc = "idle"
          /\ held'[t] = held[t] \cup {"PENDING"}
          /\ \A u \in Txns : u # t => held'[u] = held[u]
          /\ job'[w].pc = "history" /\ job'[w].txn = t /\ job'[w].to = "PENDING"
          /\ \A v \in Workers : v # w => job'[v] = job[v]
  BY CreateFacts
<1>3. \A v \in Workers : job[v].pc = "history" => job'[v] = job[v]
  BY <1>2
<1> QED
  BY <1>1, <1>2, <1>3, LostGrows

LEMMA UpdateLost ==
    ASSUME IInv, NEW w \in Workers, Update(w)
    PROVE  Lost' \in SUBSET (Lost \cup {})
<1>1. UNCHANGED history
  BY DEF Update
<1>2. PICK t \in Txns, to \in Status :
          /\ job[w].pc = "update"
          /\ held'[t] = held[t] \cup {to}
          /\ \A u \in Txns : u # t => held'[u] = held[u]
          /\ job'[w].pc = "history" /\ job'[w].txn = t /\ job'[w].to = to
          /\ \A v \in Workers : v # w => job'[v] = job[v]
  BY UpdateFacts
<1>3. \A v \in Workers : job[v].pc = "history" => job'[v] = job[v]
  BY <1>2
<1> QED
  BY <1>1, <1>2, <1>3, LostGrows

\* Appending an entry: the old entries stay, the new one stands at the end.
LEMMA AppendedEntry ==
    ASSUME NEW S, NEW s \in Seq(S), NEW e \in S
    PROVE  /\ Len(s) \in Nat /\ DOMAIN s = 1..Len(s)
           /\ DOMAIN Append(s, e) = 1..(Len(s) + 1)
           /\ \A i \in 1..Len(s) : Append(s, e)[i] = s[i]
           /\ Append(s, e)[Len(s) + 1] = e
  OBVIOUS

LEMMA RecordLost ==
    ASSUME IInv, NEW w \in Workers, Record(w)
    PROVE  Lost' \in SUBSET (Lost \cup {})
<1>1. UNCHANGED held /\ history \in [Txns -> Seq(Entry)]
  BY DEF Record, IInv, TypeOK
<1>2. PICK t \in Txns, e \in Entry :
          /\ job[w].txn = t /\ e.to = job[w].to
          /\ history'[t] = Append(history[t], e)
          /\ \A u \in Txns : u # t => history'[u] = history[u]
          /\ \A v \in Workers : v # w => job'[v] = job[v]
  BY RecordFacts
<1>3. PICK s \in Seq(Entry) : s = history[t]
  BY <1>1
<1>4. /\ Len(s) \in Nat /\ DOMAIN s = 1..Len(s)
      /\ DOMAIN Append(s, e) = 1..(Len(s) + 1)
      /\ \A i \in 1..Len(s) : Append(s, e)[i] = s[i]
      /\ Append(s, e)[Len(s) + 1] = e
  BY AppendedEntry
<1>5. \A u \in Txns : \A i \in DOMAIN history[u] :
          i \in DOMAIN history'[u] /\ history'[u][i].to = history[u][i].to
  <2> TAKE u \in Txns
  <2>1. CASE u = t
    BY <1>2, <1>3, <1>4, <2>1
  <2>2. CASE u # t
    BY <1>2, <2>2
  <2> QED
    BY <2>1, <2>2
<1>6. \E i \in DOMAIN history'[job[w].txn] : history'[job[w].txn][i].to = job[w].to
  <2>1. Len(s) + 1 \in DOMAIN history'[t] /\ history'[t][Len(s) + 1].to = job[w].to
    BY <1>2, <1>3, <1>4
  <2> QED
    BY <1>2, <2>1
<1> QED
  BY <1>1, <1>2, <1>5, <1>6, LostGrows

\* The steps after the history.
LEMMA AfterwardsLost ==
    ASSUME IInv, NEW w \in Workers, CreateDelivery(w) \/ Enqueue(w)
    PROVE  Lost' \in SUBSET (Lost \cup {})
<1>1. UNCHANGED <<held, history>> /\ job[w].pc # "history"
  BY DEF CreateDelivery, Enqueue
<1>2. \A v \in Workers : v # w => job'[v] = job[v]
  BY Moved DEF CreateDelivery, Enqueue
<1> QED
  BY <1>1, <1>2, LostGrows

\* A handler that stops loses one status at most: the one it wrote last.
LEMMA AbortAudit ==
    ASSUME AuditInv, NEW w \in Workers, Abort(w)
    PROVE  IsFiniteSet(Lost)' /\ AuditComplete'
<1>1. /\ IInv /\ aborts \in Nat /\ aborts' = aborts + 1
      /\ UNCHANGED <<held, history>>
  BY DEF AuditInv, IInv, TypeOK, Abort
<1>2. \A v \in Workers : v # w => job'[v] = job[v]
  BY <1>1, Moved DEF Abort
<1>3. PICK z : z = <<job[w].txn, job[w].to>>
  OBVIOUS
<1>4. Lost' \in SUBSET (Lost \cup {z})
  BY <1>1, <1>2, <1>3, LostGrows
<1>5. PICK B : B = Lost
  OBVIOUS
<1>6. PICK C : C = Lost'
  OBVIOUS
<1>7. /\ IsFiniteSet(C) /\ Cardinality(C) \in Nat /\ Cardinality(B) \in Nat
      /\ Cardinality(C) <= Cardinality(B) + 1
  BY <1>4, <1>5, <1>6, OneMore DEF AuditInv
<1>8. Cardinality(B) <= aborts
  BY <1>5 DEF AuditInv, AuditComplete
<1>9. Cardinality(C) <= aborts'
  BY <1>1, <1>7, <1>8
<1> QED
  BY <1>6, <1>7, <1>9 DEF AuditComplete

LEMMA NextAudit == AuditInv /\ [Next]_vars => IsFiniteSet(Lost)' /\ AuditComplete'
<1> SUFFICES ASSUME AuditInv, [Next]_vars PROVE IsFiniteSet(Lost)' /\ AuditComplete'
  OBVIOUS
<1>1. IInv
  BY DEF AuditInv
<1>2. CASE Aside
  <2>1. aborts' = aborts
    BY <1>2 DEF Aside
  <2> QED
    BY <1>2, <2>1, AsideLost, NothingLost
<1>3. ASSUME NEW w \in Workers, StartCreate(w), UNCHANGED aborts
      PROVE  IsFiniteSet(Lost)' /\ AuditComplete'
  BY <1>1, <1>3, CreateLost, NothingLost
<1>4. ASSUME NEW w \in Workers,
             Update(w) \/ Record(w) \/ CreateDelivery(w) \/ Enqueue(w)
      PROVE  IsFiniteSet(Lost)' /\ AuditComplete'
  <2>1. aborts' = aborts
    BY <1>4 DEF Update, Record, CreateDelivery, Enqueue
  <2>2. Lost' \in SUBSET (Lost \cup {})
    BY <1>1, <1>4, UpdateLost, RecordLost, AfterwardsLost
  <2> QED
    BY <2>1, <2>2, NothingLost
<1>5. ASSUME NEW w \in Workers, Abort(w)
      PROVE  IsFiniteSet(Lost)' /\ AuditComplete'
  BY <1>5, AbortAudit
<1> QED
  BY <1>1, <1>2, <1>3, <1>4, <1>5, StepCases

\* Every status a row has held is in its history or about to be, but for one at most
\* for each handler that stopped between the write and the history row.
THEOREM AuditStaysComplete == Spec => []AuditComplete
<1>1. Init => AuditInv
  <2> SUFFICES ASSUME Init PROVE AuditInv
    OBVIOUS
  <2>1. Lost = {} /\ aborts = 0
    BY DEF Init, Lost, Unrecorded
  <2>2. IsFiniteSet({}) /\ Cardinality({}) = 0
    BY FS_EmptySet
  <2> QED
    BY <2>1, <2>2, InitIInv DEF AuditInv, AuditComplete
<1>2. AuditInv /\ [Next]_vars => AuditInv'
  BY NextIInv, NextAudit DEF AuditInv
<1>3. AuditInv => AuditComplete
  BY DEF AuditInv
<1> QED
  BY <1>1, <1>2, <1>3, PTL DEF Spec

----------------------------------------------------------------------------------
(* The notifications. *)

\* NotifyAccounting of one transaction: its counts, and its delivery rows.
Counts(t) ==
    LET bank == Cardinality(EntriesBy("bank", t))
        told == Len(rows[t]) + Cardinality(At("row", t))
    IN  told <= bank /\ bank <= told + aborts

RowsBacked(t) ==
    \A i \in DOMAIN rows[t] : \E j \in EntriesBy("bank", t) :
        history[t][j].to = rows[t][i].status

NotifyInv ==
    /\ IInv
    /\ \A t \in Txns :
           /\ IsFiniteSet(At("row", t))
           /\ Counts(t)
           /\ Cardinality(Stranded(t)) <= aborts
           /\ RowsBacked(t)
    /\ AnnouncementsBacked

LEMMA NotifyParts ==
    NotifyAccounting <=>
        \A t \in Txns :
            Counts(t) /\ Cardinality(Stranded(t)) <= aborts /\ RowsBacked(t)
  BY DEF NotifyAccounting, Counts, RowsBacked

\* What is counted is finite.
LEMMA Countable ==
    ASSUME NotifyInv, NEW t \in Txns
    PROVE  /\ IsFiniteSet(EntriesBy("bank", t)) /\ Cardinality(EntriesBy("bank", t)) \in Nat
           /\ IsFiniteSet(Stranded(t)) /\ Cardinality(Stranded(t)) \in Nat
           /\ Cardinality(At("row", t)) \in Nat
           /\ history[t] \in Seq(Entry) /\ rows[t] \in Seq(Delivery)
           /\ Len(rows[t]) \in Nat /\ aborts \in Nat
<1>1. /\ history[t] \in Seq(Entry) /\ rows[t] \in Seq(Delivery) /\ aborts \in Nat
      /\ IsFiniteSet(At("row", t))
  BY DEF NotifyInv, IInv, TypeOK
<1>2. IsFiniteSet(DOMAIN history[t]) /\ IsFiniteSet(DOMAIN rows[t])
  BY <1>1, Positions
<1>3. /\ EntriesBy("bank", t) \in SUBSET DOMAIN history[t]
      /\ Stranded(t) \in SUBSET DOMAIN rows[t]
  BY DEF EntriesBy, Stranded
<1>4. IsFiniteSet(EntriesBy("bank", t)) /\ Cardinality(EntriesBy("bank", t)) \in Nat
  BY <1>2, <1>3, Fewer
<1>5. IsFiniteSet(Stranded(t)) /\ Cardinality(Stranded(t)) \in Nat
  BY <1>2, <1>3, Fewer
<1>6. Cardinality(At("row", t)) \in Nat /\ Len(rows[t]) \in Nat
  BY <1>1, FS_CardinalityType
<1> QED
  BY <1>1, <1>4, <1>5, <1>6

\* The counts of a transaction whose history, rows and announcers a step leaves alone.
LEMMA SameCounts ==
    ASSUME NotifyInv, NEW t \in Txns,
           history'[t] = history[t], rows'[t] = rows[t], aborts' = aborts,
           At("row", t)' = At("row", t), Stranded(t)' \in SUBSET Stranded(t)
    PROVE  /\ IsFiniteSet(At("row", t))' /\ Counts(t)' /\ RowsBacked(t)'
           /\ (Cardinality(Stranded(t)) <= aborts)'
<1>1. EntriesBy("bank", t)' = EntriesBy("bank", t)
  BY DEF EntriesBy
<1>2. IsFiniteSet(At("row", t))'
  BY DEF NotifyInv
<1>3. Counts(t)'
  <2>1. Counts(t)
    BY DEF NotifyInv
  <2> QED
    BY <1>1, <2>1 DEF Counts
<1>4. RowsBacked(t)'
  <2>1. RowsBacked(t)
    BY DEF NotifyInv
  <2> QED
    BY <1>1, <2>1 DEF RowsBacked
<1>5. (Cardinality(Stranded(t)) <= aborts)'
  <2>1. PICK B : B = Stranded(t)
    OBVIOUS
  <2>2. PICK C : C = Stranded(t)'
    OBVIOUS
  <2>3. /\ IsFiniteSet(B) /\ Cardinality(B) \in Nat /\ Cardinality(B) <= aborts
        /\ aborts \in Nat
    BY <2>1, Countable DEF NotifyInv
  <2>4. Cardinality(C) \in Nat /\ Cardinality(C) <= Cardinality(B)
    BY <2>1, <2>2, <2>3, Fewer
  <2>5. Cardinality(C) <= aborts'
    BY <2>3, <2>4
  <2> QED
    BY <2>2, <2>5
<1> QED
  BY <1>2, <1>3, <1>4, <1>5

\* Handlers at the two places of sendWebhook, as seen from t, do not move.
LEMMA SameAnnouncers ==
    ASSUME NEW t \in Txns, rows'[t] = rows[t],
           \A v \in Workers :
               /\ job[v].pc \in {"row", "enqueue"} /\ job[v].txn = t => job'[v] = job[v]
               /\ job'[v].pc \in {"row", "enqueue"} /\ job'[v].txn = t => job'[v] = job[v]
    PROVE  At("row", t)' = At("row", t) /\ Stranded(t)' \in SUBSET Stranded(t)
<1>1. At("row", t)' = At("row", t)
  BY DEF At
<1>2. Stranded(t)' \in SUBSET Stranded(t)
  BY DEF Stranded, At
<1> QED
  BY <1>1, <1>2

\* An outcome that was in the history is there after the step.
LEMMA StillBacked ==
    ASSUME IInv, NEW t \in Txns, NEW s,
           \A i \in DOMAIN history[t] :
               i \in DOMAIN history'[t] /\ history'[t][i] = history[t][i],
           \E i \in EntriesBy("bank", t) : history[t][i].to = s
    PROVE  \E i \in EntriesBy("bank", t)' : history'[t][i].to = s
  BY DEF EntriesBy

\* Steps outside recording and notifying.
LEMMA QuietNotify ==
    ASSUME NotifyInv, UNCHANGED <<history, rows, aborts>>,
           \A v \in Workers :
               job[v].pc \in {"row", "enqueue"} \/ job'[v].pc \in {"row", "enqueue"} =>
                   job'[v] = job[v]
    PROVE  /\ \A t \in Txns :
                  /\ IsFiniteSet(At("row", t))' /\ Counts(t)' /\ RowsBacked(t)'
                  /\ (Cardinality(Stranded(t)) <= aborts)'
           /\ AnnouncementsBacked'
<1>1. ASSUME NEW t \in Txns
      PROVE  /\ IsFiniteSet(At("row", t))' /\ Counts(t)' /\ RowsBacked(t)'
             /\ (Cardinality(Stranded(t)) <= aborts)'
  <2>1. At("row", t)' = At("row", t) /\ Stranded(t)' \in SUBSET Stranded(t)
    BY SameAnnouncers
  <2> QED
    BY <2>1, SameCounts
<1>2. AnnouncementsBacked'
  <2>1. AnnouncementsBacked
    BY DEF NotifyInv
  <2> QED
    BY <2>1 DEF AnnouncementsBacked, EntriesBy
<1> QED
  BY <1>1, <1>2

\* A history row: the bank's brings one entry and one announcer, another's neither.
LEMMA RecordNotify ==
    ASSUME NotifyInv, NEW w \in Workers, Record(w)
    PROVE  /\ \A t \in Txns :
                  /\ IsFiniteSet(At("row", t))' /\ Counts(t)' /\ RowsBacked(t)'
                  /\ (Cardinality(Stranded(t)) <= aborts)'
           /\ AnnouncementsBacked'
<1>1. IInv /\ UNCHANGED <<rows, aborts>>
  BY DEF NotifyInv, Record
<1>2. PICK t \in Txns, e \in Entry :
          /\ job[w].pc = "history" /\ job[w].txn = t
          /\ job[w].ret \in {"ok", "row", "scan", "next"}
          /\ e.from = job[w].seen /\ e.to = job[w].to
          /\ e.by = "bank" <=> job[w].ret = "row"
          /\ history'[t] = Append(history[t], e)
          /\ \A u \in Txns : u # t => history'[u] = history[u]
          /\ job'[w].pc = job[w].ret /\ job'[w].txn = t /\ job'[w].to = job[w].to
          /\ \A v \in Workers : v # w => job'[v] = job[v]
  BY <1>1, RecordFacts
<1>3. /\ Len(history[t]) \in Nat /\ DOMAIN history[t] = 1..Len(history[t])
      /\ DOMAIN history'[t] = 1..(Len(history[t]) + 1)
      /\ \A i \in 1..Len(history[t]) : history'[t][i] = history[t][i]
      /\ history'[t][Len(history[t]) + 1] = e
  <2>1. PICK s \in Seq(Entry) : s = history[t]
    BY Countable
  <2> QED
    BY <1>2, <2>1, AppendedEntry
<1>4. PICK n \in Nat : n = Len(history[t]) + 1 /\ n \notin DOMAIN history[t]
  BY <1>3
<1>5. ASSUME NEW u \in Txns, NEW i \in DOMAIN history[u]
      PROVE  i \in DOMAIN history'[u] /\ history'[u][i] = history[u][i]
  BY <1>2, <1>3
<1>6. ASSUME NEW u \in Txns, u # t
      PROVE  /\ IsFiniteSet(At("row", u))' /\ Counts(u)' /\ RowsBacked(u)'
             /\ (Cardinality(Stranded(u)) <= aborts)'
  <2>1. At("row", u)' = At("row", u) /\ Stranded(u)' \in SUBSET Stranded(u)
    BY <1>1, <1>2, <1>6, SameAnnouncers
  <2> QED
    BY <1>1, <1>2, <1>6, <2>1, SameCounts
<1>7. (Cardinality(Stranded(t)) <= aborts)'
  <2>1. Stranded(t)' = Stranded(t)
    BY <1>1, <1>2 DEF Stranded, At
  <2> QED
    BY <1>1, <2>1 DEF NotifyInv
<1>8. RowsBacked(t)'
  <2> SUFFICES ASSUME NEW i \in DOMAIN rows'[t]
               PROVE  \E j \in EntriesBy("bank", t)' :
                          history'[t][j].to = rows'[t][i].status
    BY DEF RowsBacked
  <2>1. \E j \in EntriesBy("bank", t) : history[t][j].to = rows[t][i].status
    BY <1>1 DEF NotifyInv, RowsBacked
  <2> QED
    BY <1>1, <1>5, <2>1, StillBacked
<1>9. CASE job[w].ret = "row"
  <2>1. EntriesBy("bank", t)' = EntriesBy("bank", t) \cup {n}
    BY <1>2, <1>3, <1>4, <1>9 DEF EntriesBy
  <2>2. n \notin EntriesBy("bank", t)
    BY <1>4 DEF EntriesBy
  <2>3. At("row", t)' = At("row", t) \cup {w} /\ w \notin At("row", t)
    BY <1>2, <1>9 DEF At
  <2>4. PICK E, F, A, B : /\ E = EntriesBy("bank", t) /\ F = EntriesBy("bank", t)'
                          /\ A = At("row", t) /\ B = At("row", t)'
    OBVIOUS
  <2>5. /\ IsFiniteSet(E) /\ Cardinality(E) \in Nat /\ IsFiniteSet(A)
        /\ Cardinality(A) \in Nat /\ Len(rows[t]) \in Nat /\ aborts \in Nat
        /\ Len(rows[t]) + Cardinality(A) <= Cardinality(E)
        /\ Cardinality(E) <= Len(rows[t]) + Cardinality(A) + aborts
    BY <2>4, Countable DEF NotifyInv, Counts
  <2>6. Cardinality(F) = Cardinality(E) + 1
    BY <2>1, <2>2, <2>4, <2>5, FS_AddElement
  <2>7. Cardinality(B) = Cardinality(A) + 1 /\ IsFiniteSet(B)
    BY <2>3, <2>4, <2>5, FS_AddElement
  <2>8. /\ Len(rows'[t]) + Cardinality(B) <= Cardinality(F)
        /\ Cardinality(F) <= Len(rows'[t]) + Cardinality(B) + aborts'
    BY <1>1, <2>5, <2>6, <2>7
  <2>9. Counts(t)'
    BY <2>4, <2>8 DEF Counts
  <2>10. AnnouncementsBacked'
    <3> SUFFICES ASSUME NEW v \in Workers, job'[v].pc = "row"
                 PROVE  \E i \in EntriesBy("bank", job[v].txn)' :
                            history'[job'[v].txn][i].to = job'[v].to
      BY DEF AnnouncementsBacked
    <3>1. CASE v = w
      BY <1>2, <1>3, <1>4, <2>1, <3>1
    <3>2. CASE v # w
      <4>1. job'[v] = job[v]
        BY <1>2, <3>2
      <4>2. PICK u \in Txns : u = job[v].txn
        BY <1>1, <4>1 DEF IInv, JobSound
      <4>3. \E i \in EntriesBy("bank", u) : history[u][i].to = job[v].to
        BY <4>1, <4>2 DEF NotifyInv, AnnouncementsBacked
      <4>4. \E i \in EntriesBy("bank", u)' : history'[u][i].to = job[v].to
        BY <1>1, <1>5, <4>3, StillBacked
      <4> QED
        BY <4>1, <4>2, <4>4
    <3> QED
      BY <3>1, <3>2
  <2> QED
    BY <1>6, <1>7, <1>8, <2>4, <2>7, <2>9, <2>10
<1>10. CASE job[w].ret # "row"
  <2>1. EntriesBy("bank", t)' = EntriesBy("bank", t)
    BY <1>2, <1>3, <1>10 DEF EntriesBy
  <2>2. At("row", t)' = At("row", t)
    BY <1>2, <1>10 DEF At
  <2>3. IsFiniteSet(At("row", t))' /\ Counts(t)'
    BY <1>1, <2>1, <2>2 DEF NotifyInv, Counts
  <2>4. AnnouncementsBacked'
    <3> SUFFICES ASSUME NEW v \in Workers, job'[v].pc = "row"
                 PROVE  \E i \in EntriesBy("bank", job[v].txn)' :
                            history'[job'[v].txn][i].to = job'[v].to
      BY DEF AnnouncementsBacked
    <3>1. v # w /\ job'[v] = job[v]
      BY <1>2, <1>10
    <3>2. PICK u \in Txns : u = job[v].txn
      BY <1>1, <3>1 DEF IInv, JobSound
    <3>3. \E i \in EntriesBy("bank", u) : history[u][i].to = job[v].to
      BY <3>1, <3>2 DEF NotifyInv, AnnouncementsBacked
    <3>4. \E i \in EntriesBy("bank", u)' : history'[u][i].to = job[v].to
      BY <1>1, <1>5, <3>3, StillBacked
    <3> QED
      BY <3>1, <3>2, <3>4
  <2> QED
    BY <1>6, <1>7, <1>8, <2>3, <2>4
<1> QED
  BY <1>2, <1>9, <1>10

\* The delivery row takes the announcer's place, and its creator will queue it.
LEMMA DeliveryNotify ==
    ASSUME NotifyInv, NEW w \in Workers, CreateDelivery(w)
    PROVE  /\ \A t \in Txns :
                  /\ IsFiniteSet(At("row", t))' /\ Counts(t)' /\ RowsBacked(t)'
                  /\ (Cardinality(Stranded(t)) <= aborts)'
           /\ AnnouncementsBacked'
<1>1. /\ IInv /\ UNCHANGED <<history, aborts>> /\ job[w] \in Job /\ job[w].pc = "row"
      /\ job[w].to \in Status /\ rows \in [Txns -> Seq(Delivery)]
  BY DEF NotifyInv, IInv, TypeOK, JobSound, CreateDelivery
<1>2. PICK t \in Txns : t = job[w].txn
  BY <1>1 DEF IInv, JobSound
<1> DEFINE d == [status |-> job[w].to, queued |-> FALSE]
           j == [job[w] EXCEPT !.pc = "enqueue", !.row = Len(rows[t]) + 1]
<1>3. rows' = [rows EXCEPT ![t] = Append(rows[t], d)] /\ Goto(w, j)
  BY <1>2 DEF CreateDelivery
<1>4. d \in Delivery /\ d.status = job[w].to
  BY <1>1 DEF Delivery
<1>5. j.pc = "enqueue" /\ j.txn = t /\ j.row = Len(rows[t]) + 1
  BY <1>1, <1>2 DEF Job
<1> HIDE DEF d, j
<1>6. job'[w] = j /\ \A v \in Workers : v # w => job'[v] = job[v]
  BY <1>1, <1>3, Moved
<1>7. /\ rows'[t] = Append(rows[t], d)
      /\ \A u \in Txns : u # t => rows'[u] = rows[u]
  BY <1>1, <1>3
<1>8. /\ Len(rows[t]) \in Nat /\ DOMAIN rows[t] = 1..Len(rows[t])
      /\ DOMAIN rows'[t] = 1..(Len(rows[t]) + 1)
      /\ \A i \in 1..Len(rows[t]) : rows'[t][i] = rows[t][i]
      /\ rows'[t][Len(rows[t]) + 1] = d
      /\ Len(rows'[t]) = Len(rows[t]) + 1
  <2>1. PICK s \in Seq(Delivery) : s = rows[t]
    BY <1>1
  <2>2. Len(Append(s, d)) = Len(s) + 1
    BY <1>4
  <2> QED
    BY <1>4, <1>7, <2>1, <2>2, AppendedEntry
<1>9. \E i \in EntriesBy("bank", t) : history[t][i].to = d.status
  BY <1>1, <1>2, <1>4 DEF NotifyInv, AnnouncementsBacked
<1>10. ASSUME NEW u \in Txns, u # t
       PROVE  /\ IsFiniteSet(At("row", u))' /\ Counts(u)' /\ RowsBacked(u)'
              /\ (Cardinality(Stranded(u)) <= aborts)'
  <2>1. At("row", u)' = At("row", u) /\ Stranded(u)' \in SUBSET Stranded(u)
    BY <1>2, <1>5, <1>6, <1>7, <1>10, SameAnnouncers
  <2> QED
    BY <1>1, <1>7, <1>10, <2>1, SameCounts
<1>11. EntriesBy("bank", t)' = EntriesBy("bank", t)
  BY <1>1 DEF EntriesBy
<1>12. IsFiniteSet(At("row", t))' /\ Counts(t)'
  <2>1. At("row", t)' = At("row", t) \ {w} /\ w \in At("row", t)
    BY <1>1, <1>2, <1>5, <1>6 DEF At
  <2>2. PICK A, B : A = At("row", t) /\ B = At("row", t)'
    OBVIOUS
  <2>3. IsFiniteSet(A) /\ Cardinality(A) \in Nat
    BY <2>2, Countable DEF NotifyInv
  <2>4. IsFiniteSet(B) /\ Cardinality(B) = Cardinality(A) - 1
    BY <2>1, <2>2, <2>3, FS_RemoveElement
  <2>5. Len(rows'[t]) + Cardinality(B) = Len(rows[t]) + Cardinality(A)
    BY <1>8, <2>3, <2>4
  <2>6. Counts(t)
    BY DEF NotifyInv
  <2> QED
    BY <1>1, <1>11, <2>2, <2>4, <2>5, <2>6 DEF Counts
<1>13. RowsBacked(t)'
  <2> SUFFICES ASSUME NEW i \in DOMAIN rows'[t]
               PROVE  \E k \in EntriesBy("bank", t) :
                          history[t][k].to = rows'[t][i].status
    BY <1>1, <1>11 DEF RowsBacked
  <2>1. CASE i \in DOMAIN rows[t]
    BY <1>8, <2>1 DEF NotifyInv, RowsBacked
  <2>2. CASE i \notin DOMAIN rows[t]
    <3>1. rows'[t][i] = d
      BY <1>8, <2>2
    <3> QED
      BY <1>9, <3>1
  <2> QED
    BY <2>1, <2>2
<1>14. Stranded(t)' \in SUBSET Stranded(t)
  <2> SUFFICES ASSUME NEW i, i \in Stranded(t)' PROVE i \in Stranded(t)
    OBVIOUS
  <2>1. /\ i \in DOMAIN rows'[t] /\ ~rows'[t][i].queued
        /\ \A v \in Workers : job'[v].pc = "enqueue" /\ job'[v].txn = t => job'[v].row # i
    BY DEF Stranded, At
  <2>2. i # Len(rows[t]) + 1
    BY <1>5, <1>6, <2>1
  <2>3. i \in DOMAIN rows[t] /\ ~rows[t][i].queued
    BY <1>8, <2>1, <2>2
  <2>4. \A v \in Workers : job[v].pc = "enqueue" /\ job[v].txn = t => job[v].row # i
    BY <1>1, <1>6, <2>1
  <2> QED
    BY <2>3, <2>4 DEF Stranded, At
<1>15. (Cardinality(Stranded(t)) <= aborts)'
  <2>1. PICK B, C : B = Stranded(t) /\ C = Stranded(t)'
    OBVIOUS
  <2>2. /\ IsFiniteSet(B) /\ Cardinality(B) \in Nat /\ Cardinality(B) <= aborts
        /\ aborts \in Nat
    BY <2>1, Countable DEF NotifyInv
  <2>3. Cardinality(C) \in Nat /\ Cardinality(C) <= Cardinality(B)
    BY <1>14, <2>1, <2>2, Fewer
  <2>4. Cardinality(C) <= aborts'
    BY <1>1, <2>2, <2>3
  <2> QED
    BY <2>1, <2>4
<1>16. AnnouncementsBacked'
  <2>1. \A v \in Workers : job'[v].pc = "row" => job'[v] = job[v]
    BY <1>5, <1>6
  <2> QED
    BY <1>1, <2>1 DEF NotifyInv, AnnouncementsBacked, EntriesBy
<1> QED
  BY <1>10, <1>12, <1>13, <1>15, <1>16

\* Queueing marks the creator's own row and nothing else.
LEMMA EnqueueNotify ==
    ASSUME NotifyInv, NEW w \in Workers, Enqueue(w)
    PROVE  /\ \A t \in Txns :
                  /\ IsFiniteSet(At("row", t))' /\ Counts(t)' /\ RowsBacked(t)'
                  /\ (Cardinality(Stranded(t)) <= aborts)'
           /\ AnnouncementsBacked'
<1>1. /\ IInv /\ UNCHANGED <<history, aborts>> /\ job[w] \in Job
      /\ job[w].pc = "enqueue" /\ rows \in [Txns -> Seq(Delivery)]
  BY DEF NotifyInv, IInv, TypeOK, Enqueue
<1>2. PICK t \in Txns, r \in Nat : t = job[w].txn /\ r = job[w].row
  BY <1>1 DEF IInv, JobSound, Job
<1>3. /\ job'[w].pc = "ok"
      /\ \A v \in Workers : v # w => job'[v] = job[v]
  <2>1. Goto(w, [job[w] EXCEPT !.pc = "ok"])
    BY DEF Enqueue
  <2>2. [job[w] EXCEPT !.pc = "ok"].pc = "ok"
    BY <1>1 DEF Job
  <2> QED
    BY <1>1, <2>1, <2>2, Moved
<1>4. PICK s \in Seq(Delivery) : s = rows[t]
  BY <1>1
<1>5. /\ rows'[t] = [s EXCEPT ![r].queued = TRUE]
      /\ \A u \in Txns : u # t => rows'[u] = rows[u]
  BY <1>1, <1>2, <1>4 DEF Enqueue
<1>6. /\ DOMAIN rows'[t] = DOMAIN rows[t]
      /\ Len(rows'[t]) = Len(rows[t])
      /\ \A i \in DOMAIN rows[t] : rows'[t][i].status = rows[t][i].status
      /\ \A i \in DOMAIN rows[t] : i # r => rows'[t][i] = rows[t][i]
      /\ r \in DOMAIN rows[t] => rows'[t][r].queued
  <2>1. rows'[t] \in Seq(Delivery)
    BY <1>5, MarkQueued
  <2>2. DOMAIN s = 1..Len(s) /\ \A i \in 1..Len(s) : s[i] \in Delivery
    OBVIOUS
  <2>3. DOMAIN rows'[t] = DOMAIN s
    BY <1>5
  <2>4. DOMAIN rows'[t] = 1..Len(rows'[t]) /\ Len(rows'[t]) \in Nat /\ Len(s) \in Nat
    BY <2>1
  <2>5. Len(rows'[t]) = Len(s)
    BY <2>2, <2>3, <2>4
  <2>6. \A i \in DOMAIN s : i # r => rows'[t][i] = s[i]
    BY <1>5
  <2>7. ASSUME r \in DOMAIN s
        PROVE  rows'[t][r].queued /\ rows'[t][r].status = s[r].status
    <3>1. rows'[t][r] = [s[r] EXCEPT !.queued = TRUE]
      BY <1>5, <2>7
    <3>2. s[r] \in Delivery
      BY <2>2, <2>7
    <3> QED
      BY <3>1, <3>2 DEF Delivery
  <2> QED
    BY <1>4, <2>3, <2>5, <2>6, <2>7
<1>7. ASSUME NEW u \in Txns, u # t
      PROVE  /\ IsFiniteSet(At("row", u))' /\ Counts(u)' /\ RowsBacked(u)'
             /\ (Cardinality(Stranded(u)) <= aborts)'
  <2>1. At("row", u)' = At("row", u) /\ Stranded(u)' \in SUBSET Stranded(u)
    BY <1>2, <1>3, <1>5, <1>7, SameAnnouncers
  <2> QED
    BY <1>1, <1>5, <1>7, <2>1, SameCounts
<1>8. At("row", t)' = At("row", t) /\ EntriesBy("bank", t)' = EntriesBy("bank", t)
  BY <1>1, <1>3 DEF At, EntriesBy
<1>9. IsFiniteSet(At("row", t))' /\ Counts(t)'
  BY <1>1, <1>6, <1>8 DEF NotifyInv, Counts
<1>10. RowsBacked(t)'
  <2>1. RowsBacked(t)
    BY DEF NotifyInv
  <2> QED
    BY <1>1, <1>6, <1>8, <2>1 DEF RowsBacked
<1>11. Stranded(t)' \in SUBSET Stranded(t)
  <2> SUFFICES ASSUME NEW i, i \in Stranded(t)' PROVE i \in Stranded(t)
    OBVIOUS
  <2>1. /\ i \in DOMAIN rows'[t] /\ ~rows'[t][i].queued
        /\ \A v \in Workers : job'[v].pc = "enqueue" /\ job'[v].txn = t => job'[v].row # i
    BY DEF Stranded, At
  <2>2. i # r /\ i \in DOMAIN rows[t] /\ ~rows[t][i].queued
    BY <1>6, <2>1
  <2>3. \A v \in Workers : job[v].pc = "enqueue" /\ job[v].txn = t => job[v].row # i
    BY <1>2, <1>3, <2>1, <2>2
  <2> QED
    BY <2>2, <2>3 DEF Stranded, At
<1>12. (Cardinality(Stranded(t)) <= aborts)'
  <2>1. PICK B, C : B = Stranded(t) /\ C = Stranded(t)'
    OBVIOUS
  <2>2. /\ IsFiniteSet(B) /\ Cardinality(B) \in Nat /\ Cardinality(B) <= aborts
        /\ aborts \in Nat
    BY <2>1, Countable DEF NotifyInv
  <2>3. Cardinality(C) \in Nat /\ Cardinality(C) <= Cardinality(B)
    BY <1>11, <2>1, <2>2, Fewer
  <2>4. Cardinality(C) <= aborts'
    BY <1>1, <2>2, <2>3
  <2> QED
    BY <2>1, <2>4
<1>13. AnnouncementsBacked'
  <2>1. \A v \in Workers : job'[v].pc = "row" => job'[v] = job[v]
    BY <1>3
  <2> QED
    BY <1>1, <2>1 DEF NotifyInv, AnnouncementsBacked, EntriesBy
<1> QED
  BY <1>7, <1>9, <1>10, <1>12, <1>13

\* A handler that stops leaves at most one outcome unannounced and at most one row
\* unqueued.
LEMMA AbortNotify ==
    ASSUME NotifyInv, NEW w \in Workers, Abort(w)
    PROVE  /\ \A t \in Txns :
                  /\ IsFiniteSet(At("row", t))' /\ Counts(t)' /\ RowsBacked(t)'
                  /\ (Cardinality(Stranded(t)) <= aborts)'
           /\ AnnouncementsBacked'
<1>1. IInv /\ UNCHANGED <<history, rows>> /\ aborts \in Nat /\ aborts' = aborts + 1
  BY DEF NotifyInv, IInv, TypeOK, Abort
<1>2. /\ job'[w].pc = "idle"
      /\ \A v \in Workers : v # w => job'[v] = job[v]
  BY <1>1, Moved DEF Abort, Idle
<1>3. ASSUME NEW t \in Txns
      PROVE  /\ IsFiniteSet(At("row", t))' /\ Counts(t)' /\ RowsBacked(t)'
             /\ (Cardinality(Stranded(t)) <= aborts)'
  <2>1. EntriesBy("bank", t)' = EntriesBy("bank", t)
    BY <1>1 DEF EntriesBy
  <2>2. RowsBacked(t)'
    <3>1. RowsBacked(t)
      BY DEF NotifyInv
    <3> QED
      BY <1>1, <2>1, <3>1 DEF RowsBacked
  <2>3. PICK A, B : A = At("row", t) /\ B = At("row", t)'
    OBVIOUS
  <2>4. /\ IsFiniteSet(A) /\ Cardinality(A) \in Nat
        /\ Cardinality(EntriesBy("bank", t)) \in Nat /\ Len(rows[t]) \in Nat
    BY <2>3, Countable DEF NotifyInv
  <2>5. B \in SUBSET A /\ A \in SUBSET (B \cup {w})
    BY <1>2, <2>3 DEF At
  <2>6. IsFiniteSet(B) /\ Cardinality(B) \in Nat /\ Cardinality(B) <= Cardinality(A)
    BY <2>4, <2>5, Fewer
  <2>7. Cardinality(A) <= Cardinality(B) + 1
    BY <2>5, <2>6, OneMore
  <2>8. /\ Len(rows[t]) + Cardinality(A) <= Cardinality(EntriesBy("bank", t))
        /\ Cardinality(EntriesBy("bank", t)) <= Len(rows[t]) + Cardinality(A) + aborts
    BY <2>3 DEF NotifyInv, Counts
  <2>9. /\ Len(rows[t]) + Cardinality(B) <= Cardinality(EntriesBy("bank", t))
        /\ Cardinality(EntriesBy("bank", t)) <= Len(rows[t]) + Cardinality(B) + aborts'
    BY <1>1, <2>4, <2>6, <2>7, <2>8
  <2>10. IsFiniteSet(At("row", t))' /\ Counts(t)'
    BY <1>1, <2>1, <2>3, <2>6, <2>9 DEF Counts
  <2>11. (Cardinality(Stranded(t)) <= aborts)'
    <3>1. PICK z : z = job[w].row
      OBVIOUS
    <3>2. Stranded(t)' \in SUBSET (Stranded(t) \cup {z})
      <4> SUFFICES ASSUME NEW i, i \in Stranded(t)', i # z PROVE i \in Stranded(t)
        OBVIOUS
      <4>1. /\ i \in DOMAIN rows[t] /\ ~rows[t][i].queued
            /\ \A v \in Workers :
                   job'[v].pc = "enqueue" /\ job'[v].txn = t => job'[v].row # i
        BY <1>1 DEF Stranded, At
      <4>2. \A v \in Workers : job[v].pc = "enqueue" /\ job[v].txn = t => job[v].row # i
        BY <1>2, <3>1, <4>1
      <4> QED
        BY <4>1, <4>2 DEF Stranded, At
    <3>3. PICK C, D : C = Stranded(t) /\ D = Stranded(t)'
      OBVIOUS
    <3>4. IsFiniteSet(C) /\ Cardinality(C) \in Nat /\ Cardinality(C) <= aborts
      BY <3>3, Countable DEF NotifyInv
    <3>5. Cardinality(D) \in Nat /\ Cardinality(D) <= Cardinality(C) + 1
      BY <3>2, <3>3, <3>4, OneMore
    <3>6. Cardinality(D) <= aborts'
      BY <1>1, <3>4, <3>5
    <3> QED
      BY <3>3, <3>6
  <2> QED
    BY <2>2, <2>10, <2>11
<1>4. AnnouncementsBacked'
  <2>1. \A v \in Workers : job'[v].pc = "row" => job'[v] = job[v]
    BY <1>2
  <2> QED
    BY <1>1, <2>1 DEF NotifyInv, AnnouncementsBacked, EntriesBy
<1> QED
  BY <1>3, <1>4

LEMMA NextNotify == NotifyInv /\ [Next]_vars => NotifyInv'
<1> SUFFICES ASSUME NotifyInv, [Next]_vars PROVE NotifyInv'
  OBVIOUS
<1>1. IInv /\ IInv'
  BY NextIInv DEF NotifyInv
<1> DEFINE Kept == /\ \A t \in Txns :
                          /\ IsFiniteSet(At("row", t))' /\ Counts(t)' /\ RowsBacked(t)'
                          /\ (Cardinality(Stranded(t)) <= aborts)'
                   /\ AnnouncementsBacked'
<1>2. ASSUME Kept PROVE NotifyInv'
  BY <1>1, <1>2 DEF NotifyInv
<1>3. CASE Aside
  <2>1. /\ UNCHANGED <<history, rows, aborts>>
        /\ \A v \in Workers :
               job[v].pc \in {"row", "enqueue"} \/ job'[v].pc \in {"row", "enqueue"} =>
                   job'[v] = job[v]
    BY <1>3 DEF Aside, Owing
  <2>2. Kept
    BY <2>1, QuietNotify
  <2> QED
    BY <1>2, <2>2
<1>4. ASSUME NEW w \in Workers,
             (StartCreate(w) /\ UNCHANGED aborts) \/ Update(w)
      PROVE  NotifyInv'
  <2>1. UNCHANGED <<history, rows, aborts>>
    BY <1>4 DEF StartCreate, Update
  <2>2. /\ job[w].pc \in {"idle", "update"} /\ job'[w].pc = "history"
        /\ \A v \in Workers : v # w => job'[v] = job[v]
    BY <1>1, <1>4, CreateFacts, UpdateFacts
  <2>3. \A v \in Workers :
            job[v].pc \in {"row", "enqueue"} \/ job'[v].pc \in {"row", "enqueue"} =>
                job'[v] = job[v]
    BY <2>2
  <2>4. Kept
    BY <2>1, <2>3, QuietNotify
  <2> QED
    BY <1>2, <2>4
<1>5. ASSUME NEW w \in Workers,
             Record(w) \/ CreateDelivery(w) \/ Enqueue(w) \/ Abort(w)
      PROVE  NotifyInv'
  <2>1. Kept
    BY <1>5, RecordNotify, DeliveryNotify, EnqueueNotify, AbortNotify
  <2> QED
    BY <1>2, <2>1
<1> QED
  BY <1>1, <1>3, <1>4, <1>5, StepCases

LEMMA InitNotify == Init => NotifyInv
<1> SUFFICES ASSUME Init PROVE NotifyInv
  OBVIOUS
<1>1. ASSUME NEW t \in Txns
      PROVE  /\ At("row", t) = {} /\ EntriesBy("bank", t) = {} /\ Stranded(t) = {}
             /\ Len(rows[t]) = 0 /\ DOMAIN rows[t] = {} /\ aborts = 0
  BY DEF Init, Idle, At, EntriesBy, Stranded
<1>2. IsFiniteSet({}) /\ Cardinality({}) = 0
  BY FS_EmptySet
<1>3. AnnouncementsBacked
  BY DEF Init, Idle, AnnouncementsBacked
<1>4. ASSUME NEW t \in Txns
      PROVE  /\ IsFiniteSet(At("row", t)) /\ Counts(t)
             /\ Cardinality(Stranded(t)) <= aborts /\ RowsBacked(t)
  <2>1. Len(rows[t]) = 0 /\ aborts = 0 /\ DOMAIN rows[t] = {}
    BY <1>1
  <2>2. Cardinality(EntriesBy("bank", t)) = 0 /\ Cardinality(At("row", t)) = 0
    BY <1>1, <1>2
  <2>3. Counts(t)
    BY <2>1, <2>2 DEF Counts
  <2>4. RowsBacked(t)
    BY <2>1 DEF RowsBacked
  <2>5. Cardinality(Stranded(t)) = 0 /\ IsFiniteSet(At("row", t))
    BY <1>1, <1>2
  <2> QED
    BY <2>1, <2>3, <2>4, <2>5
<1> QED
  BY <1>3, <1>4, InitIInv DEF NotifyInv

\* The merchant is told of a bank outcome only after it is in the history and at most
\* once for each history row the bank caused, and no more notifications are missing
\* than handlers stopped half-way.
THEOREM NotificationsAccounted == Spec => []NotifyAccounting
<1>1. NotifyInv => NotifyAccounting
  BY NotifyParts DEF NotifyInv
<1> QED
  BY <1>1, InitNotify, NextNotify, PTL DEF Spec

----------------------------------------------------------------------------------
(* The moves made once. *)

\* What makes a move happen once: it leads out of a set that a row starts in and that
\* no edge of the table leads back into.
OneWay(inside, moves) ==
    /\ Unsettled \subseteq inside
    /\ <<NoStatus, "PENDING">> \notin moves
    /\ \A from \in Status : \A to \in TRANSACTION_STATE_MACHINE[from] :
           /\ <<from, to>> \in moves => from \in inside /\ to \notin inside
           /\ to \in inside => from \in inside

LEMMA OneWays ==
    /\ OneWay(Unsettled, Settlements)
    /\ OneWay(Unrefunded, Refunds)
<1>1. OneWay(Unsettled, Settlements)
  BY DEF OneWay, Unsettled, Settlements, TRANSACTION_STATE_MACHINE, Status, NoStatus
<1>2. OneWay(Unrefunded, Refunds)
  BY DEF OneWay, Unsettled, Unrefunded, Refunds, TRANSACTION_STATE_MACHINE, Status, NoStatus
<1> QED
  BY <1>1, <1>2

\* Nothing new is told or about to be.
LEMMA OnceStays ==
    ASSUME NEW inside, NEW moves, NEW t, MadeOnce(inside, moves, t),
           status'[t] \in inside => status[t] \in inside,
           Told(moves, t)' = Told(moves, t),
           Telling(moves, t)' \in SUBSET Telling(moves, t)
    PROVE  MadeOnce(inside, moves, t)'
<1>1. PICK T, U, A, B : /\ T = Told(moves, t) /\ U = Told(moves, t)'
                        /\ A = Telling(moves, t) /\ B = Telling(moves, t)'
  OBVIOUS
<1>2. /\ status[t] \in inside => T = {} /\ A = {}
      /\ T # {} => A = {}
      /\ \A i, j \in T : i = j
      /\ \A v, w \in A : v = w
  BY <1>1 DEF MadeOnce
<1>3. U = T /\ B \in SUBSET A
  BY <1>1
<1>4. /\ status'[t] \in inside => U = {} /\ B = {}
      /\ U # {} => B = {}
      /\ \A i, j \in U : i = j
      /\ \A v, w \in B : v = w
  BY <1>2, <1>3
<1> QED
  BY <1>1, <1>4 DEF MadeOnce

\* A step that leaves t's history and status alone and brings nobody to its record.
LEMMA OnceUntouched ==
    ASSUME NEW inside, NEW moves, NEW t, MadeOnce(inside, moves, t),
           status'[t] = status[t], history'[t] = history[t],
           \A v \in Workers : job'[v].pc = "history" /\ job'[v].txn = t => job'[v] = job[v]
    PROVE  MadeOnce(inside, moves, t)'
<1>1. Told(moves, t)' = Told(moves, t)
  BY DEF Told
<1>2. Telling(moves, t)' \in SUBSET Telling(moves, t)
  BY DEF Telling, At
<1> QED
  BY <1>1, <1>2, OnceStays

LEMMA OnceCreate ==
    ASSUME IInv, NEW inside, NEW moves, OneWay(inside, moves),
           NEW t \in Txns, MadeOnce(inside, moves, t),
           NEW w \in Workers, StartCreate(w)
    PROVE  MadeOnce(inside, moves, t)'
<1>1. PICK u \in Txns :
          /\ status[u] = NoStatus
          /\ status' = [status EXCEPT ![u] = "PENDING"]
          /\ job'[w].pc = "history" /\ job'[w].txn = u
          /\ job'[w].seen = NoStatus /\ job'[w].to = "PENDING"
          /\ \A v \in Workers : v # w => job'[v] = job[v]
  BY CreateFacts
<1>2. UNCHANGED history /\ status \in [Txns -> Status \cup {NoStatus}]
  BY DEF StartCreate, IInv, TypeOK
<1>3. CASE u = t
  <2>1. Told(moves, t)' = Told(moves, t)
    BY <1>2 DEF Told
  <2>2. Telling(moves, t)' \in SUBSET Telling(moves, t)
    <3> SUFFICES ASSUME NEW v \in Telling(moves, t)' PROVE v \in Telling(moves, t)
      OBVIOUS
    <3>1. v # w
      BY <1>1 DEF Telling, OneWay
    <3> QED
      BY <1>1, <3>1 DEF Telling, At
  <2>3. status[t] \in inside
    BY <1>1, <1>3 DEF OneWay, Unsettled
  <2> QED
    BY <2>1, <2>2, <2>3, OnceStays
<1>4. CASE u # t
  BY <1>1, <1>2, <1>4, OnceUntouched
<1> QED
  BY <1>3, <1>4

\* The write of a transition that did not race makes the move, or another one.
LEMMA OnceUpdate ==
    ASSUME IInv, NEW inside, NEW moves, OneWay(inside, moves),
           NEW t \in Txns, t \notin raced, MadeOnce(inside, moves, t),
           NEW w \in Workers, Update(w)
    PROVE  MadeOnce(inside, moves, t)'
<1>1. PICK u \in Txns, seen \in Status, to \in Status :
          /\ job[w].pc = "update" /\ job[w].txn = u
          /\ job[w].seen = seen /\ job[w].to = to
          /\ to \in TRANSACTION_STATE_MACHINE[seen]
          /\ status' = [status EXCEPT ![u] = to]
          /\ job'[w].pc = "history" /\ job'[w].txn = u
          /\ job'[w].seen = seen /\ job'[w].to = to
          /\ \A v \in Workers : v # w => job'[v] = job[v]
  BY UpdateFacts
<1>2. UNCHANGED history /\ status \in [Txns -> Status \cup {NoStatus}]
  BY DEF Update, IInv, TypeOK
<1>3. Told(moves, t)' = Told(moves, t)
  BY <1>2 DEF Told
<1>4. CASE u = t
  <2>1. status[t] = seen /\ status'[t] = to
    BY <1>1, <1>2, <1>4 DEF IInv, WindowSound
  <2>2. CASE <<seen, to>> \in moves
    <3>1. seen \in inside /\ to \notin inside
      BY <1>1, <2>2 DEF OneWay
    <3>2. Told(moves, t) = {} /\ Telling(moves, t) = {}
      BY <2>1, <3>1 DEF MadeOnce
    <3>3. \A v \in Telling(moves, t)' : v = w
      BY <1>1, <3>2 DEF Telling, At
    <3> QED
      BY <1>3, <2>1, <3>1, <3>2, <3>3 DEF MadeOnce
  <2>3. CASE <<seen, to>> \notin moves
    <3>1. Telling(moves, t)' \in SUBSET Telling(moves, t)
      BY <1>1, <2>3 DEF Telling, At
    <3>2. to \in inside => seen \in inside
      BY <1>1 DEF OneWay
    <3> QED
      BY <1>3, <2>1, <3>1, <3>2, OnceStays
  <2> QED
    BY <2>2, <2>3
<1>5. CASE u # t
  BY <1>1, <1>2, <1>5, OnceUntouched
<1> QED
  BY <1>4, <1>5

\* The history row takes the place of the handler about to write it.
LEMMA OnceRecord ==
    ASSUME IInv, NEW inside, NEW moves, NEW t \in Txns, MadeOnce(inside, moves, t),
           NEW w \in Workers, Record(w)
    PROVE  MadeOnce(inside, moves, t)'
<1>1. PICK u \in Txns, e \in Entry :
          /\ job[w].pc = "history" /\ job[w].txn = u
          /\ job[w].ret \in {"ok", "row", "scan", "next"}
          /\ e.from = job[w].seen /\ e.to = job[w].to
          /\ history'[u] = Append(history[u], e)
          /\ \A x \in Txns : x # u => history'[x] = history[x]
          /\ job'[w].pc = job[w].ret
          /\ \A v \in Workers : v # w => job'[v] = job[v]
  BY RecordFacts
<1>2. UNCHANGED status /\ history \in [Txns -> Seq(Entry)]
  BY DEF Record, IInv, TypeOK
<1>3. job'[w].pc # "history"
  BY <1>1
<1>4. CASE u = t
  <2>1. PICK s \in Seq(Entry) : s = history[t]
    BY <1>2
  <2>2. PICK n \in Nat : n = Len(s) + 1
    BY <2>1
  <2>3. /\ DOMAIN s = 1..Len(s) /\ Len(s) \in Nat
        /\ DOMAIN history'[t] = DOMAIN s \cup {n} /\ n \notin DOMAIN s
        /\ \A i \in DOMAIN s : history'[t][i] = s[i]
        /\ history'[t][n] = e
    BY <1>1, <1>4, <2>1, <2>2, AppendedEntry
  <2>4. CASE <<job[w].seen, job[w].to>> \in moves
    <3>1. w \in Telling(moves, t)
      BY <1>1, <1>4, <2>4 DEF Telling, At
    <3>2. Told(moves, t) = {} /\ status[t] \notin inside
      BY <3>1 DEF MadeOnce
    <3>3. \A i \in Told(moves, t)' : i = n
      BY <1>1, <2>1, <2>3, <3>2 DEF Told
    <3>4. Telling(moves, t)' = {}
      <4>1. \A v \in Telling(moves, t) : v = w
        BY <3>1 DEF MadeOnce
      <4>2. \A v \in Telling(moves, t)' : v # w /\ v \in Telling(moves, t)
        BY <1>1, <1>3 DEF Telling, At
      <4> QED
        BY <4>1, <4>2
    <3> QED
      BY <1>2, <3>2, <3>3, <3>4 DEF MadeOnce
  <2>5. CASE <<job[w].seen, job[w].to>> \notin moves
    <3>1. Told(moves, t)' = Told(moves, t)
      <4>1. <<e.from, e.to>> \notin moves
        BY <1>1, <2>5
      <4>2. ASSUME NEW i \in DOMAIN s
            PROVE  i \in DOMAIN history'[t] /\ history'[t][i] = history[t][i]
        BY <2>1, <2>3
      <4>3. \A i \in DOMAIN history'[t] : i \in DOMAIN s \/ history'[t][i] = e
        BY <2>3
      <4>4. Told(moves, t)' \in SUBSET Told(moves, t)
        BY <2>1, <4>1, <4>2, <4>3 DEF Told
      <4>5. Told(moves, t) \in SUBSET Told(moves, t)'
        BY <2>1, <4>2 DEF Told
      <4> QED
        BY <4>4, <4>5
    <3>2. Telling(moves, t)' \in SUBSET Telling(moves, t)
      BY <1>1, <1>3 DEF Telling, At
    <3> QED
      BY <1>2, <3>1, <3>2, OnceStays
  <2> QED
    BY <2>4, <2>5
<1>5. CASE u # t
  BY <1>1, <1>2, <1>3, <1>5, OnceUntouched
<1> QED
  BY <1>4, <1>5

\* Once raced, always raced.
LEMMA RacedGrows == ASSUME IInv, [Next]_vars PROVE raced \subseteq raced'
<1>1. ASSUME NEW w \in Workers,
             \/ StartCreate(w) \/ Update(w) \/ Record(w)
             \/ CreateDelivery(w) \/ Enqueue(w) \/ Abort(w)
      PROVE  raced' = raced
  BY <1>1 DEF StartCreate, Update, Record, CreateDelivery, Enqueue, Abort
<1> QED
  BY <1>1, StepCases DEF Aside

LEMMA OnceStep ==
    ASSUME IInv, [Next]_vars, NEW inside, NEW moves, OneWay(inside, moves),
           NEW t \in Txns, t \notin raced', MadeOnce(inside, moves, t)
    PROVE  MadeOnce(inside, moves, t)'
<1>1. CASE Aside
  BY <1>1, OnceUntouched DEF Aside, Owing
<1>2. t \notin raced
  BY RacedGrows
<1>3. ASSUME NEW w \in Workers, CreateDelivery(w) \/ Enqueue(w) \/ Abort(w)
      PROVE  MadeOnce(inside, moves, t)'
  <2>1. UNCHANGED <<status, history>>
    BY <1>3 DEF CreateDelivery, Enqueue, Abort
  <2>2. \A v \in Workers : v # w => job'[v] = job[v]
    BY <1>3, Moved DEF CreateDelivery, Enqueue, Abort
  <2>3. job'[w].pc # "history"
    <3>1. job[w] \in Job /\ job \in [Workers -> Job]
      BY DEF IInv, TypeOK
    <3>2. CASE CreateDelivery(w)
      BY <3>1, <3>2 DEF CreateDelivery, Goto, Job
    <3>3. CASE Enqueue(w)
      BY <3>1, <3>3 DEF Enqueue, Goto, Job
    <3>4. CASE Abort(w)
      BY <3>1, <3>4 DEF Abort, Goto, Idle
    <3> QED
      BY <1>3, <3>2, <3>3, <3>4
  <2> QED
    BY <2>1, <2>2, <2>3, OnceUntouched
<1> QED
  BY <1>1, <1>2, <1>3, OnceCreate, OnceUpdate, OnceRecord, StepCases

\* Two elements of a set are one only if it has one element.
LEMMA AtMostOne ==
    ASSUME NEW S, \A x, y \in S : x = y
    PROVE  Cardinality(S) \in Nat /\ Cardinality(S) <= 1
<1>1. CASE S = {}
  BY <1>1, FS_EmptySet
<1>2. CASE S # {}
  <2>1. PICK x : S = {x}
    BY <1>2
  <2>2. Cardinality({x}) = 1
    BY FS_Singleton
  <2> QED
    BY <2>1, <2>2
<1> QED
  BY <1>1, <1>2

\* A history row of the bank is one that leaves PENDING.
LEMMA BankSettles ==
    ASSUME IInv, NEW t \in Txns, NEW i \in EntriesBy("bank", t)
    PROVE  history[t][i].from = "PENDING"
<1>1. PICK e : e = history[t][i]
  OBVIOUS
<1>2. /\ e.by = "bank" /\ e.from \in held[t]
      /\ e.to \in TRANSACTION_STATE_MACHINE[e.from]
      /\ e.by = "refund" <=> e.to = "REFUNDED"
      /\ held[t] \in SUBSET Status
  BY <1>1 DEF IInv, TypeOK, HistorySound, EntriesBy
<1>3. e.from \in Status /\ e.to # "REFUNDED"
  BY <1>2
<1> QED
  BY <1>1, <1>2, <1>3 DEF TRANSACTION_STATE_MACHINE, Status

\* A transaction on which no two transitions overlapped leaves PENDING once, is refunded
\* once and is announced once, whatever callbacks, refunds and sweeps are sent for it.
THEOREM SettledOnce == Spec => []SettledOnceUnlessRaced
<1>1. Init => MovesOnce
  BY DEF Init, Idle, MovesOnce, MadeOnce, Told, Telling, At
<1>2. IInv /\ MovesOnce /\ [Next]_vars => MovesOnce'
  <2> SUFFICES ASSUME IInv, MovesOnce, [Next]_vars, NEW t \in Txns, t \notin raced'
               PROVE  /\ MadeOnce(Unsettled, Settlements, t)'
                      /\ MadeOnce(Unrefunded, Refunds, t)'
    BY DEF MovesOnce
  <2>1. t \notin raced
    BY RacedGrows
  <2>2. /\ MadeOnce(Unsettled, Settlements, t)
        /\ MadeOnce(Unrefunded, Refunds, t)
    BY <2>1 DEF MovesOnce
  <2> QED
    BY <2>2, OneWays, OnceStep
<1>3. NotifyInv /\ MovesOnce => SettledOnceUnlessRaced
  <2> SUFFICES ASSUME NotifyInv, MovesOnce, NEW t \in Txns \ raced
               PROVE  /\ Cardinality({i \in DOMAIN history[t] :
                                         history[t][i].from = "PENDING"}) <= 1
                      /\ Cardinality(EntriesBy("refund", t)) <= 1
                      /\ Len(rows[t]) <= 1
    BY DEF SettledOnceUnlessRaced
  <2>1. IInv /\ history[t] \in Seq(Entry)
    BY DEF NotifyInv, IInv, TypeOK
  <2>2. \A i \in DOMAIN history[t] : history[t][i] \in Entry
    BY <2>1
  <2>3. PICK P : P = {i \in DOMAIN history[t] : history[t][i].from = "PENDING"}
    OBVIOUS
  <2>4. \A i \in P : i \in Told(Settlements, t)
    BY <2>2, <2>3 DEF Told, Settlements, Entry
  <2>5. \A i, j \in P : i = j
    BY <2>4 DEF MovesOnce, MadeOnce
  <2>6. Cardinality(P) <= 1
    BY <2>5, AtMostOne
  <2>7. \A i \in EntriesBy("refund", t) : i \in Told(Refunds, t)
    BY <2>1, <2>2 DEF Told, Refunds, Entry, EntriesBy, IInv, HistorySound
  <2>8. \A i, j \in EntriesBy("refund", t) : i = j
    BY <2>7 DEF MovesOnce, MadeOnce
  <2>9. Cardinality(EntriesBy("refund", t)) <= 1
    BY <2>8, AtMostOne
  <2>10. \A i \in EntriesBy("bank", t) : i \in P
    BY <2>1, <2>3, BankSettles DEF EntriesBy
  <2>11. Cardinality(EntriesBy("bank", t)) <= 1
    BY <2>5, <2>10, AtMostOne
  <2>12. Len(rows[t]) + Cardinality(At("row", t)) <= Cardinality(EntriesBy("bank", t))
    BY DEF NotifyInv, Counts
  <2>13. Len(rows[t]) <= 1
    BY <2>11, <2>12, Countable
  <2> QED
    BY <2>3, <2>6, <2>9, <2>13
<1>4. NotifyInv => IInv
  BY DEF NotifyInv
<1> QED
  BY <1>1, <1>2, <1>3, <1>4, InitNotify, NextNotify, PTL DEF Spec
==================================================================================
