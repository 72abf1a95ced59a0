---------------------------- MODULE TransactionEngine ----------------------------
(***************************************************************************)
(* The Transaction State Engine: everything that reads or writes the status *)
(* of a transactions row, at the granularity of one database call.          *)
(*                                                                         *)
(* transitionStatus (transactions.service.ts) is three awaited calls with no *)
(* database transaction around them: findUnique, update, history.create.     *)
(* Every await hands the event loop to the other handlers, so the bank's     *)
(* callbacks, refunds, the expiry sweeps (the cron and the one in front of   *)
(* every dashboard query) and reconciliation interleave between them.        *)
(*                                                                         *)
(* A worker is one handler in flight.  A job says where the handler stands:  *)
(*   op    the handler                                                      *)
(*   pc    the database call it does next ("idle": no request;               *)
(*         "ok", "rejected": it is answering its caller)                     *)
(*   txn, to   the transition under way                                     *)
(*   seen  the status findUnique returned                                   *)
(*   ret   where the handler goes on after the transition                    *)
(*   todo  the rest of a sweep's list                                       *)
(*   row   the delivery row it created                                      *)
(***************************************************************************)
EXTENDS TransactionStateMachine, Naturals, Sequences, FiniteSets

CONSTANTS
    Txns,          \* transaction identifiers
    NoTxn,         \* "no transaction"
    Requests,      \* slots for HTTP requests in flight
    CronRuns,      \* slots for runs of the five-second cron in flight
    MaxRequests,   \* how many requests arrive in all (bound of the model)
    MaxAborts      \* how many handlers may stop half-way (bound of the model)

ASSUME NoTxnAssumption == NoTxn \notin Txns
ASSUME BoundsAssumption == MaxRequests \in Nat /\ MaxAborts \in Nat

Workers == Requests \cup CronRuns

\* The statuses the DTOs of the two bank endpoints admit (@IsIn).
BankStatus == {"PAID", "SUCCESS", "FAILED", "EXPIRED", "CANCELLED"}

VARIABLES
    status,     \* Txns -> the column transactions.status
    history,    \* Txns -> the transaction_histories rows, in insertion order
    rows,       \* Txns -> the webhook_deliveries rows, in insertion order
    overdue,    \* transactions whose expiredAt has passed
    job,        \* Workers -> what each handler is doing
    arrived,    \* how many requests have arrived
    aborts,     \* how many handlers stopped half-way
    held,       \* auxiliary: every status the row has held
    raced       \* auxiliary: transactions on which two transitions overlapped

vars == <<status, history, rows, overdue, job, arrived, aborts, held, raced>>

Ops == {"none", "create", "callback", "refund", "query", "cron", "reconcile"}

PCs == {"idle", "scan", "next", "find", "update", "history",
        "row", "enqueue", "ok", "rejected"}

\* What the reason column of a history row tells about its author.
Reasons == {"created", "bank", "refund", "expiry", "reconciliation"}

Job == [op : Ops, pc : PCs, txn : Txns \cup {NoTxn},
        to : Status \cup {NoStatus}, seen : Status \cup {NoStatus},
        ret : PCs, todo : SUBSET Txns, row : Nat]

Entry == [from : Status \cup {NoStatus}, to : Status, by : Reasons]

Delivery == [status : Status, queued : BOOLEAN]

Idle == [op |-> "none", pc |-> "idle", txn |-> NoTxn, to |-> NoStatus,
         seen |-> NoStatus, ret |-> "idle", todo |-> {}, row |-> 0]

TypeOK ==
    /\ status \in [Txns -> Status \cup {NoStatus}]
    /\ history \in [Txns -> Seq(Entry)]
    /\ rows \in [Txns -> Seq(Delivery)]
    /\ overdue \in SUBSET Txns
    /\ job \in [Workers -> Job]
    /\ arrived \in 0..MaxRequests
    /\ aborts \in 0..MaxAborts
    /\ held \in [Txns -> SUBSET Status]
    /\ raced \in SUBSET Txns

Init ==
    /\ status = [t \in Txns |-> NoStatus]
    /\ history = [t \in Txns |-> <<>>]
    /\ rows = [t \in Txns |-> <<>>]
    /\ overdue = {}
    /\ job = [w \in Workers |-> Idle]
    /\ arrived = 0
    /\ aborts = 0
    /\ held = [t \in Txns |-> {}]
    /\ raced = {}

----------------------------------------------------------------------------------
(* Auxiliary bookkeeping of a status write. *)

SetStatus(t, s) ==
    /\ status' = [status EXCEPT ![t] = s]
    /\ held' = [held EXCEPT ![t] = @ \cup {s}]

\* Another handler stands between its read and its write of t.
InWindow(w, t) == \E v \in Workers \ {w} : job[v].pc = "update" /\ job[v].txn = t

\* The author a history row names, from the handler's place.
Reason(j) ==
    CASE j.ret = "row"     -> "bank"
      [] j.ret = "scan"    -> "refund"
      [] j.ret = "ok"      -> "created"
      [] j.ret = "next" /\ j.to = "EXPIRED" -> "expiry"
      [] OTHER             -> "reconciliation"

----------------------------------------------------------------------------------
(* Requests arriving. *)

Goto(w, j) == job' = [job EXCEPT ![w] = j]

\* createTransaction, from the INSERT on: the row appears as PENDING and its
\* first history row follows in a later call.  CreatePayment has the rest.
StartCreate(w) ==
    /\ job[w].pc = "idle"
    /\ \E t \in Txns :
        /\ status[t] = NoStatus
        /\ SetStatus(t, "PENDING")
        /\ Goto(w, [Idle EXCEPT !.op = "create", !.pc = "history", !.txn = t,
                                !.to = "PENDING", !.ret = "ok"])
    /\ UNCHANGED <<history, rows, overdue, aborts, raced>>

\* handleBankNotification with a valid signature (an invalid one is answered 401
\* before anything is read), also through simulateBankPayment.  The bank may name
\* a transaction that does not exist, and may send the same notification again.
StartCallback(w) ==
    /\ job[w].pc = "idle"
    /\ \E t \in Txns, s \in BankStatus :
        Goto(w, [Idle EXCEPT !.op = "callback", !.pc = "find", !.txn = t,
                             !.to = normalizeTransactionStatus(s), !.ret = "row"])
    /\ UNCHANGED <<status, history, rows, overdue, aborts, held, raced>>

\* refundTransaction: its first read only checks that the row exists and is the
\* merchant's; a 404 or 403 there leaves no trace.
StartRefund(w) ==
    /\ job[w].pc = "idle"
    /\ \E t \in Txns :
        /\ status[t] # NoStatus
        /\ Goto(w, [Idle EXCEPT !.op = "refund", !.pc = "find", !.txn = t,
                                !.to = "REFUNDED", !.ret = "scan"])
    /\ UNCHANGED <<status, history, rows, overdue, aborts, held, raced>>

\* Detail, analytics, trend and search all begin with expirePendingTransactions.
StartQuery(w) ==
    /\ job[w].pc = "idle"
    /\ Goto(w, [Idle EXCEPT !.op = "query", !.pc = "scan"])
    /\ UNCHANGED <<status, history, rows, overdue, aborts, held, raced>>

\* The @Cron job.  The scheduler does not wait for the previous run.
StartCron(w) ==
    /\ job[w].pc = "idle"
    /\ Goto(w, [Idle EXCEPT !.op = "cron", !.pc = "scan"])
    /\ UNCHANGED <<status, history, rows, overdue, arrived, aborts, held, raced>>

\* The corrections of performDailyReconciliation: the rows its snapshot shows with
\* a status other than the SUCCESS of the settlement file.  Which rows the file
\* names is left open here.
StartReconcile(w) ==
    /\ job[w].pc = "idle"
    /\ \E bad \in SUBSET {t \in Txns : status[t] \notin {NoStatus, "SUCCESS"}} :
        /\ bad # {}
        /\ Goto(w, [Idle EXCEPT !.op = "reconcile", !.pc = "next", !.ret = "next",
                                !.to = "SUCCESS", !.todo = bad])
    /\ UNCHANGED <<status, history, rows, overdue, aborts, held, raced>>

----------------------------------------------------------------------------------
(* transitionStatus, call by call. *)

\* Mutants of Legal: no check at all, and a repetition let through.
LegalAlways(from, to) == from # NoStatus
LegalRepetition(from, to) ==
    from # NoStatus /\ (from = to \/ isValidTransition(from, to))

\* The 404 and the 400 of transitionStatus, decided on what findUnique returned.
Legal(from, to) == from # NoStatus /\ isValidTransition(from, to)

\* Mutants of Refuse: the callback swallows the error and notifies all the same,
\* and the handler asks again until the transition is legal.
RefuseButNotify(j) ==
    [j EXCEPT !.pc = IF j.ret = "row" THEN "row" ELSE "rejected", !.todo = {}]
RefuseAndRetry(j) == j

\* The exception leaves transitionStatus, the loop around it and the handler.
Refuse(j) == [j EXCEPT !.pc = "rejected", !.todo = {}]

\* findUnique and the check on what it returned.
Find(w) ==
    /\ job[w].pc = "find"
    /\ LET t == job[w].txn
           legal == Legal(status[t], job[w].to)
       IN  /\ Goto(w, IF legal
                      THEN [job[w] EXCEPT !.pc = "update", !.seen = status[t]]
                      ELSE Refuse(job[w]))
           /\ raced' = IF legal /\ InWindow(w, t) THEN raced \cup {t} ELSE raced
    /\ UNCHANGED <<status, history, rows, overdue, arrived, aborts, held>>

\* Mutant of Update: a bulk update for the sweeps, which writes no history.
UpdateInBulk(w) ==
    /\ job[w].pc = "update"
    /\ SetStatus(job[w].txn, job[w].to)
    /\ Goto(w, [job[w] EXCEPT !.pc = IF job[w].ret = "next" THEN "next" ELSE "history"])
    /\ UNCHANGED <<history, rows, overdue, arrived, aborts, raced>>

\* update where id: unconditional, whatever the row holds by now.
Update(w) ==
    /\ job[w].pc = "update"
    /\ SetStatus(job[w].txn, job[w].to)
    /\ Goto(w, [job[w] EXCEPT !.pc = "history"])
    /\ UNCHANGED <<history, rows, overdue, arrived, aborts, raced>>

\* Mutant of Record: the previous status read again, after the write.
RecordCurrent(w) ==
    /\ job[w].pc = "history"
    /\ history' = [history EXCEPT ![job[w].txn] =
            Append(@, [from |-> status[job[w].txn], to |-> job[w].to,
                       by |-> Reason(job[w])])]
    /\ Goto(w, [job[w] EXCEPT !.pc = job[w].ret, !.seen = NoStatus])
    /\ UNCHANGED <<status, rows, overdue, arrived, aborts, held, raced>>

\* transactionHistory.create, with the status that was read.
Record(w) ==
    /\ job[w].pc = "history"
    /\ history' = [history EXCEPT ![job[w].txn] =
            Append(@, [from |-> job[w].seen, to |-> job[w].to, by |-> Reason(job[w])])]
    /\ Goto(w, [job[w] EXCEPT !.pc = job[w].ret, !.seen = NoStatus])
    /\ UNCHANGED <<status, rows, overdue, arrived, aborts, held, raced>>

----------------------------------------------------------------------------------
(* What a callback does after its transition. *)

\* Mutant of CreateDelivery: the row is left to a poller that does not exist.
CreateDeliveryOnly(w) ==
    /\ job[w].pc = "row"
    /\ rows' = [rows EXCEPT ![job[w].txn] =
                    Append(@, [status |-> job[w].to, queued |-> FALSE])]
    /\ Goto(w, [job[w] EXCEPT !.pc = "ok"])
    /\ UNCHANGED <<status, history, overdue, arrived, aborts, held, raced>>

\* webhookDelivery.create: the payload carries the mapped status of the request.
CreateDelivery(w) ==
    /\ job[w].pc = "row"
    /\ LET t == job[w].txn
       IN  /\ rows' = [rows EXCEPT ![t] =
                            Append(@, [status |-> job[w].to, queued |-> FALSE])]
           /\ Goto(w, [job[w] EXCEPT !.pc = "enqueue", !.row = Len(rows[t]) + 1])
    /\ UNCHANGED <<status, history, overdue, arrived, aborts, held, raced>>

Enqueue(w) ==
    /\ job[w].pc = "enqueue"
    /\ rows' = [rows EXCEPT ![job[w].txn][job[w].row].queued = TRUE]
    /\ Goto(w, [job[w] EXCEPT !.pc = "ok"])
    /\ UNCHANGED <<status, history, overdue, arrived, aborts, held, raced>>

----------------------------------------------------------------------------------
(* The sweep of expirePendingTransactions, and the loop of reconciliation. *)

\* Mutant of Expirable: the comparison with expiredAt the wrong way round.
NotYetExpirable == {t \in Txns \ overdue : status[t] = "PENDING"}

\* The where clause of the sweep.
Expirable == {t \in overdue : status[t] = "PENDING"}

\* findMany: the list is taken once and not looked at again.
Scan(w) ==
    /\ job[w].pc = "scan"
    /\ Goto(w, [job[w] EXCEPT !.pc = "next", !.ret = "next", !.to = "EXPIRED",
                              !.txn = NoTxn,
                              !.todo = Expirable])
    /\ UNCHANGED <<status, history, rows, overdue, arrived, aborts, held, raced>>

\* The next row of the list, in the order the database returned them (any).
NextItem(w) ==
    /\ job[w].pc = "next"
    /\ \E t \in job[w].todo :
        Goto(w, [job[w] EXCEPT !.pc = "find", !.txn = t, !.todo = @ \ {t}])
    /\ UNCHANGED <<status, history, rows, overdue, arrived, aborts, held, raced>>

\* The list is done; a query then reads its rows and answers.
EndOfList(w) ==
    /\ job[w].pc = "next"
    /\ job[w].todo = {}
    /\ Goto(w, [job[w] EXCEPT !.pc = "ok", !.txn = NoTxn])
    /\ UNCHANGED <<status, history, rows, overdue, arrived, aborts, held, raced>>

----------------------------------------------------------------------------------

\* The caller has its answer (or the scheduler has logged the error).
Answer(w) ==
    /\ job[w].pc \in {"ok", "rejected"}
    /\ Goto(w, Idle)
    /\ UNCHANGED <<status, history, rows, overdue, arrived, aborts, held, raced>>

\* The next database call fails, or the process stops: the handler goes no
\* further and nothing of what it has done is undone.
Abort(w) ==
    /\ job[w].pc \notin {"idle", "ok", "rejected"}
    /\ aborts < MaxAborts
    /\ aborts' = aborts + 1
    /\ Goto(w, Idle)
    /\ UNCHANGED <<status, history, rows, overdue, arrived, held, raced>>

\* Sixty seconds have passed since the transaction was created.
Overdue(t) ==
    /\ status[t] # NoStatus
    /\ t \notin overdue
    /\ overdue' = overdue \cup {t}
    /\ UNCHANGED <<status, history, rows, job, arrived, aborts, held, raced>>

Arrive(w) ==
    /\ arrived < MaxRequests
    /\ arrived' = arrived + 1
    /\ \/ StartCreate(w)
       \/ StartCallback(w)
       \/ StartRefund(w)
       \/ StartQuery(w)
       \/ StartReconcile(w)

\* A handler in flight goes on.
Progress(w) ==
    \/ Find(w) \/ Update(w) \/ Record(w)
    \/ CreateDelivery(w) \/ Enqueue(w)
    \/ Scan(w) \/ NextItem(w) \/ EndOfList(w)
    \/ Answer(w)

Next ==
    \/ \E w \in Requests : Arrive(w)
    \/ \E w \in CronRuns : StartCron(w)
    \/ \E w \in Workers : Progress(w) \/ Abort(w)
    \/ \E t \in Txns : Overdue(t)

Spec == Init /\ [][Next]_vars

(***************************************************************************)
(* Fairness: the event loop resumes every handler whose call has returned,   *)
(* the cron fires again and again, and time passes.  Nothing makes a request  *)
(* arrive.                                                                  *)
(***************************************************************************)
FairSpec ==
    /\ Spec
    /\ \A w \in Workers : WF_vars(Progress(w))
    /\ \A w \in CronRuns : WF_vars(StartCron(w))
    /\ \A t \in Txns : WF_vars(Overdue(t))

----------------------------------------------------------------------------------
(* Vocabulary of the properties. *)

\* The handlers at a place of transitionStatus, or after it, on t.
At(pc, t) == {w \in Workers : job[w].pc = pc /\ job[w].txn = t}

EntriesBy(author, t) == {i \in DOMAIN history[t] : history[t][i].by = author}

\* Statuses the row has held that neither its history names nor a handler is
\* about to record.
Unrecorded(t) ==
    {s \in held[t] :
        /\ \A i \in DOMAIN history[t] : history[t][i].to # s
        /\ \A w \in At("history", t) : job[w].to # s}

Lost == {p \in Txns \X Status : p[2] \in Unrecorded(p[1])}

\* Delivery rows nobody has queued or is about to queue.
Stranded(t) ==
    {i \in DOMAIN rows[t] :
        /\ ~rows[t][i].queued
        /\ \A w \in At("enqueue", t) : job[w].row # i}

----------------------------------------------------------------------------------
(* Safety. *)

\* Every history row tells of a transition the table allows, between statuses the
\* transaction really held, and its author is one that may cause it: only the bank
\* and reconciliation settle a payment, only a refund gives it back, only they and
\* the sweep leave PENDING (transitionStatus and its four callers).
HistorySound ==
    \A t \in Txns : \A i \in DOMAIN history[t] :
        LET e == history[t][i]
        IN  /\ e.to \in held[t]
            /\ IF e.by = "created"
               THEN e.from = NoStatus /\ e.to = "PENDING"
               ELSE /\ e.from \in held[t]
                    /\ e.to \in TRANSACTION_STATE_MACHINE[e.from]
            /\ e.by = "refund" <=> e.to = "REFUNDED"
            /\ e.by = "expiry" => e.to = "EXPIRED"
            /\ e.by = "reconciliation" => e.to = "SUCCESS"

\* The audit trail loses at most one status per handler that stopped half-way;
\* without such a stop every status held is in the history or about to be
\* (transitionStatus and createTransaction write the row before the history).
AuditComplete == Cardinality(Lost) <= aborts

\* The merchant is told of a bank outcome only after it is in the history, once for
\* each history row the bank caused, and at most the stopped handlers' notifications
\* are missing (handleBankNotification, sendWebhook).
NotifyAccounting ==
    \A t \in Txns :
        LET bank == Cardinality(EntriesBy("bank", t))
            told == Len(rows[t]) + Cardinality(At("row", t))
        IN  /\ told <= bank /\ bank <= told + aborts
            /\ Cardinality(Stranded(t)) <= aborts
            /\ \A i \in DOMAIN rows[t] : \E j \in EntriesBy("bank", t) :
                   history[t][j].to = rows[t][i].status

\* A transaction on which no two transitions overlapped leaves PENDING once, is
\* refunded once and is announced to its merchant once, however many callbacks,
\* refunds and sweeps were sent for it (the legality check of transitionStatus).
SettledOnceUnlessRaced ==
    \A t \in Txns \ raced :
        /\ Cardinality({i \in DOMAIN history[t] : history[t][i].from = "PENDING"}) <= 1
        /\ Cardinality(EntriesBy("refund", t)) <= 1
        /\ Len(rows[t]) <= 1

\* What the rest of the system may rely on: TransactionLifecycle.
Lifecycle == INSTANCE TransactionLifecycle
LifecycleSpec == Lifecycle!Spec
RefundNeedsPayment == Lifecycle!RefundNeedsPayment

----------------------------------------------------------------------------------
(* The inductive invariant behind HistorySound, RefundNeedsPayment and LifecycleSpec. *)

\* What each caller of transitionStatus asks for.
GoalOf(ret) ==
    CASE ret = "row"  -> {"SUCCESS", "FAILED", "EXPIRED"}
      [] ret = "scan" -> {"REFUNDED"}
      [] ret = "next" -> {"EXPIRED", "SUCCESS"}
      [] OTHER        -> {}

\* A handler inside transitionStatus pursues its caller's goal; from its read on it
\* holds a status the row really had and from which the goal is legal.
JobSound(j) ==
    /\ j.pc \in {"find", "update", "history"} =>
           /\ j.txn \in Txns
           /\ \/ j.ret \in {"row", "scan", "next"} /\ j.to \in GoalOf(j.ret)
              \/ /\ j.ret = "ok" /\ j.pc = "history"
                 /\ j.to = "PENDING" /\ j.seen = NoStatus
    /\ j.pc = "update" \/ (j.pc = "history" /\ j.ret # "ok") =>
           j.seen \in held[j.txn] /\ j.to \in TRANSACTION_STATE_MACHINE[j.seen]
    /\ j.pc = "history" => j.to \in held[j.txn]
    /\ j.pc = "next" => j.ret = "next" /\ j.to \in GoalOf("next")
    /\ j.pc \in {"row", "enqueue"} => j.txn \in Txns /\ j.to \in Status

\* held is what it says.
HeldSound ==
    \A t \in Txns : IF status[t] = NoStatus THEN held[t] = {} ELSE status[t] \in held[t]

\* On a transaction that did not race, at most one handler is between its read and
\* its write, and what it read is still true.
WindowSound ==
    \A w \in Workers :
        job[w].pc = "update" /\ job[w].txn \notin raced =>
            job[w].seen = status[job[w].txn] /\ ~InWindow(w, job[w].txn)

IInv ==
    /\ TypeOK
    /\ \A w \in Workers : JobSound(job[w])
    /\ HeldSound
    /\ WindowSound
    /\ HistorySound
    /\ RefundNeedsPayment

\* Beside it, for NotifyAccounting: a handler about to notify the merchant has the
\* bank's outcome in the history.
AnnouncementsBacked ==
    \A w \in Workers : job[w].pc = "row" =>
        \E i \in EntriesBy("bank", job[w].txn) : history[job[w].txn][i].to = job[w].to

\* The history rows of t, and the handlers about to write one, that tell of a move in
\* the set moves of pairs of statuses.
Told(moves, t) ==
    {i \in DOMAIN history[t] : <<history[t][i].from, history[t][i].to>> \in moves}
Telling(moves, t) == {w \in At("history", t) : <<job[w].seen, job[w].to>> \in moves}

\* A move that leads out of a set of statuses is made once, and not yet while the row
\* is still inside.
MadeOnce(inside, moves, t) ==
    /\ status[t] \in inside => Told(moves, t) = {} /\ Telling(moves, t) = {}
    /\ Told(moves, t) # {} => Telling(moves, t) = {}
    /\ \A i, j \in Told(moves, t) : i = j
    /\ \A v, w \in Telling(moves, t) : v = w

Unsettled == {NoStatus, "PENDING"}
Unrefunded == (Status \cup {NoStatus}) \ {"REFUNDED"}
Settlements == {"PENDING"} \X Status
Refunds == (Status \cup {NoStatus}) \X {"REFUNDED"}

\* Beside it, for SettledOnceUnlessRaced.
MovesOnce ==
    \A t \in Txns \ raced :
        /\ MadeOnce(Unsettled, Settlements, t)
        /\ MadeOnce(Unrefunded, Refunds, t)

----------------------------------------------------------------------------------
(* Liveness. *)

\* A payable transaction does not stay payable after its minute: some sweep or some
\* outcome ends it, though sweeps are cut short when another handler got there first
\* (expirePendingTransactions has no try/catch and starts over five seconds later).
OverdueEnds == \A t \in Txns : t \in overdue ~> status[t] # "PENDING"

\* Every handler answers: no chain of calls waits on another handler.
EveryRequestAnswered == \A w \in Requests : job[w].pc # "idle" ~> job[w].pc = "idle"

\* An outcome the bank caused reaches the webhook queue, as long as no handler
\* stopped half-way (handleBankNotification awaits sendWebhook before it answers).
BankOutcomeQueued ==
    \A t \in Txns :
        EntriesBy("bank", t) # {}
            ~> (aborts > 0 \/ \E i \in DOMAIN rows[t] : rows[t][i].queued)

----------------------------------------------------------------------------------
(* What a document says and the code does not keep; a run refutes it. *)

\* ARCHITECTURE.md 4.2: an illegal transition, such as EXPIRED to SUCCESS other than
\* by reconciliation, is rejected by the Transaction State Engine.
EveryStatusChangeLegal ==
    [][\A t \in Txns :
          status[t] \in Status /\ status'[t] # status[t] =>
              \/ status'[t] \in TRANSACTION_STATE_MACHINE[status[t]]
              \/ \E w \in Workers : job[w].op = "reconcile" /\ job[w].pc = "update"]_vars
==================================================================================
