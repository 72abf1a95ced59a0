------------------------------ MODULE CreatePayment ------------------------------
(***************************************************************************)
(* TransactionService.createTransaction with the idempotency cache in front  *)
(* of it and the unique index behind it.  Each action is one awaited call to *)
(* Redis or to the database; requests with the same key, the client's        *)
(* retries, expiry of the cache and a stop of a handler happen in between.    *)
(*                                                                         *)
(* The QRIS string is abstracted to whether it is there: it is a function of *)
(* the transaction's id, and '' until the second write.                      *)
(***************************************************************************)
EXTENDS Naturals, FiniteSets

CONSTANTS
    Merchants, ClientKeys,   \* merchants and the idempotency keys they use
    Amounts,                 \* amounts a client may ask for
    Ids,                     \* identifiers the database can hand out
    Handlers,                \* slots for requests in flight
    None,                    \* nothing: no response, no id, a cache miss
    MaxAborts                \* handlers that may stop half-way (bound)

ASSUME MaxAbortsAssumption == MaxAborts \in Nat

VARIABLES
    transactions,   \* the rows of the transactions table
    cache,          \* Redis: cache key -> response, or None
    job,            \* what each handler is doing
    replies,        \* the 201 answers clients have received
    aborts          \* how many handlers stopped half-way

vars == <<transactions, cache, job, replies, aborts>>

\* @@unique([merchantId, idempotencyKey])
Slots == Merchants \X ClientKeys

Response == [id : Ids, qris : BOOLEAN, amount : Amounts, pending : BOOLEAN]

ASSUME NoneAssumption ==
    None \notin Ids \cup Merchants \cup ClientKeys \cup Amounts \cup Response

Row == [id : Ids, slot : Slots, amount : Amounts, qris : BOOLEAN, pending : BOOLEAN]

PCs == {"idle", "get", "lookup", "insert", "qris", "store", "reply", "conflict"}

Job == [pc : PCs, merchant : Merchants \cup {None}, key : ClientKeys \cup {None},
        amount : Amounts \cup {None}, id : Ids \cup {None},
        response : Response \cup {None}]

Idle == [pc |-> "idle", merchant |-> None, key |-> None, amount |-> None,
         id |-> None, response |-> None]

\* `${merchantId}:${idempotencyKey}`; neither part can contain the colon.
CacheKey(m, k) == <<m, k>>

SlotOf(j) == <<j.merchant, j.key>>

TypeOK ==
    /\ transactions \in SUBSET Row
    /\ cache \in [Slots -> Response \cup {None}]
    /\ job \in [Handlers -> Job]
    /\ replies \in SUBSET [slot : Slots, response : Response]
    /\ aborts \in 0..MaxAborts

Init ==
    /\ transactions = {}
    /\ cache = [s \in Slots |-> None]
    /\ job = [h \in Handlers |-> Idle]
    /\ replies = {}
    /\ aborts = 0

Goto(h, j) == job' = [job EXCEPT ![h] = j]

\* Mutant of ResponseOf: the string computed for the answer, the row left as it is.
ResponseComplete(x) ==
    [id |-> x.id, qris |-> TRUE, amount |-> x.amount, pending |-> x.pending]

\* The response made from a row that exists.
ResponseOf(x) == [id |-> x.id, qris |-> x.qris, amount |-> x.amount, pending |-> x.pending]

----------------------------------------------------------------------------------

\* A request that passed the API-key guard, the DTO and the currency whitelist.
Receive(h, m, k, a) ==
    /\ job[h].pc = "idle"
    /\ Goto(h, [Idle EXCEPT !.pc = "get", !.merchant = m, !.key = k, !.amount = a])
    /\ UNCHANGED <<transactions, cache, replies, aborts>>

\* IdempotencyService.get: a hit is the answer.
GetCached(h) ==
    /\ job[h].pc = "get"
    /\ LET hit == cache[CacheKey(job[h].merchant, job[h].key)]
       IN  Goto(h, IF hit # None
                   THEN [job[h] EXCEPT !.pc = "reply", !.response = hit]
                   ELSE [job[h] EXCEPT !.pc = "lookup"])
    /\ UNCHANGED <<transactions, cache, replies, aborts>>

\* Mutant of Lookup: a row without its QRIS string is not taken for an answer.
LookupComplete(h) ==
    /\ job[h].pc = "lookup"
    /\ LET found == {x \in transactions : x.slot = SlotOf(job[h]) /\ x.qris}
       IN  IF found = {}
           THEN Goto(h, [job[h] EXCEPT !.pc = "insert"])
           ELSE \E x \in found :
                    Goto(h, [job[h] EXCEPT !.pc = "store", !.response = ResponseOf(x)])
    /\ UNCHANGED <<transactions, cache, replies, aborts>>

\* transaction.findUnique on the pair: the row as it is now is the response.  The read
\* of the merchant before it has no effect on an active merchant, and the model's are.
Lookup(h) ==
    /\ job[h].pc = "lookup"
    /\ LET found == {x \in transactions : x.slot = SlotOf(job[h])}
       IN  IF found = {}
           THEN Goto(h, [job[h] EXCEPT !.pc = "insert"])
           ELSE \E x \in found :
                    Goto(h, [job[h] EXCEPT !.pc = "store", !.response = ResponseOf(x)])
    /\ UNCHANGED <<transactions, cache, replies, aborts>>

\* Mutant of Violates: no unique index on the table.
NoIndex(slot) == FALSE

\* The unique index refuses the row (P2002).
Violates(slot) == \E x \in transactions : x.slot = slot

\* transaction.create with an empty qrisPayload.  A unique violation is caught by
\* nobody: HttpExceptionFilter turns it into a 500.
Insert(h) ==
    /\ job[h].pc = "insert"
    /\ IF Violates(SlotOf(job[h]))
       THEN /\ Goto(h, [job[h] EXCEPT !.pc = "conflict"])
            /\ UNCHANGED transactions
       ELSE \E id \in Ids \ {x.id : x \in transactions} :
            /\ transactions' = transactions \cup
                   {[id |-> id, slot |-> SlotOf(job[h]), amount |-> job[h].amount,
                     qris |-> FALSE, pending |-> TRUE]}
            /\ Goto(h, [job[h] EXCEPT !.pc = "qris", !.id = id])
    /\ UNCHANGED <<cache, replies, aborts>>

\* Mutant of WriteQris: the string is only put in the response.
AnswerQrisOnly(h) ==
    /\ job[h].pc = "qris"
    /\ Goto(h, [job[h] EXCEPT !.pc = "store",
                   !.response = [id |-> job[h].id, qris |-> TRUE,
                                 amount |-> job[h].amount, pending |-> TRUE]])
    /\ UNCHANGED <<transactions, cache, replies, aborts>>

\* The QRIS string written to the row, then the first history row (TransactionEngine
\* has that one).  The response says PENDING whatever the row says by now.
WriteQris(h) ==
    /\ job[h].pc = "qris"
    /\ \E x \in transactions :
        /\ x.id = job[h].id
        /\ transactions' = (transactions \ {x}) \cup {[x EXCEPT !.qris = TRUE]}
        /\ Goto(h, [job[h] EXCEPT !.pc = "store",
                       !.response = [id |-> x.id, qris |-> TRUE,
                                     amount |-> x.amount, pending |-> TRUE]])
    /\ UNCHANGED <<cache, replies, aborts>>

\* IdempotencyService.set, whatever the cache holds by now.
Store(h) ==
    /\ job[h].pc = "store"
    /\ cache' = [cache EXCEPT ![CacheKey(job[h].merchant, job[h].key)] = job[h].response]
    /\ Goto(h, [job[h] EXCEPT !.pc = "reply"])
    /\ UNCHANGED <<transactions, replies, aborts>>

\* The 201 reaches the client.
Reply(h) ==
    /\ job[h].pc = "reply"
    /\ replies' = replies \cup {[slot |-> SlotOf(job[h]), response |-> job[h].response]}
    /\ Goto(h, Idle)
    /\ UNCHANGED <<transactions, cache, aborts>>

\* The 500 after a unique violation.
ReplyConflict(h) ==
    /\ job[h].pc = "conflict"
    /\ Goto(h, Idle)
    /\ UNCHANGED <<transactions, cache, replies, aborts>>

\* A call to Redis or to the database fails, the process stops, or the answer is
\* lost: the client gets nothing and what was written stays.
Abort(h) ==
    /\ job[h].pc \notin {"idle", "conflict"}
    /\ aborts < MaxAborts
    /\ aborts' = aborts + 1
    /\ Goto(h, Idle)
    /\ UNCHANGED <<transactions, cache, replies>>

\* The 24 hours of a cache entry are over, or Redis lost it.
Evict(s) ==
    /\ cache[s] # None
    /\ cache' = [cache EXCEPT ![s] = None]
    /\ UNCHANGED <<transactions, job, replies, aborts>>

\* The transaction leaves PENDING (TransactionEngine).
Settle(x) ==
    /\ x.pending
    /\ transactions' = (transactions \ {x}) \cup {[x EXCEPT !.pending = FALSE]}
    /\ UNCHANGED <<cache, job, replies, aborts>>

Progress(h) ==
    \/ GetCached(h) \/ Lookup(h) \/ Insert(h) \/ WriteQris(h)
    \/ Store(h) \/ Reply(h) \/ ReplyConflict(h)

Next ==
    \/ \E h \in Handlers, m \in Merchants, k \in ClientKeys, a \in Amounts :
           Receive(h, m, k, a)
    \/ \E h \in Handlers : Progress(h) \/ Abort(h)
    \/ \E s \in Slots : Evict(s)
    \/ \E x \in transactions : Settle(x)

Spec == Init /\ [][Next]_vars

\* A merchant that has no answer sends the request again with the same key.
Unanswered(s) == \A r \in replies : r.slot # s

Retry(m, k) ==
    /\ Unanswered(<<m, k>>)
    /\ \E h \in Handlers, a \in Amounts : Receive(h, m, k, a)

(***************************************************************************)
(* Fairness: calls return, and a merchant without an answer keeps trying     *)
(* (strong fairness, since a handler slot may be taken by others meanwhile;   *)
(* the slots bound the model, the server has no such limit).                 *)
(***************************************************************************)
FairSpec ==
    /\ Spec
    /\ \A h \in Handlers : WF_vars(Progress(h))
    /\ \A m \in Merchants, k \in ClientKeys : SF_vars(Retry(m, k))

----------------------------------------------------------------------------------
(* Safety. *)

\* The table never holds two transactions for a merchant and key, although the
\* lookup and the insert of two requests interleave (the unique index).
UniqueTransaction ==
    \A x, y \in transactions : x.slot = y.slot \/ x.id = y.id => x = y

\* A response says of a row only what is or was true of it: it is that slot's row
\* with its first amount, it has the QRIS only if the row has, and it calls the
\* transaction settled only if it is.
TrueOf(table, response, slot) ==
    \E x \in table :
        /\ x.slot = slot /\ x.id = response.id /\ x.amount = response.amount
        /\ response.qris => x.qris
        /\ ~response.pending => ~x.pending

\* Whatever the cache holds, a handler is about to store and a client was told is
\* true of the merchant's own transaction: no other merchant's or key's response
\* is ever served, and a key reused with another amount keeps the first one.
ResponsesTrue ==
    /\ \A s \in Slots : cache[s] # None => TrueOf(transactions, cache[s], s)
    /\ \A h \in Handlers :
           job[h].response # None => TrueOf(transactions, job[h].response, SlotOf(job[h]))
    /\ \A r \in replies : TrueOf(transactions, r.response, r.slot)

\* The rows without a QRIS string that nobody is about to write.
Blank ==
    {x \in transactions :
        /\ ~x.qris
        /\ \A h \in Handlers : job[h].pc = "qris" => job[h].id # x.id}

\* A row stays without its QRIS string only while its creator is about to write it,
\* or because the creator stopped: one such row at most for each stop.
BlankRowsAccounted == Cardinality(Blank) <= aborts

\* The promise of POST /payments, IdempotentCreation, with a slot bound when its
\* row appears.
BoundTo(s) ==
    IF \E x \in transactions : x.slot = s
    THEN (CHOOSE x \in transactions : x.slot = s).id
    ELSE None

Promise == INSTANCE IdempotentCreation WITH
    Unbound <- None,
    bound <- [s \in Slots |-> BoundTo(s)],
    told <- {<<r.slot, r.response.id>> : r \in replies}
PromiseSpec == Promise!Spec

----------------------------------------------------------------------------------
(* The inductive invariant behind the three properties above. *)

\* A handler in flight knows its request; after the INSERT it knows the id of its own
\* slot's row, and from then on it has a response.
JobSound(table, j) ==
    /\ j.pc # "idle" =>
           /\ SlotOf(j) \in Slots
           /\ j.amount \in Amounts
    /\ j.pc = "qris" => \E x \in table : x.id = j.id /\ x.slot = SlotOf(j)
    /\ j.pc \in {"store", "reply"} => j.response # None

IInv ==
    /\ TypeOK
    /\ \A h \in Handlers : JobSound(transactions, job[h])
    /\ UniqueTransaction
    /\ ResponsesTrue

\* Beside it, for BlankRowsAccounted: only then is the number of blank rows a number.
BlankFinite == IsFiniteSet(Blank)

----------------------------------------------------------------------------------
(* Liveness. *)

\* A merchant that keeps retrying a key is answered, whatever conflicts, lost
\* answers and evictions happen on the way.
RetryAnswered ==
    \A s \in Slots :
        (\E h \in Handlers : job[h].pc # "idle" /\ SlotOf(job[h]) = s) ~> ~Unanswered(s)
===================================================================================
