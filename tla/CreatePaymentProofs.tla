--------------------------- MODULE CreatePaymentProofs ---------------------------
(***************************************************************************)
(* What TLAPS proves of CreatePayment, for every set of merchants, keys,      *)
(* amounts, identifiers and handlers and any number of aborts.               *)
(***************************************************************************)
EXTENDS CreatePayment, FiniteSetTheorems, TLAPS

\* Rows are only ever added or completed: every row is still there, perhaps with its
\* QRIS string by now, perhaps settled.
Grows ==
    \A x \in transactions : \E y \in transactions' :
        /\ y.id = x.id /\ y.slot = x.slot /\ y.amount = x.amount
        /\ x.qris => y.qris
        /\ ~x.pending => ~y.pending

\* What was true of a row stays true when rows grow.
LEMMA TrueStays ==
    ASSUME Grows, NEW r, NEW s, TrueOf(transactions, r, s)
    PROVE  TrueOf(transactions', r, s)
  BY DEF TrueOf, Grows

\* A row's response is true of it.
LEMMA ResponseOfTrue ==
    ASSUME NEW x \in transactions, x \in Row
    PROVE  /\ ResponseOf(x) \in Response
           /\ TrueOf(transactions, ResponseOf(x), x.slot)
  BY DEF ResponseOf, Response, Row, TrueOf

\* None is not a response.
LEMMA IdleSound ==
    /\ Idle \in Job /\ Idle.response = None /\ Idle.pc = "idle"
    /\ \A table : JobSound(table, Idle)
  BY DEF Idle, Job, PCs, JobSound

LEMMA InitIInv == Init => IInv
<1> SUFFICES ASSUME Init PROVE IInv
  OBVIOUS
<1>1. TypeOK
  BY MaxAbortsAssumption, IdleSound DEF Init, TypeOK
<1>2. \A h \in Handlers : JobSound(transactions, job[h])
  BY IdleSound DEF Init
<1>3. UniqueTransaction
  BY DEF Init, UniqueTransaction
<1>4. ResponsesTrue
  BY IdleSound DEF Init, ResponsesTrue
<1> QED
  BY <1>1, <1>2, <1>3, <1>4 DEF IInv

\* A handler's step: the rows grow, and the handler goes on to a sound place with a
\* true response or none, while cache and replies receive true responses only.
LEMMA HandlerStep ==
    ASSUME IInv, NEW h \in Handlers, NEW j \in Job,
           Goto(h, j),
           transactions' \in SUBSET Row, UniqueTransaction', Grows,
           JobSound(transactions', j),
           j.response # None => TrueOf(transactions', j.response, SlotOf(j)),
           cache' \in [Slots -> Response \cup {None}],
           \A s \in Slots : cache'[s] = cache[s] \/ TrueOf(transactions', cache'[s], s),
           replies' \in SUBSET [slot : Slots, response : Response],
           \A r \in replies' : r \in replies \/ TrueOf(transactions', r.response, r.slot),
           aborts' \in 0..MaxAborts
    PROVE  IInv'
<1>1. /\ job' \in [Handlers -> Job] /\ job'[h] = j
      /\ \A g \in Handlers \ {h} : job'[g] = job[g]
  BY DEF IInv, TypeOK, Goto
<1>2. TypeOK'
  BY <1>1 DEF TypeOK
<1>3. \A g \in Handlers : JobSound(transactions', job'[g])
  <2> TAKE g \in Handlers
  <2>1. CASE g = h
    BY <2>1, <1>1 DEF JobSound, SlotOf
  <2>2. CASE g # h
    <3>1. job'[g] = job[g] /\ JobSound(transactions, job[g])
      BY <2>2, <1>1 DEF IInv
    <3> QED
      BY <3>1 DEF JobSound, Grows, SlotOf
  <2> QED
    BY <2>1, <2>2
<1>4. ResponsesTrue'
  <2>1. ASSUME NEW s \in Slots, cache'[s] # None
        PROVE  TrueOf(transactions', cache'[s], s)
    BY <2>1, TrueStays DEF IInv, ResponsesTrue
  <2>2. ASSUME NEW g \in Handlers, job'[g].response # None
        PROVE  TrueOf(transactions', job'[g].response, SlotOf(job'[g]))
    BY <2>2, <1>1, TrueStays DEF IInv, ResponsesTrue
  <2>3. ASSUME NEW r \in replies'
        PROVE  TrueOf(transactions', r.response, r.slot)
    BY <2>3, TrueStays DEF IInv, ResponsesTrue
  <2> QED
    BY <2>1, <2>2, <2>3 DEF ResponsesTrue
<1> QED
  BY <1>2, <1>3, <1>4 DEF IInv

\* Nothing grows where nothing changes.
LEMMA SameGrows == ASSUME UNCHANGED transactions PROVE Grows
  BY DEF Grows

\* The facts of a handler in flight that every step below needs.
LEMMA InFlight ==
    ASSUME IInv, NEW h \in Handlers
    PROVE  /\ job[h] \in Job /\ JobSound(transactions, job[h])
           /\ transactions \in SUBSET Row /\ UniqueTransaction
           /\ cache \in [Slots -> Response \cup {None}]
           /\ replies \in SUBSET [slot : Slots, response : Response]
           /\ aborts \in 0..MaxAborts
           /\ job[h].response # None =>
                  TrueOf(transactions, job[h].response, SlotOf(job[h]))
           /\ \A s \in Slots : cache[s] # None => TrueOf(transactions, cache[s], s)
  BY DEF IInv, TypeOK, ResponsesTrue

LEMMA ReceiveStep ==
    ASSUME IInv, NEW h \in Handlers, NEW m \in Merchants, NEW k \in ClientKeys,
           NEW a \in Amounts, Receive(h, m, k, a)
    PROVE  IInv'
<1> DEFINE j == [Idle EXCEPT !.pc = "get", !.merchant = m, !.key = k, !.amount = a]
<1>1. /\ j \in Job /\ JobSound(transactions', j) /\ j.response = None
  BY DEF Idle, Job, PCs, JobSound, SlotOf, Slots
<1>2. Goto(h, j) /\ UNCHANGED <<transactions, cache, replies, aborts>>
  BY DEF Receive
<1>3. UniqueTransaction'
  BY <1>2, InFlight DEF UniqueTransaction
<1> HIDE DEF j
<1> QED
  BY <1>1, <1>2, <1>3, InFlight, SameGrows, HandlerStep

LEMMA GetCachedStep ==
    ASSUME IInv, NEW h \in Handlers, GetCached(h)
    PROVE  IInv'
<1> DEFINE hit == cache[CacheKey(job[h].merchant, job[h].key)]
           j == IF hit # None
                THEN [job[h] EXCEPT !.pc = "reply", !.response = hit]
                ELSE [job[h] EXCEPT !.pc = "lookup"]
<1>1. /\ job[h] \in Job /\ JobSound(transactions, job[h]) /\ job[h].pc = "get"
      /\ SlotOf(job[h]) \in Slots
  BY InFlight DEF GetCached, JobSound
<1>2. hit = cache[SlotOf(job[h])] /\ hit \in Response \cup {None}
  BY <1>1, InFlight DEF SlotOf, CacheKey
<1>3. Goto(h, j) /\ UNCHANGED <<transactions, cache, replies, aborts>>
  BY DEF GetCached
<1>4. UniqueTransaction'
  BY <1>3, InFlight DEF UniqueTransaction
<1>5. j \in Job /\ JobSound(transactions', j) /\ SlotOf(j) = SlotOf(job[h])
  <2> HIDE DEF hit
  <2> QED BY <1>1, <1>2 DEF Job, PCs, JobSound, SlotOf
<1>6. j.response # None => TrueOf(transactions', j.response, SlotOf(j))
  <2>1. CASE hit # None
    <3>1. TrueOf(transactions, hit, SlotOf(job[h]))
      BY <1>1, <1>2, <2>1, InFlight
    <3>2. j.response = hit
      BY <1>1, <2>1 DEF Job
    <3> HIDE DEF j, hit
    <3> QED BY <1>3, <1>5, <3>1, <3>2
  <2>2. CASE hit = None
    <3>1. j.response = job[h].response
      BY <1>1, <2>2 DEF Job
    <3> HIDE DEF j
    <3> QED BY <1>3, <1>5, <3>1, InFlight
  <2> QED
    BY <2>1, <2>2
<1> HIDE DEF j
<1> QED
  BY <1>3, <1>4, <1>5, <1>6, InFlight, SameGrows, HandlerStep

LEMMA LookupStep ==
    ASSUME IInv, NEW h \in Handlers, Lookup(h)
    PROVE  IInv'
<1>1. /\ job[h] \in Job /\ JobSound(transactions, job[h]) /\ job[h].pc = "lookup"
      /\ SlotOf(job[h]) \in Slots
  BY InFlight DEF Lookup, JobSound
<1>2. UNCHANGED <<transactions, cache, replies, aborts>>
  BY DEF Lookup
<1>3. UniqueTransaction'
  BY <1>2, InFlight DEF UniqueTransaction
<1>4. CASE Goto(h, [job[h] EXCEPT !.pc = "insert"])
  <2> DEFINE j == [job[h] EXCEPT !.pc = "insert"]
  <2>1. /\ j \in Job /\ JobSound(transactions', j) /\ SlotOf(j) = SlotOf(job[h])
        /\ j.response = job[h].response
    BY <1>1 DEF Job, PCs, JobSound, SlotOf
  <2>2. Goto(h, j)
    BY <1>4
  <2> HIDE DEF j
  <2> QED
    BY <1>2, <1>3, <2>1, <2>2, InFlight, SameGrows, HandlerStep
<1>5. CASE \E x \in transactions :
              /\ x.slot = SlotOf(job[h])
              /\ Goto(h, [job[h] EXCEPT !.pc = "store", !.response = ResponseOf(x)])
  <2>1. PICK x \in transactions :
            /\ x.slot = SlotOf(job[h])
            /\ Goto(h, [job[h] EXCEPT !.pc = "store", !.response = ResponseOf(x)])
    BY <1>5
  <2> DEFINE r == ResponseOf(x)
             j == [job[h] EXCEPT !.pc = "store", !.response = r]
  <2>2. r \in Response /\ TrueOf(transactions, r, SlotOf(job[h]))
    BY <2>1, InFlight, ResponseOfTrue
  <2>3. r # None
    BY <2>2, NoneAssumption
  <2>4. Goto(h, j)
    BY <2>1
  <2> HIDE DEF r
  <2>5. /\ j \in Job /\ JobSound(transactions', j) /\ SlotOf(j) = SlotOf(job[h])
        /\ j.response = r
    BY <1>1, <2>2, <2>3 DEF Job, PCs, JobSound, SlotOf
  <2> HIDE DEF j
  <2> QED
    BY <1>2, <1>3, <2>2, <2>4, <2>5, InFlight, SameGrows, HandlerStep
<1> QED
  BY <1>4, <1>5 DEF Lookup

\* A row replaced by a later version of itself.
LEMMA ReplaceRow ==
    ASSUME transactions \in SUBSET Row, UniqueTransaction,
           NEW x \in transactions, NEW y \in Row,
           y.id = x.id, y.slot = x.slot, y.amount = x.amount,
           x.qris => y.qris, ~x.pending => ~y.pending,
           transactions' = (transactions \ {x}) \cup {y}
    PROVE  transactions' \in SUBSET Row /\ UniqueTransaction' /\ Grows
<1>1. transactions' \in SUBSET Row
  OBVIOUS
<1>2. UniqueTransaction'
  <2> SUFFICES ASSUME NEW u \in transactions', NEW v \in transactions',
                      u.slot = v.slot \/ u.id = v.id
               PROVE  u = v
    BY DEF UniqueTransaction
  <2>1. CASE u = y \/ v = y
    BY <2>1 DEF UniqueTransaction
  <2>2. CASE u # y /\ v # y
    BY <2>2 DEF UniqueTransaction
  <2> QED
    BY <2>1, <2>2
<1>3. Grows
  <2> SUFFICES ASSUME NEW u \in transactions
               PROVE  \E v \in transactions' :
                          /\ v.id = u.id /\ v.slot = u.slot /\ v.amount = u.amount
                          /\ u.qris => v.qris
                          /\ ~u.pending => ~v.pending
    BY DEF Grows
  <2>1. CASE u = x
    BY <2>1
  <2>2. CASE u # x
    BY <2>2
  <2> QED
    BY <2>1, <2>2
<1> QED
  BY <1>1, <1>2, <1>3

LEMMA InsertStep ==
    ASSUME IInv, NEW h \in Handlers, Insert(h)
    PROVE  IInv'
<1>1. /\ job[h] \in Job /\ JobSound(transactions, job[h]) /\ job[h].pc = "insert"
      /\ SlotOf(job[h]) \in Slots /\ job[h].amount \in Amounts
  BY InFlight DEF Insert, JobSound
<1>2. UNCHANGED <<cache, replies, aborts>>
  BY DEF Insert
<1>3. CASE Violates(SlotOf(job[h]))
  <2> DEFINE j == [job[h] EXCEPT !.pc = "conflict"]
  <2>1. Goto(h, j) /\ UNCHANGED transactions
    BY <1>3 DEF Insert
  <2>2. /\ j \in Job /\ JobSound(transactions', j) /\ SlotOf(j) = SlotOf(job[h])
        /\ j.response = job[h].response
    BY <1>1 DEF Job, PCs, JobSound, SlotOf
  <2>3. UniqueTransaction'
    BY <2>1, InFlight DEF UniqueTransaction
  <2> HIDE DEF j
  <2> QED
    BY <1>2, <2>1, <2>2, <2>3, InFlight, SameGrows, HandlerStep
<1>4. CASE ~Violates(SlotOf(job[h]))
  <2>1. PICK id \in Ids \ {x.id : x \in transactions} :
            /\ transactions' = transactions \cup
                   {[id |-> id, slot |-> SlotOf(job[h]), amount |-> job[h].amount,
                     qris |-> FALSE, pending |-> TRUE]}
            /\ Goto(h, [job[h] EXCEPT !.pc = "qris", !.id = id])
    BY <1>4 DEF Insert
  <2> DEFINE y == [id |-> id, slot |-> SlotOf(job[h]), amount |-> job[h].amount,
                   qris |-> FALSE, pending |-> TRUE]
             j == [job[h] EXCEPT !.pc = "qris", !.id = id]
  <2>2. /\ y \in Row /\ transactions' = transactions \cup {y}
        /\ y.id = id /\ y.slot = SlotOf(job[h])
    BY <1>1, <2>1 DEF Row
  <2>3. Goto(h, j)
    BY <2>1
  <2> HIDE DEF y
  <2>4. transactions' \in SUBSET Row /\ Grows
    BY <2>2, InFlight DEF Grows
  <2>5. UniqueTransaction'
    BY <1>4, <2>2, InFlight DEF UniqueTransaction, Violates
  <2>6. /\ j \in Job /\ SlotOf(j) = SlotOf(job[h])
        /\ j.response = job[h].response /\ j.pc = "qris" /\ j.id = id
        /\ j.amount = job[h].amount
    BY <1>1 DEF Job, PCs, SlotOf
  <2> HIDE DEF j
  <2>7. JobSound(transactions', j)
    BY <1>1, <2>2, <2>6 DEF JobSound
  <2>8. j.response # None => TrueOf(transactions', j.response, SlotOf(j))
    BY <2>4, <2>6, InFlight, TrueStays
  <2> QED
    BY <1>2, <2>3, <2>4, <2>5, <2>6, <2>7, <2>8, InFlight, HandlerStep
<1> QED
  BY <1>3, <1>4

LEMMA WriteQrisStep ==
    ASSUME IInv, NEW h \in Handlers, WriteQris(h)
    PROVE  IInv'
<1>1. /\ job[h] \in Job /\ JobSound(transactions, job[h]) /\ job[h].pc = "qris"
      /\ SlotOf(job[h]) \in Slots
  BY InFlight DEF WriteQris, JobSound
<1>2. PICK x \in transactions :
          /\ x.id = job[h].id
          /\ transactions' = (transactions \ {x}) \cup {[x EXCEPT !.qris = TRUE]}
          /\ Goto(h, [job[h] EXCEPT !.pc = "store",
                         !.response = [id |-> x.id, qris |-> TRUE,
                                       amount |-> x.amount, pending |-> TRUE]])
  BY DEF WriteQris
<1> DEFINE y == [x EXCEPT !.qris = TRUE]
           r == [id |-> x.id, qris |-> TRUE, amount |-> x.amount, pending |-> TRUE]
           j == [job[h] EXCEPT !.pc = "store", !.response = r]
<1>3. x \in Row /\ x.slot = SlotOf(job[h])
  BY <1>1, <1>2, InFlight DEF JobSound, UniqueTransaction
<1>4. /\ y \in Row /\ y.id = x.id /\ y.slot = x.slot /\ y.amount = x.amount
      /\ y.qris /\ y.pending = x.pending
  BY <1>3 DEF Row
<1>5. transactions' = (transactions \ {x}) \cup {y}
  BY <1>2
<1>6. r \in Response /\ r # None
  <2>1. x.id \in Ids /\ x.amount \in Amounts
    BY <1>3 DEF Row
  <2>2. r \in Response
    BY <2>1 DEF Response
  <2> HIDE DEF r
  <2> QED BY <2>2, NoneAssumption
<1>7. /\ r.id = x.id /\ r.amount = x.amount /\ r.qris = TRUE /\ r.pending = TRUE
  OBVIOUS
<1>8. Goto(h, j) /\ UNCHANGED <<cache, replies, aborts>>
  BY <1>2 DEF WriteQris
<1> HIDE DEF y, r
<1>9. transactions' \in SUBSET Row /\ UniqueTransaction' /\ Grows
  BY <1>4, <1>5, InFlight, ReplaceRow
<1>10. /\ j \in Job /\ JobSound(transactions', j) /\ SlotOf(j) = SlotOf(job[h])
       /\ j.response = r
  BY <1>1, <1>6 DEF Job, PCs, JobSound, SlotOf
<1> HIDE DEF j
<1>11. TrueOf(transactions', r, SlotOf(job[h]))
  BY <1>3, <1>4, <1>5, <1>7 DEF TrueOf
<1> QED
  BY <1>8, <1>9, <1>10, <1>11, InFlight, HandlerStep

LEMMA StoreStep ==
    ASSUME IInv, NEW h \in Handlers, Store(h)
    PROVE  IInv'
<1> DEFINE s == SlotOf(job[h])
           j == [job[h] EXCEPT !.pc = "reply"]
<1>1. /\ job[h] \in Job /\ JobSound(transactions, job[h]) /\ job[h].pc = "store"
      /\ s \in Slots /\ job[h].response \in Response /\ job[h].response # None
  BY InFlight DEF Store, JobSound, Job
<1>2. /\ cache' = [cache EXCEPT ![s] = job[h].response]
      /\ Goto(h, j) /\ UNCHANGED <<transactions, replies, aborts>>
  BY DEF Store, CacheKey, SlotOf
<1>3. /\ j \in Job /\ JobSound(transactions', j) /\ SlotOf(j) = SlotOf(job[h])
      /\ j.response = job[h].response
  BY <1>1, <1>2 DEF Job, PCs, JobSound, SlotOf
<1>4. TrueOf(transactions', job[h].response, s)
  BY <1>1, <1>2, InFlight
<1> HIDE DEF j
<1>5. UniqueTransaction'
  BY <1>2, InFlight DEF UniqueTransaction
<1>6. /\ cache' \in [Slots -> Response \cup {None}]
      /\ \A u \in Slots : cache'[u] = cache[u] \/ TrueOf(transactions', cache'[u], u)
  <2> HIDE DEF s
  <2> QED BY <1>1, <1>2, <1>4, InFlight
<1> QED
  BY <1>2, <1>3, <1>4, <1>5, <1>6, InFlight, SameGrows, HandlerStep

LEMMA ReplyStep ==
    ASSUME IInv, NEW h \in Handlers, Reply(h)
    PROVE  IInv'
<1> DEFINE new == [slot |-> SlotOf(job[h]), response |-> job[h].response]
<1>1. /\ job[h] \in Job /\ JobSound(transactions, job[h]) /\ job[h].pc = "reply"
      /\ SlotOf(job[h]) \in Slots /\ job[h].response \in Response
      /\ TrueOf(transactions, job[h].response, SlotOf(job[h]))
  BY InFlight DEF Reply, JobSound, Job
<1>2. /\ replies' = replies \cup {new} /\ Goto(h, Idle)
      /\ UNCHANGED <<transactions, cache, aborts>>
  BY DEF Reply
<1>3. /\ new \in [slot : Slots, response : Response]
      /\ new.slot = SlotOf(job[h]) /\ new.response = job[h].response
  BY <1>1
<1> HIDE DEF new
<1>4. /\ replies' \in SUBSET [slot : Slots, response : Response]
      /\ \A r \in replies' : r \in replies \/ TrueOf(transactions', r.response, r.slot)
  BY <1>1, <1>2, <1>3, InFlight
<1>5. UniqueTransaction'
  BY <1>2, InFlight DEF UniqueTransaction
<1> QED
  BY <1>2, <1>4, <1>5, IdleSound, InFlight, SameGrows, HandlerStep

\* A handler that stops, by an answer without a transaction or without any.
LEMMA StopStep ==
    ASSUME IInv, NEW h \in Handlers, ReplyConflict(h) \/ Abort(h)
    PROVE  IInv'
<1>1. Goto(h, Idle) /\ UNCHANGED <<transactions, cache, replies>>
  BY DEF ReplyConflict, Abort
<1>2. aborts' \in 0..MaxAborts
  BY MaxAbortsAssumption, InFlight DEF ReplyConflict, Abort
<1>3. UniqueTransaction'
  BY <1>1, InFlight DEF UniqueTransaction
<1> QED
  BY <1>1, <1>2, <1>3, IdleSound, InFlight, SameGrows, HandlerStep

\* A step of the cache or of the table alone.
LEMMA OutsideStep ==
    ASSUME IInv, UNCHANGED <<job, replies, aborts>>,
           transactions' \in SUBSET Row, UniqueTransaction', Grows,
           cache' \in [Slots -> Response \cup {None}],
           \A s \in Slots : cache'[s] = cache[s] \/ cache'[s] = None
    PROVE  IInv'
<1>1. TypeOK'
  BY DEF IInv, TypeOK
<1>2. \A h \in Handlers : JobSound(transactions', job'[h])
  <2> TAKE h \in Handlers
  <2>1. job'[h] = job[h] /\ JobSound(transactions, job[h])
    BY DEF IInv
  <2> QED
    BY <2>1 DEF JobSound, Grows
<1>3. ResponsesTrue'
  <2>1. ASSUME NEW s \in Slots, cache'[s] # None
        PROVE  TrueOf(transactions', cache'[s], s)
    BY <2>1, TrueStays DEF IInv, ResponsesTrue
  <2>2. ASSUME NEW h \in Handlers, job'[h].response # None
        PROVE  TrueOf(transactions', job'[h].response, SlotOf(job'[h]))
    <3>1. job'[h] = job[h]
      OBVIOUS
    <3> QED
      BY <2>2, <3>1, TrueStays DEF IInv, ResponsesTrue
  <2>3. ASSUME NEW r \in replies'
        PROVE  TrueOf(transactions', r.response, r.slot)
    BY <2>3, TrueStays DEF IInv, ResponsesTrue
  <2> QED
    BY <2>1, <2>2, <2>3 DEF ResponsesTrue
<1> QED
  BY <1>1, <1>2, <1>3 DEF IInv

LEMMA EvictStep ==
    ASSUME IInv, NEW s \in Slots, Evict(s)
    PROVE  IInv'
<1>1. UniqueTransaction'
  BY InFlight DEF Evict, IInv, UniqueTransaction
<1>2. /\ cache' \in [Slots -> Response \cup {None}]
      /\ \A u \in Slots : cache'[u] = cache[u] \/ cache'[u] = None
  BY DEF Evict, IInv, TypeOK
<1> QED
  BY <1>1, <1>2, SameGrows, OutsideStep DEF Evict, IInv, TypeOK

LEMMA SettleStep ==
    ASSUME IInv, NEW x \in transactions, Settle(x)
    PROVE  IInv'
<1> DEFINE y == [x EXCEPT !.pending = FALSE]
<1>1. x \in Row /\ transactions \in SUBSET Row /\ UniqueTransaction
      /\ cache \in [Slots -> Response \cup {None}]
  BY DEF IInv, TypeOK
<1>2. /\ y \in Row /\ y.id = x.id /\ y.slot = x.slot /\ y.amount = x.amount
      /\ y.qris = x.qris /\ y.pending = FALSE
  BY <1>1 DEF Row
<1>3. transactions' = (transactions \ {x}) \cup {y}
  BY DEF Settle
<1> HIDE DEF y
<1>4. transactions' \in SUBSET Row /\ UniqueTransaction' /\ Grows
  BY <1>1, <1>2, <1>3, ReplaceRow
<1> QED
  BY <1>1, <1>4, OutsideStep DEF Settle

LEMMA NextIInv == IInv /\ [Next]_vars => IInv'
<1> SUFFICES ASSUME IInv, [Next]_vars PROVE IInv'
  OBVIOUS
<1>1. ASSUME NEW h \in Handlers, Progress(h) \/ Abort(h) PROVE IInv'
  BY <1>1, GetCachedStep, LookupStep, InsertStep, WriteQrisStep, StoreStep, ReplyStep,
     StopStep DEF Progress
<1>2. CASE UNCHANGED vars
  <2>1. UniqueTransaction'
    BY <1>2 DEF vars, IInv, UniqueTransaction
  <2> QED
    BY <1>2, <2>1, SameGrows, OutsideStep DEF vars, IInv, TypeOK
<1> QED
  BY <1>1, <1>2, ReceiveStep, EvictStep, SettleStep DEF Next

----------------------------------------------------------------------------------
(* The theorems. *)

\* IInv is an invariant: a handler past the INSERT knows the id of its own slot's row,
\* and every response anywhere in the system is true of its slot's row.
THEOREM Inductive == Spec => []IInv
<1> QED
  BY InitIInv, NextIInv, PTL DEF Spec

\* Every variable keeps its type.
THEOREM TypeCorrect == Spec => []TypeOK
<1>1. IInv => TypeOK
  BY DEF IInv
<1> QED
  BY <1>1, Inductive, PTL

\* However many requests race between lookup and insert, the table never holds two
\* transactions for a merchant and key (the unique index behind createTransaction).
THEOREM NoDoubleTransaction == Spec => []UniqueTransaction
<1>1. IInv => UniqueTransaction
  BY DEF IInv
<1> QED
  BY <1>1, Inductive, PTL

\* No cache entry, handler or client ever has a response that is not true of the
\* merchant's own transaction for that key (cache key and index agree).
THEOREM NoFalseResponse == Spec => []ResponsesTrue
<1>1. IInv => ResponsesTrue
  BY DEF IInv
<1> QED
  BY <1>1, Inductive, PTL

----------------------------------------------------------------------------------
(* CreatePayment implements IdempotentCreation. *)

\* With one row at most for a slot, BoundTo is that row's id.
LEMMA BoundFacts ==
    ASSUME transactions \in SUBSET Row, UniqueTransaction, NEW s
    PROVE  /\ \A x \in transactions : x.slot = s => BoundTo(s) = x.id
           /\ (\A x \in transactions : x.slot # s) => BoundTo(s) = None
<1>1. ASSUME NEW x \in transactions, x.slot = s PROVE BoundTo(s) = x.id
  <2>1. (CHOOSE y \in transactions : y.slot = s) = x
    BY <1>1 DEF UniqueTransaction
  <2> QED
    BY <1>1, <2>1 DEF BoundTo
<1>2. (\A x \in transactions : x.slot # s) => BoundTo(s) = None
  BY DEF BoundTo
<1> QED
  BY <1>1, <1>2

LEMMA InitRefines == Init => Promise!Init
  BY DEF Init, Promise!Init, BoundTo

\* Rows that only grow, with no new slot among them, leave every binding as it is.
LEMMA SameBindings ==
    ASSUME IInv, IInv', Grows,
           \A y \in transactions' : \E x \in transactions : x.slot = y.slot
    PROVE  \A s : BoundTo(s)' = BoundTo(s)
<1> SUFFICES ASSUME NEW s PROVE BoundTo(s)' = BoundTo(s)
  OBVIOUS
<1>1. /\ transactions \in SUBSET Row /\ UniqueTransaction
      /\ transactions' \in SUBSET Row /\ UniqueTransaction'
  BY DEF IInv, TypeOK
<1>2. CASE \E x \in transactions : x.slot = s
  <2>1. PICK x \in transactions : x.slot = s
    BY <1>2
  <2>2. PICK y \in transactions' : y.slot = s /\ y.id = x.id
    BY <2>1 DEF Grows
  <2>3. (CHOOSE z \in transactions' : z.slot = s) = y
    BY <1>1, <2>2 DEF UniqueTransaction
  <2>4. BoundTo(s)' = y.id
    BY <2>2, <2>3 DEF BoundTo
  <2> QED
    BY <1>1, <2>1, <2>2, <2>4, BoundFacts
<1>3. CASE \A x \in transactions : x.slot # s
  <2>1. \A y \in transactions' : y.slot # s
    BY <1>3
  <2> QED
    BY <1>3, <2>1 DEF BoundTo
<1> QED
  BY <1>2, <1>3
\* The INSERT binds the slot.
LEMMA InsertRefines ==
    ASSUME IInv, IInv', NEW h \in Handlers, Insert(h), ~Violates(SlotOf(job[h]))
    PROVE  Promise!Next
<1> DEFINE s0 == SlotOf(job[h])
<1>1. /\ transactions \in SUBSET Row /\ UniqueTransaction
      /\ transactions' \in SUBSET Row /\ UniqueTransaction'
  BY DEF IInv, TypeOK
<1>2. s0 \in Slots
  BY InFlight DEF Insert, JobSound
<1>3. PICK id \in Ids \ {x.id : x \in transactions} :
          transactions' = transactions \cup
              {[id |-> id, slot |-> s0, amount |-> job[h].amount,
                qris |-> FALSE, pending |-> TRUE]}
  BY DEF Insert
<1> DEFINE y == [id |-> id, slot |-> s0, amount |-> job[h].amount,
                 qris |-> FALSE, pending |-> TRUE]
<1>4. y.id = id /\ y.slot = s0 /\ transactions' = transactions \cup {y}
  BY <1>3
<1>5. UNCHANGED replies
  BY DEF Insert
<1> HIDE DEF y
<1> HIDE DEF s0
<1>6. \A x \in transactions : x.slot # s0
  BY DEF Violates, s0
<1>7. BoundTo(s0) = None
  BY <1>1, <1>6, BoundFacts
<1>8. ASSUME NEW s PROVE BoundTo(s) # id
  <2>1. CASE \E x \in transactions : x.slot = s
    BY <1>1, <1>3, <2>1, BoundFacts
  <2>2. CASE \A x \in transactions : x.slot # s
    BY <1>1, <1>3, <2>2, BoundFacts, NoneAssumption
  <2> QED
    BY <2>1, <2>2
<1>9. (CHOOSE x \in transactions' : x.slot = s0).id = id
  <2>1. (CHOOSE x \in transactions' : x.slot = s0) = y
    BY <1>1, <1>4 DEF UniqueTransaction
  <2> QED
    BY <1>4, <2>1
<1>10. ASSUME NEW s, s # s0
       PROVE  (IF \E x \in transactions' : x.slot = s
               THEN (CHOOSE x \in transactions' : x.slot = s).id ELSE None) = BoundTo(s)
  <2>1. CASE \E x \in transactions : x.slot = s
    <3>1. PICK x \in transactions : x.slot = s
      BY <2>1
    <3>2. (CHOOSE z \in transactions' : z.slot = s) = x
      BY <1>1, <1>4, <3>1 DEF UniqueTransaction
    <3>3. BoundTo(s) = x.id
      BY <1>1, <3>1, BoundFacts
    <3> QED
      BY <1>4, <3>1, <3>2, <3>3
  <2>2. CASE \A x \in transactions : x.slot # s
    <3>1. \A x \in transactions' : x.slot # s
      BY <1>4, <1>10, <2>2
    <3> QED
      BY <1>1, <2>2, <3>1, BoundFacts
  <2> QED
    BY <2>1, <2>2
<1> DEFINE bound == [s \in Slots |-> BoundTo(s)]
           after == [s \in Slots |->
                        IF \E x \in transactions' : x.slot = s
                        THEN (CHOOSE x \in transactions' : x.slot = s).id ELSE None]
<1>11. after = [bound EXCEPT ![s0] = id]
  <2>1. \A s \in Slots : after[s] = [bound EXCEPT ![s0] = id][s]
    <3> TAKE s \in Slots
    <3>1. CASE s = s0
      <4>1. \E x \in transactions' : x.slot = s0
        BY <1>4
      <4> QED
        BY <1>2, <1>9, <3>1, <4>1
    <3>2. CASE s # s0
      BY <1>10, <3>2
    <3> QED
      BY <3>1, <3>2
  <2> QED
    BY <2>1
<1>12. Promise!Bind(s0, id)
  <2>1. [s \in Slots |-> BoundTo(s)]' = after
    BY DEF BoundTo
  <2>2. bound[s0] = None /\ \A s \in Slots : bound[s] # id
    BY <1>2, <1>7, <1>8
  <2>3. {<<r.slot, r.response.id>> : r \in replies}'
            = {<<r.slot, r.response.id>> : r \in replies}
    BY <1>5
  <2> HIDE DEF after
  <2> QED
    BY <1>11, <2>1, <2>2, <2>3 DEF Promise!Bind
<1> QED
  BY <1>2, <1>3, <1>12 DEF Promise!Next

\* The 201 tells the client the binding.
LEMMA ReplyRefines ==
    ASSUME IInv, IInv', NEW h \in Handlers, Reply(h)
    PROVE  Promise!Next
<1>1. /\ transactions \in SUBSET Row /\ UniqueTransaction
      /\ UNCHANGED transactions
  BY DEF IInv, TypeOK, Reply
<1>2. /\ SlotOf(job[h]) \in Slots /\ job[h].response # None
      /\ TrueOf(transactions, job[h].response, SlotOf(job[h]))
  BY InFlight DEF Reply, JobSound
<1>3. PICK s0 \in Slots, r0 \in {job[h].response} :
          /\ s0 = SlotOf(job[h]) /\ r0 = job[h].response
          /\ TrueOf(transactions, r0, s0)
  BY <1>2
<1>7. replies' = replies \cup {[slot |-> s0, response |-> r0]}
  BY <1>3 DEF Reply
<1>8. \E new : replies' = replies \cup {new} /\ new.slot = s0 /\ new.response = r0
  <2>1. /\ [slot |-> s0, response |-> r0].slot = s0
        /\ [slot |-> s0, response |-> r0].response = r0
    OBVIOUS
  <2> QED
    BY <1>7, <2>1
<1>4. PICK x \in transactions : x.slot = s0 /\ x.id = r0.id
  BY <1>3 DEF TrueOf
<1>5. BoundTo(s0) = r0.id /\ r0.id # None
  BY <1>1, <1>4, BoundFacts, NoneAssumption DEF Row
<1>6. Promise!Tell(s0)
  <2>1. [s \in Slots |-> BoundTo(s)]' = [s \in Slots |-> BoundTo(s)]
    BY <1>1 DEF BoundTo
  <2>2. [s \in Slots |-> BoundTo(s)][s0] = r0.id
    BY <1>5
  <2>3. {<<r.slot, r.response.id>> : r \in replies}'
            = {<<r.slot, r.response.id>> : r \in replies} \cup {<<s0, r0.id>>}
    BY <1>8
  <2> QED
    BY <1>5, <2>1, <2>2, <2>3 DEF Promise!Tell
<1> QED
  BY <1>6 DEF Promise!Next

\* Every other step is invisible to the merchant.
LEMMA QuietRefines ==
    ASSUME IInv, IInv', Grows, UNCHANGED replies,
           \A y \in transactions' : \E x \in transactions : x.slot = y.slot
    PROVE  UNCHANGED Promise!vars
<1>1. \A s : BoundTo(s)' = BoundTo(s)
  BY SameBindings
<1>2. [s \in Slots |-> BoundTo(s)]' = [s \in Slots |-> BoundTo(s)]
  BY <1>1
<1>3. {<<r.slot, r.response.id>> : r \in replies}'
          = {<<r.slot, r.response.id>> : r \in replies}
  OBVIOUS
<1> QED
  BY <1>2, <1>3 DEF Promise!vars

LEMMA StepRefines == IInv /\ IInv' /\ [Next]_vars => [Promise!Next]_(Promise!vars)
<1> SUFFICES ASSUME IInv, IInv', [Next]_vars PROVE Promise!Next \/ UNCHANGED Promise!vars
  OBVIOUS
<1>1. CASE UNCHANGED <<transactions, replies>>
  BY <1>1, SameGrows, QuietRefines
<1>2. ASSUME NEW h \in Handlers, WriteQris(h) PROVE UNCHANGED Promise!vars
  <2>1. transactions \in SUBSET Row /\ UniqueTransaction /\ UNCHANGED replies
    BY <1>2 DEF IInv, TypeOK, WriteQris
  <2>2. PICK x \in transactions :
            transactions' = (transactions \ {x}) \cup {[x EXCEPT !.qris = TRUE]}
    BY <1>2 DEF WriteQris
  <2> DEFINE y == [x EXCEPT !.qris = TRUE]
  <2>3. /\ y \in Row /\ y.id = x.id /\ y.slot = x.slot /\ y.amount = x.amount
        /\ y.qris /\ y.pending = x.pending
    BY <2>1 DEF Row
  <2>4. transactions' = (transactions \ {x}) \cup {y}
    BY <2>2
  <2> HIDE DEF y
  <2>5. Grows
    BY <2>1, <2>3, <2>4, ReplaceRow
  <2> QED
    BY <2>1, <2>3, <2>4, <2>5, QuietRefines
<1>3. ASSUME NEW x \in transactions, Settle(x) PROVE UNCHANGED Promise!vars
  <2>1. transactions \in SUBSET Row /\ UniqueTransaction /\ UNCHANGED replies
    BY <1>3 DEF IInv, TypeOK, Settle
  <2> DEFINE y == [x EXCEPT !.pending = FALSE]
  <2>2. /\ y \in Row /\ y.id = x.id /\ y.slot = x.slot /\ y.amount = x.amount
        /\ y.qris = x.qris /\ y.pending = FALSE
    BY <2>1 DEF Row
  <2>3. transactions' = (transactions \ {x}) \cup {y}
    BY <1>3 DEF Settle
  <2> HIDE DEF y
  <2>4. Grows
    BY <2>1, <2>2, <2>3, ReplaceRow
  <2> QED
    BY <2>1, <2>2, <2>3, <2>4, QuietRefines
<1>4. ASSUME NEW h \in Handlers, Insert(h)
      PROVE  Promise!Next \/ UNCHANGED <<transactions, replies>>
  BY <1>4, InsertRefines DEF Insert
<1>5. ASSUME NEW h \in Handlers, Progress(h) \/ Abort(h)
      PROVE  Promise!Next \/ UNCHANGED Promise!vars
  BY <1>1, <1>2, <1>4, <1>5, ReplyRefines
     DEF Progress, GetCached, Lookup, Store, ReplyConflict, Abort
<1>6. ASSUME NEW h \in Handlers, NEW m \in Merchants, NEW k \in ClientKeys,
             NEW a \in Amounts, Receive(h, m, k, a)
      PROVE  UNCHANGED <<transactions, replies>>
  BY <1>6 DEF Receive
<1>7. ASSUME NEW s \in Slots, Evict(s) PROVE UNCHANGED <<transactions, replies>>
  BY <1>7 DEF Evict
<1>8. CASE UNCHANGED vars
  BY <1>1, <1>8 DEF vars
<1> QED
  BY <1>1, <1>3, <1>5, <1>6, <1>7, <1>8 DEF Next

\* Refinement: whatever the cache loses and wherever requests race or stop, a merchant
\* sees each key bound to one transaction once and for ever.
THEOREM ImplementsPromise == Spec => PromiseSpec
<1>1. Init => Promise!Init
  BY InitRefines
<1>2. IInv /\ IInv' /\ [Next]_vars => [Promise!Next]_(Promise!vars)
  BY StepRefines
<1> QED
  BY <1>1, <1>2, Inductive, PTL DEF Spec, PromiseSpec, Promise!Spec

----------------------------------------------------------------------------------
(* The rows without a QRIS string. *)

\* A part of a finite set is finite and no larger.
LEMMA Fewer ==
    ASSUME NEW B, IsFiniteSet(B), NEW A \in SUBSET B
    PROVE  IsFiniteSet(A) /\ Cardinality(A) \in Nat /\ Cardinality(A) <= Cardinality(B)
  BY FS_Subset, FS_CardinalityType

\* One element more or the same number.
LEMMA OneMore ==
    ASSUME NEW B, IsFiniteSet(B), NEW z
    PROVE  /\ IsFiniteSet(B \cup {z})
           /\ Cardinality(B \cup {z}) <= Cardinality(B) + 1
<1>1. /\ IsFiniteSet(B \cup {z})
      /\ Cardinality(B \cup {z}) = IF z \in B THEN Cardinality(B) ELSE Cardinality(B) + 1
  BY FS_AddElement
<1>2. PICK n \in Nat : n = Cardinality(B)
  BY FS_CardinalityType
<1> QED
  BY <1>1, <1>2

\* One element for another.
LEMMA Swapped ==
    ASSUME NEW B, IsFiniteSet(B), NEW x \in B, NEW y
    PROVE  /\ IsFiniteSet((B \ {x}) \cup {y})
           /\ Cardinality((B \ {x}) \cup {y}) <= Cardinality(B)
<1>1. /\ IsFiniteSet(B \ {x}) /\ Cardinality(B \ {x}) = Cardinality(B) - 1
      /\ Cardinality(B) \in Nat
  BY FS_RemoveElement, FS_CardinalityType
<1>2. /\ IsFiniteSet((B \ {x}) \cup {y})
      /\ Cardinality((B \ {x}) \cup {y}) <= Cardinality(B \ {x}) + 1
  BY <1>1, OneMore
<1>3. /\ Cardinality((B \ {x}) \cup {y}) \in Nat
      /\ Cardinality(B \ {x}) \in Nat
  BY <1>1, <1>2, FS_CardinalityType
<1> QED
  BY <1>1, <1>2, <1>3

\* What the count of the blank rows rests on.
BlankInv == IInv /\ BlankFinite /\ BlankRowsAccounted

\* No row turns blank: the count stands.
LEMMA NoMoreBlank ==
    ASSUME BlankInv, aborts' = aborts, Blank' \in SUBSET Blank
    PROVE  BlankFinite' /\ BlankRowsAccounted'
<1>1. PICK B : B = Blank
  OBVIOUS
<1>2. PICK C : C = Blank'
  OBVIOUS
<1>3. IsFiniteSet(C) /\ Cardinality(C) \in Nat /\ Cardinality(C) <= Cardinality(B)
  BY <1>1, <1>2, Fewer DEF BlankInv, BlankFinite
<1>4. Cardinality(B) \in Nat /\ aborts \in Nat
  BY <1>1, FS_CardinalityType DEF BlankInv, BlankFinite, IInv, TypeOK
<1> QED
  BY <1>1, <1>2, <1>3, <1>4 DEF BlankInv, BlankFinite, BlankRowsAccounted

\* While the rows stay and whoever writes a string goes on to do so, none turns blank.
LEMMA WritersStay ==
    ASSUME UNCHANGED transactions,
           \A g \in Handlers : job[g].pc = "qris" =>
               job'[g].pc = "qris" /\ job'[g].id = job[g].id
    PROVE  Blank' \in SUBSET Blank
  BY DEF Blank

\* A handler's step from anywhere but the write of the string to anywhere.
LEMMA OtherSteps ==
    ASSUME IInv, NEW h \in Handlers, NEW j, Goto(h, j), job[h].pc # "qris",
           UNCHANGED transactions
    PROVE  Blank' \in SUBSET Blank
<1>1. \A g \in Handlers : g # h => job'[g] = job[g]
  BY DEF IInv, TypeOK, Goto
<1> QED
  BY <1>1, WritersStay

\* The row of an INSERT is its inserter's to complete.
LEMMA InsertBlank ==
    ASSUME IInv, NEW h \in Handlers, Insert(h)
    PROVE  Blank' \in SUBSET Blank
<1>1. job[h] \in Job /\ job[h].pc = "insert" /\ job \in [Handlers -> Job]
  BY DEF Insert, IInv, TypeOK
<1>2. CASE Violates(SlotOf(job[h]))
  BY <1>1, <1>2, OtherSteps DEF Insert
<1>3. CASE ~Violates(SlotOf(job[h]))
  <2>1. PICK id \in Ids \ {x.id : x \in transactions} :
            /\ transactions' = transactions \cup
                   {[id |-> id, slot |-> SlotOf(job[h]), amount |-> job[h].amount,
                     qris |-> FALSE, pending |-> TRUE]}
            /\ Goto(h, [job[h] EXCEPT !.pc = "qris", !.id = id])
    BY <1>3 DEF Insert
  <2>2. PICK y : y.id = id /\ transactions' = transactions \cup {y}
    BY <2>1
  <2>3. /\ job'[h].pc = "qris" /\ job'[h].id = id
        /\ \A g \in Handlers : g # h => job'[g] = job[g]
    BY <1>1, <2>1 DEF Goto, Job
  <2> QED
    BY <1>1, <2>2, <2>3 DEF Blank
<1> QED
  BY <1>2, <1>3

\* The only row a WriteQris leaves without its writer is the one it completes.
LEMMA WriteQrisBlank ==
    ASSUME IInv, NEW h \in Handlers, WriteQris(h)
    PROVE  Blank' \in SUBSET Blank
<1>1. /\ job[h].pc = "qris" /\ transactions \in SUBSET Row /\ UniqueTransaction
      /\ job \in [Handlers -> Job]
  BY DEF WriteQris, IInv, TypeOK
<1>2. PICK x \in transactions :
          /\ x.id = job[h].id
          /\ transactions' = (transactions \ {x}) \cup {[x EXCEPT !.qris = TRUE]}
          /\ Goto(h, [job[h] EXCEPT !.pc = "store",
                         !.response = [id |-> x.id, qris |-> TRUE,
                                       amount |-> x.amount, pending |-> TRUE]])
  BY DEF WriteQris
<1>3. PICK y : y.qris /\ transactions' = (transactions \ {x}) \cup {y}
  BY <1>1, <1>2 DEF Row
<1>4. \A g \in Handlers : g # h => job'[g] = job[g]
  BY <1>1, <1>2 DEF Goto
<1>5. \A z \in transactions \ {x} : z.id # job[h].id
  BY <1>1, <1>2 DEF UniqueTransaction
<1> QED
  BY <1>3, <1>4, <1>5 DEF Blank

\* A settled row is blank if it was.
LEMMA SettleBlank ==
    ASSUME BlankInv, NEW x \in transactions, Settle(x)
    PROVE  BlankFinite' /\ BlankRowsAccounted'
<1>1. x \in Row /\ aborts \in Nat /\ aborts' = aborts /\ job' = job
  BY DEF BlankInv, IInv, TypeOK, Settle
<1>2. PICK y : /\ y.id = x.id /\ y.qris = x.qris
               /\ transactions' = (transactions \ {x}) \cup {y}
  <2>1. /\ [x EXCEPT !.pending = FALSE].id = x.id
        /\ [x EXCEPT !.pending = FALSE].qris = x.qris
    BY <1>1 DEF Row
  <2> QED
    BY <2>1 DEF Settle
<1>3. CASE x \in Blank
  <2>1. PICK B : B = Blank
    OBVIOUS
  <2>2. PICK C : C = Blank'
    OBVIOUS
  <2>3. C \in SUBSET ((B \ {x}) \cup {y})
    BY <1>1, <1>2, <2>1, <2>2 DEF Blank
  <2>4. /\ IsFiniteSet((B \ {x}) \cup {y})
        /\ Cardinality((B \ {x}) \cup {y}) <= Cardinality(B)
    BY <1>3, <2>1, Swapped DEF BlankInv, BlankFinite
  <2>5. /\ IsFiniteSet(C) /\ Cardinality(C) \in Nat
        /\ Cardinality(C) <= Cardinality((B \ {x}) \cup {y})
    BY <2>3, <2>4, Fewer
  <2>6. Cardinality(B) \in Nat /\ Cardinality((B \ {x}) \cup {y}) \in Nat
    BY <2>1, <2>4, FS_CardinalityType DEF BlankInv, BlankFinite
  <2>7. Cardinality(B) <= aborts
    BY <2>1 DEF BlankInv, BlankRowsAccounted
  <2>8. Cardinality(C) <= aborts'
    BY <1>1, <2>4, <2>5, <2>6, <2>7
  <2> QED
    BY <2>2, <2>5, <2>8 DEF BlankFinite, BlankRowsAccounted
<1>4. CASE x \notin Blank
  <2>1. Blank' \in SUBSET Blank
    BY <1>1, <1>2, <1>4 DEF Blank
  <2> QED
    BY <1>1, <2>1, NoMoreBlank
<1> QED
  BY <1>3, <1>4

\* A handler that stops leaves one row blank at most: its own.
LEMMA AbortBlank ==
    ASSUME BlankInv, NEW h \in Handlers, Abort(h)
    PROVE  BlankFinite' /\ BlankRowsAccounted'
<1>1. /\ UniqueTransaction /\ job \in [Handlers -> Job] /\ aborts \in Nat
      /\ aborts' = aborts + 1 /\ transactions' = transactions
      /\ \A g \in Handlers : g # h => job'[g] = job[g]
  BY DEF BlankInv, IInv, TypeOK, Abort, Goto
<1>2. PICK B : B = Blank
  OBVIOUS
<1>3. PICK C : C = Blank'
  OBVIOUS
<1>4. \E z : C \in SUBSET (B \cup {z})
  <2>1. CASE \E x \in transactions : x.id = job[h].id
    <3>1. PICK x \in transactions : x.id = job[h].id
      BY <2>1
    <3>2. \A u \in transactions \ {x} : u.id # job[h].id
      BY <1>1, <3>1 DEF UniqueTransaction
    <3>3. C \in SUBSET (B \cup {x})
      BY <1>1, <1>2, <1>3, <3>2 DEF Blank
    <3> QED
      BY <3>3
  <2>2. CASE \A x \in transactions : x.id # job[h].id
    BY <1>1, <1>2, <1>3, <2>2 DEF Blank
  <2> QED
    BY <2>1, <2>2
<1>5. PICK z : C \in SUBSET (B \cup {z})
  BY <1>4
<1>6. /\ IsFiniteSet(B \cup {z}) /\ Cardinality(B \cup {z}) <= Cardinality(B) + 1
      /\ IsFiniteSet(B)
  BY <1>2, OneMore DEF BlankInv, BlankFinite
<1>7. /\ IsFiniteSet(C) /\ Cardinality(C) \in Nat
      /\ Cardinality(C) <= Cardinality(B \cup {z})
  BY <1>5, <1>6, Fewer
<1>8. Cardinality(B) \in Nat /\ Cardinality(B \cup {z}) \in Nat
  BY <1>6, FS_CardinalityType
<1>9. Cardinality(B) <= aborts
  BY <1>2 DEF BlankInv, BlankRowsAccounted
<1>10. Cardinality(C) <= aborts'
  BY <1>1, <1>6, <1>7, <1>8, <1>9
<1> QED
  BY <1>3, <1>7, <1>10 DEF BlankFinite, BlankRowsAccounted

LEMMA InitBlank == Init => BlankFinite /\ BlankRowsAccounted
<1> SUFFICES ASSUME Init PROVE BlankFinite /\ BlankRowsAccounted
  OBVIOUS
<1>1. Blank = {} /\ aborts = 0
  BY DEF Init, Blank
<1>2. IsFiniteSet({}) /\ Cardinality({}) = 0
  BY FS_EmptySet
<1> QED
  BY <1>1, <1>2 DEF BlankFinite, BlankRowsAccounted

LEMMA NextBlank == BlankInv /\ [Next]_vars => BlankFinite' /\ BlankRowsAccounted'
<1> SUFFICES ASSUME BlankInv, [Next]_vars
             PROVE  BlankFinite' /\ BlankRowsAccounted'
  OBVIOUS
<1>1. IInv
  BY DEF BlankInv
<1>2. ASSUME NEW h \in Handlers, Progress(h)
      PROVE  aborts' = aborts /\ Blank' \in SUBSET Blank
  <2>1. CASE Insert(h)
    BY <1>1, <2>1, InsertBlank DEF Insert
  <2>2. CASE WriteQris(h)
    BY <1>1, <2>2, WriteQrisBlank DEF WriteQris
  <2>3. CASE GetCached(h)
    BY <1>1, <2>3, OtherSteps DEF GetCached
  <2>4. CASE Lookup(h)
    BY <1>1, <2>4, OtherSteps DEF Lookup
  <2>5. CASE Store(h)
    BY <1>1, <2>5, OtherSteps DEF Store
  <2>6. CASE Reply(h)
    BY <1>1, <2>6, OtherSteps DEF Reply
  <2>7. CASE ReplyConflict(h)
    BY <1>1, <2>7, OtherSteps DEF ReplyConflict
  <2> QED
    BY <1>2, <2>1, <2>2, <2>3, <2>4, <2>5, <2>6, <2>7 DEF Progress
<1>3. ASSUME NEW h \in Handlers, NEW m \in Merchants, NEW k \in ClientKeys,
             NEW a \in Amounts, Receive(h, m, k, a)
      PROVE  aborts' = aborts /\ Blank' \in SUBSET Blank
  BY <1>1, <1>3, OtherSteps DEF Receive
<1>4. ASSUME NEW s \in Slots, Evict(s)
      PROVE  aborts' = aborts /\ Blank' \in SUBSET Blank
  BY <1>4, WritersStay DEF Evict
<1>5. CASE UNCHANGED vars
  <2>1. aborts' = aborts /\ Blank' \in SUBSET Blank
    BY <1>5, WritersStay DEF vars
  <2> QED
    BY <2>1, NoMoreBlank
<1> QED
  BY <1>2, <1>3, <1>4, <1>5, NoMoreBlank, AbortBlank, SettleBlank DEF Next

\* A transaction is left without a QRIS string for ever only by a handler that stopped
\* between createTransaction's two writes: there are no more such rows than stops.
THEOREM BlankRowsStayAccounted == Spec => []BlankRowsAccounted
<1>1. Init => BlankInv
  BY InitIInv, InitBlank DEF BlankInv
<1>2. BlankInv /\ [Next]_vars => BlankInv'
  BY NextIInv, NextBlank DEF BlankInv
<1>3. BlankInv => BlankRowsAccounted
  BY DEF BlankInv
<1> QED
  BY <1>1, <1>2, <1>3, PTL DEF Spec
===================================================================================
