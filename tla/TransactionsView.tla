------------------------------- MODULE TransactionsView ------------------------------
(***************************************************************************)
(* The dashboard's view of the transactions of one merchant: the list with its filter  *)
(* and pages, the detail dialog with its refund, and the analytics card.  Every query   *)
(* of the backend is a sweep followed by statements that see the table at different     *)
(* moments; every answer goes into the query cache under the key it was asked for.      *)
(*                                                                         *)
(* What settles transactions is TransactionEngine; here the table moves by itself along  *)
(* the transition table.  Ids are in the order of creation.                          *)
(***************************************************************************)
EXTENDS Naturals, FiniteSets, TransactionStateMachine

CONSTANTS
    MaxTxns,       \* transactions ever created (bound of the model)
    Limit,         \* rows on a page
    Filters,       \* the statuses chosen in the filter; a search text is another one
    Outcomes,      \* the statuses that transactions reach
    MaxSearches,   \* lists asked for at the same time (bound of the model)
    MaxMoves,      \* filter, page and dialog changes and departures of the user (bound)
    MaxMounts,     \* times the transactions page is entered (bound of the model)
    MaxLosses      \* answers the network loses (bound of the model)

ASSUME ViewAssumption ==
    /\ MaxTxns \in Nat \ {0} /\ Limit \in Nat \ {0}
    /\ MaxSearches \in Nat \ {0} /\ MaxMoves \in Nat /\ MaxMounts \in Nat \ {0}
    /\ MaxLosses \in Nat
    /\ "ALL" \in Filters /\ Filters \subseteq Status \cup {"ALL"}
    /\ Outcomes \subseteq Status

VARIABLES
    row,           \* the transactions table: a status, or NoStatus
    filter, number, selected,   \* transactions.store: status, page, selectedId
    mount, away,   \* the page's last mount, and whether the browser is elsewhere
    list,          \* the cached ["transactions", filter, page]
    search,        \* the search under way for each key
    detail,        \* the cached ["transaction", id]
    wanted,        \* the detail queries under way
    reading,       \* what the backend read for them
    refund,        \* handleRefund of each mount: isRefunding, for which transaction, and
                   \*   what the detail query observes since the mount was left
    moves, losses, \* how many there were
    left,          \* auxiliary: filters that a row has left
    excused        \* auxiliary: refunded transactions that a detail may not show as such

visit == <<mount, away>>
vars == <<row, filter, number, selected, visit, list, search, detail, wanted, reading,
          refund, moves, losses, left, excused>>

Txns == 1 .. MaxTxns
Pages == 1 .. MaxTxns
Mounts == 1 .. MaxMounts
Keys == Filters \X Pages
Shown == <<filter, number>>

Created == {i \in Txns : row[i] # NoStatus}
Matching(f) == {i \in Created : f = "ALL" \/ row[i] = f}

\* Mutant of PageOf: the pages are counted from zero.
PageOfFromZero(k) ==
    LET newer(i) == Cardinality({j \in Matching(k[1]) : j > i})
    IN  {[id |-> i, status |-> row[i]] : i \in
            {i \in Matching(k[1]) : newer(i) \in k[2] * Limit .. (k[2] + 1) * Limit - 1}}

\* findMany: newest first, skip (page - 1) * limit, take limit.
PageOf(k) ==
    LET newer(i) == Cardinality({j \in Matching(k[1]) : j > i})
    IN  {[id |-> i, status |-> row[i]] : i \in
            {i \in Matching(k[1]) : newer(i) \in (k[2] - 1) * Limit .. k[2] * Limit - 1}}

\* count.
TotalOf(k) == Cardinality(Matching(k[1]))

Item == [id : Txns, status : Status]
NoList == [items |-> {}, total |-> 0, torn |-> FALSE, loaded |-> FALSE]
NoSearch == [sent |-> FALSE, done |-> {}, items |-> {}, total |-> 0, torn |-> FALSE]

\* Mutant of TotalPages: one page too many when the last one is full.
TotalPagesRoundedUp(total) == total \div Limit + 1

\* Math.max(1, Math.ceil(total / limit)).
TotalPages(total) == IF total = 0 THEN 1 ELSE (total + Limit - 1) \div Limit

TypeOK ==
    /\ row \in [Txns -> Status \cup {NoStatus}]
    /\ filter \in Filters /\ number \in Pages /\ selected \in Txns \cup {0}
    /\ list \in [Keys -> [items : SUBSET Item, total : 0 .. MaxTxns,
                          torn : BOOLEAN, loaded : BOOLEAN]]
    /\ search \in [Keys -> [sent : BOOLEAN, done : SUBSET {"items", "total"},
                            items : SUBSET Item, total : 0 .. MaxTxns, torn : BOOLEAN]]
    /\ detail \in [Txns -> Status \cup {NoStatus}]
    /\ wanted \subseteq Txns /\ reading \in [Txns -> Status \cup {NoStatus}]
    /\ mount \in Mounts /\ away \in BOOLEAN /\ (away => mount < MaxMounts)
    /\ refund \in [Mounts -> [pc : {"idle", "sent", "written", "ok", "refetch"},
                              id : Txns \cup {0}, key : Txns \cup {0}]]
    /\ moves \in 0 .. MaxMoves /\ losses \in 0 .. MaxLosses
    /\ left \subseteq Filters /\ excused \subseteq Txns

-----------------------------------------------------------------------------------
(* The table. *)

\* A search that has made one of its two statements sees the table torn.
Torn == [k \in Keys |->
            IF Cardinality(search[k].done) = 1 THEN [search[k] EXCEPT !.torn = TRUE]
                                               ELSE search[k]]

\* A payment is created.
Create ==
    /\ \E i \in Txns : /\ row[i] = NoStatus /\ \A j \in Txns : j < i => row[j] # NoStatus
                       /\ row' = [row EXCEPT ![i] = "PENDING"]
    /\ search' = Torn
    /\ UNCHANGED <<filter, number, selected, visit, list, detail, wanted, reading,
                   refund, moves, losses, left, excused>>

SetStatus(i, status) ==
    /\ row' = [row EXCEPT ![i] = status]
    /\ left' = left \cup ({row[i]} \cap Filters)
    /\ search' = Torn

\* The bank, a sweep, or a refund that another client asked for.
Move(i, status) ==
    /\ row[i] # NoStatus /\ status \in Outcomes /\ isValidTransition(row[i], status)
    /\ SetStatus(i, status)
    /\ excused' = IF status = "REFUNDED" THEN excused \cup {i} ELSE excused
    /\ UNCHANGED <<filter, number, selected, visit, list, detail, wanted, reading,
                   refund, moves, losses>>

-----------------------------------------------------------------------------------
(* The list. *)

\* Mutant of Fetch: no refetchInterval.
FetchOnce ==
    /\ ~away /\ ~list[Shown].loaded
    /\ ~search[Shown].sent /\ Cardinality({k \in Keys : search[k].sent}) < MaxSearches
    /\ search' = [search EXCEPT ![Shown].sent = TRUE]
    /\ UNCHANGED <<row, filter, number, selected, visit, list, detail, wanted, reading,
                   refund, moves, losses, left, excused>>

\* The page is opened, refreshes itself every 15 seconds, or looks at another key.
Fetch ==
    /\ ~away
    /\ ~search[Shown].sent /\ Cardinality({k \in Keys : search[k].sent}) < MaxSearches
    /\ search' = [search EXCEPT ![Shown].sent = TRUE]
    /\ UNCHANGED <<row, filter, number, selected, visit, list, detail, wanted, reading,
                   refund, moves, losses, left, excused>>

\* The two statements of Promise.all, in either order.
FindMany(k) ==
    /\ search[k].sent /\ "items" \notin search[k].done
    /\ search' = [search EXCEPT ![k].done = @ \cup {"items"}, ![k].items = PageOf(k)]
    /\ UNCHANGED <<row, filter, number, selected, visit, list, detail, wanted, reading,
                   refund, moves, losses, left, excused>>

Count(k) ==
    /\ search[k].sent /\ "total" \notin search[k].done
    /\ search' = [search EXCEPT ![k].done = @ \cup {"total"}, ![k].total = TotalOf(k)]
    /\ UNCHANGED <<row, filter, number, selected, visit, list, detail, wanted, reading,
                   refund, moves, losses, left, excused>>

\* The answer becomes the list of its key.
Answer(k) ==
    /\ search[k].done = {"items", "total"}
    /\ list' = [list EXCEPT ![k] = [items |-> search[k].items, total |-> search[k].total,
                                    torn |-> search[k].torn, loaded |-> TRUE]]
    /\ search' = [search EXCEPT ![k] = NoSearch]
    /\ UNCHANGED <<row, filter, number, selected, visit, detail, wanted, reading,
                   refund, moves, losses, left, excused>>

\* No answer, or the 400 of the sweep that searchTransactions begins with, when a row of
\* that sweep has been settled by somebody else (TransactionEngine): the list stays.
LoseAnswer(k) ==
    /\ search[k].sent
    /\ losses < MaxLosses /\ losses' = losses + 1
    /\ search' = [search EXCEPT ![k] = NoSearch]
    /\ UNCHANGED <<row, filter, number, selected, visit, list, detail, wanted, reading,
                   refund, moves, left, excused>>

-----------------------------------------------------------------------------------
(* The user. *)

Moving == ~away /\ moves < MaxMoves /\ moves' = moves + 1

\* setStatus, and setSearch: back to the first page.
setStatus(f) ==
    /\ Moving /\ f # filter
    /\ filter' = f /\ number' = 1
    /\ UNCHANGED <<row, selected, visit, list, search, detail, wanted, reading, refund,
                   losses, left, excused>>

\* The two buttons, which are there only below a list with rows.
TurnPage(n) ==
    /\ Moving
    /\ list[Shown].items # {}
    /\ \/ number > 1 /\ n = number - 1
       \/ number < TotalPages(list[Shown].total) /\ n = number + 1
    /\ number' = n
    /\ UNCHANGED <<row, filter, selected, visit, list, search, detail, wanted, reading,
                   refund, losses, left, excused>>

\* useTransactionDetail: a detail is asked for unless it is cached and younger than a
\* minute; a request that is under way serves for it.
UseDetail(i) ==
    wanted' \in {wanted \cup {i}} \cup (IF detail[i] = NoStatus THEN {} ELSE {wanted})

\* A row of the list is opened.  The dialog's isRefunding stays, it belongs to the mount.
Open(i) ==
    /\ Moving
    /\ \E item \in list[Shown].items : item.id = i
    /\ selected = 0 /\ selected' = i
    /\ UseDetail(i)
    /\ UNCHANGED <<row, filter, number, visit, list, search, detail, reading, refund,
                   losses, left, excused>>

Close ==
    /\ ~away /\ selected # 0 /\ selected' = 0
    /\ UNCHANGED <<row, filter, number, visit, list, search, detail, wanted, reading,
                   refund, moves, losses, left, excused>>

\* The page is left, by a link or by the browser's buttons.  The store, the query cache
\* and whatever is under way stay; the mount's detail query keeps its last key.
Leave ==
    /\ mount < MaxMounts /\ Moving
    /\ away' = TRUE
    /\ refund' = IF refund[mount].pc = "idle" THEN refund
                                             ELSE [refund EXCEPT ![mount].key = selected]
    /\ UNCHANGED <<row, filter, number, selected, mount, list, search, detail, wanted,
                   reading, losses, left, excused>>

\* The page is entered again, with the dialog the store still shows and a state of its
\* own: useState starts anew.
Return ==
    /\ away /\ away' = FALSE /\ mount' = mount + 1
    /\ IF selected = 0 THEN UNCHANGED wanted ELSE UseDetail(selected)
    /\ UNCHANGED <<row, filter, number, selected, list, search, detail, reading,
                   refund, moves, losses, left, excused>>

\* getTransactionDetail, which sweeps too, reads the transaction ...
ReadDetail(i) ==
    /\ i \in wanted /\ reading[i] = NoStatus
    /\ reading' = [reading EXCEPT ![i] = row[i]]
    /\ UNCHANGED <<row, filter, number, selected, visit, list, search, detail, wanted,
                   refund, moves, losses, left, excused>>

\* ... and its answer is cached when it arrives, by when the row may have moved on; a
\* failure leaves what is cached.
LoadDetail(i) ==
    /\ i \in wanted /\ wanted' = wanted \ {i}
    /\ reading' = [reading EXCEPT ![i] = NoStatus]
    /\ \/ /\ reading[i] # NoStatus
          /\ detail' = [detail EXCEPT ![i] = reading[i]]
          /\ excused' = IF reading[i] = row[i] THEN excused \ {i} ELSE excused
          /\ UNCHANGED losses
       \/ /\ losses < MaxLosses /\ losses' = losses + 1
          /\ excused' = IF row[i] = "REFUNDED" THEN excused \cup {i} ELSE excused
          /\ UNCHANGED detail
    /\ UNCHANGED <<row, filter, number, selected, visit, list, search, refund,
                   moves, left>>

-----------------------------------------------------------------------------------
(* handleRefund, a closure of the mount whose button was clicked. *)

\* The transaction that the detail query of a mount observes.
Observed(m) == IF m = mount /\ ~away THEN selected ELSE refund[m].key

Click ==
    /\ ~away /\ selected # 0 /\ detail[selected] = "SUCCESS" /\ refund[mount].pc = "idle"
    /\ refund' = [refund EXCEPT ![mount] = [pc |-> "sent", id |-> selected, key |-> 0]]
    /\ UNCHANGED <<row, filter, number, selected, visit, list, search, detail, wanted,
                   reading, moves, losses, left, excused>>

Idle == [pc |-> "idle", id |-> 0, key |-> 0]

NotRefunding(m) == refund' = [refund EXCEPT ![m] = Idle]

\* refundTransaction up to its transition, which the state machine may refuse.
Transition(m) ==
    /\ refund[m].pc = "sent"
    /\ \/ /\ isValidTransition(row[refund[m].id], "REFUNDED")
          /\ SetStatus(refund[m].id, "REFUNDED")
          /\ refund' = [refund EXCEPT ![m].pc = "written"]
       \/ /\ ~isValidTransition(row[refund[m].id], "REFUNDED")
          /\ NotRefunding(m)
          /\ UNCHANGED <<row, left, search>>
    /\ UNCHANGED <<filter, number, selected, visit, list, detail, wanted, reading,
                   moves, losses, excused>>

\* Its answer is getTransactionDetail, behind another sweep: what is written can be
\* answered with that sweep's 400, or not at all, and is then shown as failed.
Reply(m) ==
    /\ refund[m].pc = "written"
    /\ \/ refund' = [refund EXCEPT ![m].pc = "ok"] /\ UNCHANGED <<losses, excused>>
       \/ /\ losses < MaxLosses /\ losses' = losses + 1
          /\ excused' = excused \cup {refund[m].id}
          /\ NotRefunding(m)
    /\ UNCHANGED <<row, filter, number, selected, visit, list, search, detail, wanted,
                   reading, moves, left>>

\* Mutant of Refetch: the lists and analytics are refreshed, the dialog is not.
RefetchListsOnly(m) ==
    /\ refund[m].pc = "ok"
    /\ refund' = [refund EXCEPT ![m].pc = "refetch", ![m].id = Observed(m)]
    /\ excused' = excused \cup ({refund[m].id} \ {Observed(m)})
    /\ UNCHANGED <<row, filter, number, selected, visit, list, search, detail, wanted,
                   reading, moves, losses, left>>

\* The answer has arrived: detailQuery.refetch() asks for what this mount's query
\* observes by now, the null key if the dialog is closed or was when the page was left,
\* in place of a request under way where something is cached already; the lists and
\* analytics are invalidated, the details are not.
Refetch(m) ==
    /\ refund[m].pc = "ok"
    /\ refund' = [refund EXCEPT ![m].pc = "refetch", ![m].id = Observed(m)]
    /\ wanted' = wanted \cup ({Observed(m)} \ {0})
    /\ reading' = [i \in Txns |-> IF i = Observed(m) /\ detail[i] # NoStatus
                                  THEN NoStatus ELSE reading[i]]
    /\ excused' = excused \cup ({refund[m].id} \ {Observed(m)})
    /\ UNCHANGED <<row, filter, number, selected, visit, list, search, detail,
                   moves, losses, left>>

\* Promise.all is through, whether or not the refetch succeeded.
Refunded(m) ==
    /\ refund[m].pc = "refetch" /\ refund[m].id \notin wanted
    /\ NotRefunding(m)
    /\ UNCHANGED <<row, filter, number, selected, visit, list, search, detail, wanted,
                   reading, moves, losses, left, excused>>

Refund(m) == Transition(m) \/ Reply(m) \/ Refetch(m) \/ Refunded(m)

-----------------------------------------------------------------------------------
Init ==
    /\ row = [i \in Txns |-> NoStatus]
    /\ filter = "ALL" /\ number = 1 /\ selected = 0
    /\ list = [k \in Keys |-> NoList] /\ search = [k \in Keys |-> NoSearch]
    /\ detail = [i \in Txns |-> NoStatus] /\ wanted = {}
    /\ reading = [i \in Txns |-> NoStatus]
    /\ mount = 1 /\ away = FALSE
    /\ refund = [m \in Mounts |-> Idle]
    /\ moves = 0 /\ losses = 0
    /\ left = {} /\ excused = {}

User ==
    \/ \E f \in Filters : setStatus(f)
    \/ \E n \in Pages : TurnPage(n)
    \/ (\E i \in Txns : Open(i)) \/ Close \/ Leave \/ Return \/ Click

Searching(k) == FindMany(k) \/ Count(k) \/ Answer(k)

Next ==
    \/ Create \/ (\E i \in Txns, status \in Status : Move(i, status))
    \/ Fetch \/ (\E k \in Keys : Searching(k) \/ LoseAnswer(k))
    \/ User \/ (\E i \in Txns : ReadDetail(i) \/ LoadDetail(i))
    \/ \E m \in Mounts : Refund(m)

Spec == Init /\ [][Next]_vars

\* The page refreshes itself, and the backend goes on with what it has begun.
FairSpec ==
    /\ Spec
    /\ WF_vars(Fetch)
    /\ WF_vars(\E k \in Keys : Searching(k))

-----------------------------------------------------------------------------------
(* Safety. *)

\* The user is on a page that does not exist, from where no button leads back, only
\* after a row has left the filter: never in the unfiltered list, however payments
\* and pages come in.
EmptyPageExplained ==
    list[Shown].loaded /\ list[Shown].items = {} /\ number > 1 => filter \in left

\* The rows a page holds of a filter's total.
SizeOf(page, total) ==
    LET beyond == (page - 1) * Limit
        rest == IF total <= beyond THEN 0 ELSE total - beyond
    IN  IF rest < Limit THEN rest ELSE Limit

\* A list and its total belong to one state of the table, unless it changed between
\* the two statements.
ReadsCoherent ==
    \A k \in Keys : list[k].loaded /\ ~list[k].torn =>
        Cardinality(list[k].items) = SizeOf(k[2], list[k].total)

\* A refund that the backend has made and whose handler has yet to see to the dialog.
Unseen(m, i) == refund[m].pc \in {"written", "ok"} /\ refund[m].id = i

\* The dialog offers the refund of a refunded transaction only when somebody else
\* refunded it, an answer failed, the refund was asked for before the page was left and
\* is still under way, or its answer came when the dialog of the mount that asked showed
\* another transaction, or none, or had done so when that mount was left.
OfferExplained ==
    /\ ~away /\ selected # 0 /\ refund[mount].pc = "idle" /\ selected \notin wanted
           /\ detail[selected] = "SUCCESS" /\ row[selected] = "REFUNDED"
       => selected \in excused \/ \E m \in Mounts \ {mount} : Unseen(m, selected)

-----------------------------------------------------------------------------------
(* The inductive invariant behind the three properties above. *)

\* While no row leaves a filter, what it matches grows: a total that was counted is
\* still there, and a page is asked for only where there are rows, and has some.
PagesExist ==
    \A k \in Keys : k[1] \notin left =>
        /\ "total" \in search[k].done => search[k].total <= TotalOf(k)
        /\ list[k].total <= TotalOf(k)
        /\ k[2] > 1 /\ (k = Shown \/ search[k].sent) => (k[2] - 1) * Limit < TotalOf(k)
        /\ k[2] > 1 /\ "items" \in search[k].done => search[k].items # {}
        /\ k[2] > 1 /\ list[k].loaded => list[k].items # {}

\* Until the table changes, the first statement of a search is still true when the
\* second is made; only a search that was sent has made one.
SearchesCoherent ==
    \A k \in Keys :
        /\ search[k].done # {} => search[k].sent
        /\ ~search[k].torn =>
               /\ search[k].done = {"items"} => search[k].items = PageOf(k)
               /\ search[k].done = {"total"} => search[k].total = TotalOf(k)
               /\ search[k].done = {"items", "total"} =>
                      Cardinality(search[k].items) = SizeOf(k[2], search[k].total)

\* A detail that hides a refund, or an answer on its way that will, is excused, asked for
\* again, or the refund's own handler has yet to see to it.
OffersAccounted ==
    \A i \in Txns :
        /\ reading[i] # NoStatus => i \in wanted
        /\ row[i] = "REFUNDED" =>
               /\ detail[i] = "SUCCESS" =>
                      \/ i \in excused \/ (i \in wanted /\ reading[i] # "SUCCESS")
                      \/ \E m \in Mounts : Unseen(m, i)
               /\ reading[i] = "SUCCESS" =>
                      i \in excused \/ \E m \in Mounts : Unseen(m, i)

\* A refund under way has a transaction, whose detail is cached.
RefundSound ==
    \A m \in Mounts : refund[m].pc \in {"sent", "written", "ok"} =>
        refund[m].id \in Txns /\ detail[refund[m].id] # NoStatus

IInv ==
    /\ TypeOK /\ RefundSound
    /\ PagesExist /\ SearchesCoherent /\ ReadsCoherent /\ OffersAccounted

-----------------------------------------------------------------------------------
(* Liveness. *)

\* Once the user stays on the page, the shown list becomes what the table holds.
ViewConverges ==
    <>[](away \/ (/\ list[Shown].items = PageOf(Shown)
                  /\ list[Shown].total = TotalOf(Shown)))

===================================================================================
