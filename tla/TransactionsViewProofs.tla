---------------------------- MODULE TransactionsViewProofs ---------------------------
(***************************************************************************)
(* Proofs about TransactionsView, for any number of transactions, any page size and any  *)
(* filters: what a page holds of a filter's rows, IInv is inductive, and the three       *)
(* safety properties of the dashboard follow.                                        *)
(***************************************************************************)
EXTENDS TransactionsView, FiniteSetTheorems, TLAPS

-----------------------------------------------------------------------------------
(* Pages.  In a set of ids, the rank of an id is how many are newer. *)

Newer(M, i) == {j \in M : j > i}
Rank(M, i) == Cardinality(Newer(M, i))

LEMMA TxnsFinite ==
    ASSUME NEW M \in SUBSET Txns
    PROVE  /\ IsFiniteSet(M) /\ Cardinality(M) \in Nat /\ Cardinality(M) <= MaxTxns
           /\ MaxTxns \in Nat
<1>1. MaxTxns \in Nat
  BY ViewAssumption
<1>2. IsFiniteSet(Txns) /\ Cardinality(Txns) = MaxTxns
  BY <1>1, FS_Interval DEF Txns
<1>3. IsFiniteSet(M) /\ Cardinality(M) <= Cardinality(Txns)
  BY <1>2, FS_Subset
<1> QED
  BY <1>1, <1>2, <1>3, FS_CardinalityType

\* A rank is below the number of ids.
LEMMA RankRange ==
    ASSUME NEW M \in SUBSET Txns, NEW i \in M
    PROVE  Rank(M, i) \in 0 .. Cardinality(M) - 1
<1>1. IsFiniteSet(M) /\ Cardinality(M) \in Nat
  BY TxnsFinite
<1>2. /\ IsFiniteSet(M \ {i}) /\ Cardinality(M \ {i}) = Cardinality(M) - 1
  BY <1>1, FS_RemoveElement
<1>3. Newer(M, i) \in SUBSET (M \ {i})
  BY DEF Newer, Txns
<1>4. IsFiniteSet(Newer(M, i)) /\ Rank(M, i) <= Cardinality(M) - 1
  BY <1>2, <1>3, FS_Subset DEF Rank
<1>5. Rank(M, i) \in Nat
  BY <1>4, FS_CardinalityType DEF Rank
<1> QED
  BY <1>1, <1>4, <1>5

\* Newer ids have lower ranks.
LEMMA RankDecreases ==
    ASSUME NEW M \in SUBSET Txns, NEW i \in M, NEW j \in M, i < j
    PROVE  Rank(M, j) < Rank(M, i)
<1>1. Newer(M, i) \in SUBSET Txns /\ Newer(M, j) \in SUBSET Txns
  BY DEF Newer
<1>2. IsFiniteSet(Newer(M, i)) /\ Rank(M, i) \in Nat /\ Rank(M, j) \in Nat
  BY <1>1, TxnsFinite DEF Rank
<1>3. Newer(M, j) \in SUBSET Newer(M, i) /\ j \in Newer(M, i) /\ j \notin Newer(M, j)
  <2>1. \A x \in M : x \in Int
    BY DEF Txns
  <2>2. ASSUME NEW x \in M, x > j
        PROVE  x > i
    BY <2>1, <2>2
  <2>3. j > i /\ ~(j > j)
    BY <2>1
  <2> QED
    BY <2>2, <2>3 DEF Newer
<1>4. /\ Rank(M, j) <= Rank(M, i)
      /\ Rank(M, i) = Rank(M, j) => Newer(M, i) = Newer(M, j)
  <2>1. /\ Cardinality(Newer(M, j)) <= Cardinality(Newer(M, i))
        /\ Cardinality(Newer(M, i)) = Cardinality(Newer(M, j)) => Newer(M, i) = Newer(M, j)
    BY <1>2, <1>3, FS_Subset, Zenon
  <2> QED
    BY <2>1 DEF Rank
<1>5. Rank(M, i) # Rank(M, j)
  BY <1>3, <1>4, Zenon
<1> QED
  BY <1>2, <1>4, <1>5

\* Every number below the number of ids is the rank of exactly one id.
LEMMA Ranking ==
    ASSUME NEW M \in SUBSET Txns
    PROVE  /\ \A i, j \in M : Rank(M, i) = Rank(M, j) => i = j
           /\ \A r \in 0 .. Cardinality(M) - 1 : \E i \in M : Rank(M, i) = r
<1> DEFINE rank == [i \in M |-> Rank(M, i)]
           ranks == 0 .. Cardinality(M) - 1
<1>1. IsFiniteSet(M) /\ Cardinality(M) \in Nat
  BY TxnsFinite
<1>2. \A i \in M : Rank(M, i) \in ranks
  BY RankRange
<1>3. ASSUME NEW i \in M, NEW j \in M, i # j
      PROVE  Rank(M, i) # Rank(M, j)
  <2>1. i \in Nat /\ j \in Nat
    BY DEF Txns
  <2>2. CASE i < j
    BY <2>2, <1>2, RankDecreases
  <2>3. CASE j < i
    BY <2>3, <1>2, RankDecreases
  <2> QED
    BY <2>1, <2>2, <2>3, <1>3
<1>4. rank \in Injection(M, ranks)
  BY <1>2, <1>3 DEF Injection, IsInjective
<1>5. IsFiniteSet(ranks) /\ Cardinality(ranks) = Cardinality(M)
  BY <1>1, FS_Interval
<1>6. rank \in Surjection(M, ranks)
  <2> HIDE DEF rank, ranks
  <2> QED
    BY <1>4, <1>5, FS_Injection
<1>7. \A r \in ranks : \E i \in M : rank[i] = r
  BY <1>6 DEF Surjection
<1> QED
  BY <1>3, <1>7

\* The ids with a rank in a window are as many as the ranks in it.
LEMMA WindowSize ==
    ASSUME NEW M \in SUBSET Txns, NEW lo \in Nat, NEW hi \in Int,
           NEW P, P = {i \in M : Rank(M, i) \in lo .. hi}
    PROVE  /\ IsFiniteSet(P)
           /\ hi < Cardinality(M) =>
                  Cardinality(P) = Cardinality(lo .. hi)
           /\ hi >= Cardinality(M) =>
                  Cardinality(P) = Cardinality(lo .. Cardinality(M) - 1)
<1> DEFINE top == IF hi < Cardinality(M) THEN hi ELSE Cardinality(M) - 1
           rank == [i \in P |-> Rank(M, i)]
<1>1. IsFiniteSet(M) /\ Cardinality(M) \in Nat /\ top \in Int
  BY TxnsFinite
<1>2. P \in SUBSET M
  OBVIOUS
<1>3. IsFiniteSet(P)
  BY <1>1, <1>2, FS_Subset
<1>4. \A i \in P : Rank(M, i) \in lo .. top
  BY <1>1, RankRange
<1>5. rank \in Injection(P, lo .. top)
  <2>1. rank \in [P -> lo .. top]
    BY <1>4
  <2>2. \A i, j \in P : rank[i] = rank[j] => i = j
    BY <1>2, Ranking
  <2> QED
    BY <2>1, <2>2 DEF Injection, IsInjective
<1>6. ASSUME NEW r \in lo .. top
      PROVE  \E i \in P : rank[i] = r
  <2>1. r \in 0 .. Cardinality(M) - 1 /\ r \in lo .. hi
    BY <1>1
  <2>2. PICK i \in M : Rank(M, i) = r
    BY <2>1, Ranking
  <2> QED
    BY <2>1, <2>2
<1>7. rank \in Surjection(P, lo .. top)
  BY <1>5, <1>6 DEF Surjection, Injection
<1>8. ExistsBijection(P, lo .. top)
  BY <1>5, <1>7 DEF ExistsBijection, Bijection
<1>9. Cardinality(lo .. top) = Cardinality(P)
  <2> HIDE DEF top
  <2> QED
    BY <1>3, <1>8, FS_Bijection
<1> QED
  BY <1>1, <1>3, <1>9

\* The rows of a page, by id.
OnPage(k) == {i \in Matching(k[1]) :
                 Rank(Matching(k[1]), i) \in (k[2] - 1) * Limit .. k[2] * Limit - 1}

LEMMA PageRows ==
    ASSUME NEW k \in Keys
    PROVE  PageOf(k) = {[id |-> i, status |-> row[i]] : i \in OnPage(k)}
BY DEF PageOf, OnPage, Rank, Newer

\* A page begins and ends where its number says.
LEMMA PageBounds ==
    ASSUME NEW n \in Pages
    PROVE  /\ Limit \in Nat \ {0} /\ n \in Nat \ {0}
           /\ (n - 1) * Limit \in Nat
           /\ n * Limit = (n - 1) * Limit + Limit
<1>1. Limit \in Nat \ {0} /\ n \in Nat \ {0}
  BY ViewAssumption DEF Pages
<1>2. n - 1 \in Nat
  BY <1>1
<1>3. \A p, l \in Nat : p * l \in Nat /\ (p + 1) * l = p * l + l
  OBVIOUS
<1>4. (n - 1) + 1 = n
  BY <1>1
<1> QED
  BY <1>1, <1>2, <1>3, <1>4

\* findMany returns as many rows as the count leaves for the page.
LEMMA PageSize ==
    ASSUME NEW k \in Keys
    PROVE  Cardinality(PageOf(k)) = SizeOf(k[2], TotalOf(k))
<1> DEFINE M == Matching(k[1])
           P == OnPage(k)
           lo == (k[2] - 1) * Limit
           hi == k[2] * Limit - 1
           item == [i \in P |-> [id |-> i, status |-> row[i]]]
<1>1. M \in SUBSET Txns
  BY DEF Matching, Created
<1>2. Cardinality(M) \in Nat
  BY <1>1, TxnsFinite
<1>3. /\ Limit \in Nat \ {0} /\ lo \in Nat /\ hi = lo + Limit - 1
  BY PageBounds DEF Keys
<1>4. P = {i \in M : Rank(M, i) \in lo .. hi}
  BY DEF OnPage
<1>5. /\ IsFiniteSet(P)
      /\ hi < Cardinality(M) => Cardinality(P) = Cardinality(lo .. hi)
      /\ hi >= Cardinality(M) => Cardinality(P) = Cardinality(lo .. Cardinality(M) - 1)
  <2> HIDE DEF M, P, lo, hi
  <2> QED
    BY <1>1, <1>3, <1>4, WindowSize
<1>6. Cardinality(PageOf(k)) = Cardinality(P)
  <2>1. item \in Bijection(P, PageOf(k))
    BY PageRows DEF Bijection, Injection, Surjection, IsInjective
  <2>2. ExistsBijection(P, PageOf(k))
    BY <2>1 DEF ExistsBijection
  <2> QED
    BY <2>2, <1>5, FS_Bijection
<1>7. /\ Cardinality(lo .. hi) = Limit
      /\ Cardinality(lo .. Cardinality(M) - 1) =
             IF Cardinality(M) <= lo THEN 0 ELSE Cardinality(M) - lo
  <2> HIDE DEF M, lo, hi
  <2>1. lo \in Int /\ hi \in Int /\ Cardinality(M) - 1 \in Int
    BY <1>2, <1>3
  <2>2. Cardinality(lo .. hi) = IF lo > hi THEN 0 ELSE hi - lo + 1
    BY <2>1, FS_Interval
  <2>3. Cardinality(lo .. Cardinality(M) - 1) =
            IF lo > Cardinality(M) - 1 THEN 0 ELSE (Cardinality(M) - 1) - lo + 1
    BY <2>1, FS_Interval
  <2> QED
    BY <1>2, <1>3, <2>2, <2>3
<1>8. TotalOf(k) = Cardinality(M)
  BY DEF TotalOf
<1>9. SizeOf(k[2], TotalOf(k)) =
          IF (IF Cardinality(M) <= lo THEN 0 ELSE Cardinality(M) - lo) < Limit
          THEN (IF Cardinality(M) <= lo THEN 0 ELSE Cardinality(M) - lo)
          ELSE Limit
  BY <1>8 DEF SizeOf
<1> HIDE DEF M, P, lo, hi
<1> QED
  BY <1>2, <1>3, <1>5, <1>6, <1>7, <1>9

\* A page that begins before the last row has rows.
LEMMA PageNotEmpty ==
    ASSUME NEW k \in Keys, (k[2] - 1) * Limit < TotalOf(k)
    PROVE  PageOf(k) # {}
<1>1. TotalOf(k) \in Nat /\ TotalOf(k) <= MaxTxns /\ MaxTxns \in Nat
  BY TxnsFinite DEF TotalOf, Matching, Created
<1>2. Limit \in Nat \ {0} /\ (k[2] - 1) * Limit \in Nat
  BY PageBounds DEF Keys
<1>3. Cardinality(PageOf(k)) # 0
  <2> DEFINE lo == (k[2] - 1) * Limit
             rest == IF TotalOf(k) <= lo THEN 0 ELSE TotalOf(k) - lo
  <2>1. Cardinality(PageOf(k)) = IF rest < Limit THEN rest ELSE Limit
    BY PageSize DEF SizeOf
  <2>2. lo \in Nat /\ lo < TotalOf(k)
    BY <1>2
  <2> HIDE DEF lo
  <2> QED
    BY <1>1, <1>2, <2>1, <2>2
<1> QED
  BY <1>3, FS_EmptySet

-----------------------------------------------------------------------------------
(* Types, and the refund under way. *)

LEMMA Typed ==
    ASSUME TypeOK
    PROVE  /\ Shown \in Keys
           /\ \A k \in Keys : k[1] \in Filters /\ k[2] \in Pages /\ k = <<k[1], k[2]>>
           /\ \A k \in Keys : PageOf(k) \in SUBSET Item /\ TotalOf(k) \in 0 .. MaxTxns
<1>1. \A k \in Keys : Matching(k[1]) \in SUBSET Txns
  BY DEF Matching, Created
<1>2. \A k \in Keys : TotalOf(k) \in 0 .. MaxTxns
  BY <1>1, TxnsFinite DEF TotalOf
<1>3. ASSUME NEW k \in Keys
      PROVE  PageOf(k) \in SUBSET Item
  <2>1. ASSUME NEW i \in OnPage(k)
        PROVE  [id |-> i, status |-> row[i]] \in Item
    <3>1. i \in Txns /\ row[i] # NoStatus
      BY <2>1 DEF OnPage, Matching, Created
    <3>2. row[i] \in Status
      BY <3>1 DEF TypeOK
    <3> QED
      BY <3>1, <3>2 DEF Item
  <2> QED
    BY <2>1, PageRows
<1> QED
  BY <1>2, <1>3 DEF TypeOK, Shown, Keys

Search == [sent : BOOLEAN, done : SUBSET {"items", "total"},
           items : SUBSET Item, total : 0 .. MaxTxns, torn : BOOLEAN]

LEMMA TornTyped == ASSUME TypeOK PROVE Torn \in [Keys -> Search]
<1>1. ASSUME NEW k \in Keys
      PROVE  /\ search[k] \in Search
             /\ [search[k] EXCEPT !.torn = TRUE] \in Search
  BY DEF TypeOK, Search
<1> QED
  BY <1>1 DEF Torn

\* What a step of one search leaves it with.
LEMMA SearchTyped ==
    ASSUME TypeOK, NEW k \in Keys
    PROVE  /\ search \in [Keys -> Search]
           /\ [search[k] EXCEPT !.sent = TRUE] \in Search
           /\ [search[k] EXCEPT !.done = @ \cup {"items"}, !.items = PageOf(k)] \in Search
           /\ [search[k] EXCEPT !.done = @ \cup {"total"}, !.total = TotalOf(k)] \in Search
           /\ NoSearch \in Search
<1>1. search \in [Keys -> Search] /\ search[k] \in Search
  BY DEF TypeOK, Search
<1>2. PageOf(k) \in SUBSET Item /\ TotalOf(k) \in 0 .. MaxTxns
  BY Typed
<1>3. NoSearch \in Search
  BY ViewAssumption DEF Search, NoSearch
<1> QED
  BY <1>1, <1>2, <1>3 DEF Search

Handler == [pc : {"idle", "sent", "written", "ok", "refetch"}, id : Txns \cup {0},
            key : Txns \cup {0}]

\* What a step of one mount's refund leaves behind.
RefundMoves(m, pc, id) ==
    /\ refund' \in [Mounts -> Handler]
    /\ refund'[m].pc = pc /\ refund'[m].id = id
    /\ \A n \in Mounts \ {m} : refund'[n] = refund[n]

LEMMA HandlerMoves ==
    ASSUME TypeOK, NEW m \in Mounts
    PROVE  /\ refund[m] \in Handler /\ mount \in Mounts /\ Observed(m) \in Txns \cup {0}
           /\ Transition(m) => \/ RefundMoves(m, "written", refund[m].id)
                               \/ RefundMoves(m, "idle", 0)
           /\ Reply(m) => RefundMoves(m, "ok", refund[m].id) \/ RefundMoves(m, "idle", 0)
           /\ Refetch(m) => RefundMoves(m, "refetch", Observed(m))
           /\ Refunded(m) => RefundMoves(m, "idle", 0)
           /\ Click => RefundMoves(mount, "sent", selected)
           /\ Leave => RefundMoves(mount, refund[mount].pc, refund[mount].id)
<1>1. /\ refund \in [Mounts -> Handler] /\ mount \in Mounts
      /\ selected \in Txns \cup {0}
  BY DEF TypeOK, Handler
<1>2. refund[m] \in Handler /\ refund[mount] \in Handler
  BY <1>1
<1>3. Observed(m) \in Txns \cup {0}
  BY <1>1, <1>2 DEF Observed, Handler
<1>4. ASSUME NEW n \in Mounts, NEW h \in Handler, refund' = [refund EXCEPT ![n] = h]
      PROVE  RefundMoves(n, h.pc, h.id)
  BY <1>1, <1>4 DEF RefundMoves
<1>5. ASSUME NotRefunding(m)
      PROVE  RefundMoves(m, "idle", 0)
  <2>1. Idle \in Handler /\ Idle.pc = "idle" /\ Idle.id = 0
    BY DEF Idle, Handler
  <2> QED
    BY <1>4, <1>5, <2>1 DEF NotRefunding
<1>6. ASSUME NEW pc \in {"written", "ok"}, refund' = [refund EXCEPT ![m].pc = pc]
      PROVE  RefundMoves(m, pc, refund[m].id)
  <2> DEFINE h == [refund[m] EXCEPT !.pc = pc]
  <2>1. h \in Handler /\ h.pc = pc /\ h.id = refund[m].id
    BY <1>2 DEF Handler
  <2>2. refund' = [refund EXCEPT ![m] = h]
    BY <1>6
  <2> QED
    BY <1>4, <2>1, <2>2
<1>7. Refetch(m) => RefundMoves(m, "refetch", Observed(m))
  <2> DEFINE h == [refund[m] EXCEPT !.pc = "refetch", !.id = Observed(m)]
  <2>1. h \in Handler /\ h.pc = "refetch" /\ h.id = Observed(m)
    BY <1>2, <1>3 DEF Handler
  <2>2. Refetch(m) => refund' = [refund EXCEPT ![m] = h]
    BY DEF Refetch
  <2> QED
    BY <1>4, <2>1, <2>2
<1>8. Click => RefundMoves(mount, "sent", selected)
  <2> DEFINE h == [pc |-> "sent", id |-> selected, key |-> 0]
  <2>1. h \in Handler /\ h.pc = "sent" /\ h.id = selected
    BY <1>1 DEF Handler
  <2>2. Click => refund' = [refund EXCEPT ![mount] = h]
    BY DEF Click
  <2> QED
    BY <1>1, <1>4, <2>1, <2>2
<1>9. Leave => RefundMoves(mount, refund[mount].pc, refund[mount].id)
  <2> DEFINE h == [refund[mount] EXCEPT !.key = selected]
  <2>1. h \in Handler /\ h.pc = refund[mount].pc /\ h.id = refund[mount].id
    BY <1>1, <1>2 DEF Handler
  <2>2. Leave => refund' = refund \/ refund' = [refund EXCEPT ![mount] = h]
    BY DEF Leave
  <2>3. refund' = refund => RefundMoves(mount, refund[mount].pc, refund[mount].id)
    BY <1>1 DEF RefundMoves
  <2> QED
    BY <1>1, <1>4, <2>1, <2>2, <2>3
<1> QED
  BY <1>1, <1>2, <1>3, <1>5, <1>6, <1>7, <1>8, <1>9 DEF Transition, Reply, Refunded

LEMMA InitIInv == Init => IInv
<1> SUFFICES ASSUME Init PROVE IInv
  OBVIOUS
<1>1. TypeOK
  <2>1. 1 \in Mounts /\ 1 \in Pages /\ refund \in [Mounts -> Handler]
    BY ViewAssumption DEF Init, Mounts, Pages, Idle, Handler
  <2>2. NoSearch \in Search
    BY ViewAssumption DEF NoSearch, Search
  <2>3. NoList \in [items : SUBSET Item, total : 0 .. MaxTxns, torn : BOOLEAN,
                    loaded : BOOLEAN]
    BY ViewAssumption DEF NoList
  <2>4. /\ list \in [Keys -> [items : SUBSET Item, total : 0 .. MaxTxns, torn : BOOLEAN,
                             loaded : BOOLEAN]]
        /\ search \in [Keys -> Search]
    BY <2>2, <2>3 DEF Init
  <2>5. /\ row \in [Txns -> Status \cup {NoStatus}]
        /\ detail \in [Txns -> Status \cup {NoStatus}]
        /\ reading \in [Txns -> Status \cup {NoStatus}]
    BY DEF Init
  <2>6. /\ filter \in Filters /\ number \in Pages /\ selected \in Txns \cup {0}
        /\ wanted \subseteq Txns /\ mount \in Mounts /\ away = FALSE
        /\ left \subseteq Filters /\ excused \subseteq Txns
    BY <2>1, ViewAssumption DEF Init
  <2>7. moves \in 0 .. MaxMoves /\ losses \in 0 .. MaxLosses
    BY ViewAssumption DEF Init
  <2> QED
    BY <2>1, <2>4, <2>5, <2>6, <2>7 DEF TypeOK, Search, Handler
<1>2. RefundSound
  BY DEF Init, RefundSound, Idle
<1>3. \A k \in Keys : TotalOf(k) \in Nat
  BY <1>1, Typed
<1>4. PagesExist
  BY <1>3 DEF Init, PagesExist, NoList, NoSearch, Shown, Keys
<1>5. SearchesCoherent /\ ReadsCoherent
  BY DEF Init, SearchesCoherent, ReadsCoherent, NoList, NoSearch
<1>6. OffersAccounted
  BY DEF Init, OffersAccounted, NoStatus
<1> QED
  BY <1>1, <1>2, <1>4, <1>5, <1>6 DEF IInv

LEMMA TypeStep == TypeOK /\ RefundSound /\ [Next]_vars => TypeOK'
<1> SUFFICES ASSUME TypeOK, RefundSound, [Next]_vars PROVE TypeOK'
  OBVIOUS
<1>1. ASSUME NEW i \in Txns, NEW status \in Status, SetStatus(i, status)
      PROVE  /\ row' \in [Txns -> Status \cup {NoStatus}]
             /\ left' \subseteq Filters /\ search' \in [Keys -> Search]
  BY <1>1, TornTyped DEF TypeOK, SetStatus
<1>2. CASE Create
  BY <1>2, TornTyped DEF Create, TypeOK, Status, Search, visit
<1>3. CASE \E i \in Txns, status \in Status : Move(i, status)
  BY <1>1, <1>3 DEF Move, TypeOK, Search, visit
<1>4. CASE Fetch
  <2>1. search' = [search EXCEPT ![Shown] = [search[Shown] EXCEPT !.sent = TRUE]]
    BY <1>4 DEF Fetch
  <2>2. search' \in [Keys -> Search]
    BY <2>1, Typed, SearchTyped
  <2> QED
    BY <1>4, <2>2 DEF Fetch, TypeOK, Search, visit
<1>5. ASSUME NEW k \in Keys, FindMany(k)
      PROVE  TypeOK'
  <2>1. search' = [search EXCEPT ![k] = [search[k] EXCEPT !.done = @ \cup {"items"},
                                                          !.items = PageOf(k)]]
    BY <1>5 DEF FindMany
  <2>2. search' \in [Keys -> Search]
    BY <2>1, SearchTyped
  <2> QED
    BY <1>5, <2>2 DEF FindMany, TypeOK, Search, visit
<1>6. ASSUME NEW k \in Keys, Count(k)
      PROVE  TypeOK'
  <2>1. search' = [search EXCEPT ![k] = [search[k] EXCEPT !.done = @ \cup {"total"},
                                                          !.total = TotalOf(k)]]
    BY <1>6 DEF Count
  <2>2. search' \in [Keys -> Search]
    BY <2>1, SearchTyped
  <2> QED
    BY <1>6, <2>2 DEF Count, TypeOK, Search, visit
<1>7. ASSUME NEW k \in Keys, Answer(k) \/ LoseAnswer(k)
      PROVE  TypeOK'
  <2>1. search' \in [Keys -> Search]
    BY <1>7, SearchTyped DEF Answer, LoseAnswer
  <2>2. list' \in [Keys -> [items : SUBSET Item, total : 0 .. MaxTxns,
                            torn : BOOLEAN, loaded : BOOLEAN]]
    <3>1. CASE Answer(k)
      <4> DEFINE new == [items |-> search[k].items, total |-> search[k].total,
                         torn |-> search[k].torn, loaded |-> TRUE]
      <4>1. search[k] \in Search
        BY SearchTyped
      <4>2. new \in [items : SUBSET Item, total : 0 .. MaxTxns, torn : BOOLEAN,
                     loaded : BOOLEAN]
        BY <4>1 DEF Search
      <4>3. list' = [list EXCEPT ![k] = new]
        BY <3>1 DEF Answer
      <4> QED
        BY <4>2, <4>3 DEF TypeOK
    <3>2. CASE LoseAnswer(k)
      BY <3>2 DEF LoseAnswer, TypeOK
    <3> QED
      BY <1>7, <3>1, <3>2
  <2> QED
    BY <1>7, <2>1, <2>2, ViewAssumption DEF Answer, LoseAnswer, TypeOK, Search, visit
<1>8. CASE User
  <2>1. mount \in Nat \ {0} /\ mount <= MaxMounts /\ MaxMounts \in Nat
    BY ViewAssumption DEF TypeOK, Mounts
  <2>2. CASE Click
    BY <2>2, HandlerMoves DEF Click, RefundMoves, Handler, TypeOK, visit
  <2>3. CASE Leave
    BY <2>3, HandlerMoves, ViewAssumption
    DEF Leave, RefundMoves, Handler, Moving, TypeOK
  <2>4. CASE Return
    <3>1. mount' \in Mounts
      BY <2>1, <2>4 DEF Return, Mounts, TypeOK
    <3>2. wanted' = wanted \/ (selected \in Txns /\ wanted' = wanted \cup {selected})
      BY <2>4 DEF Return, UseDetail, TypeOK
    <3>3. wanted' \subseteq Txns
      BY <3>2 DEF TypeOK
    <3>4. /\ away' = FALSE
          /\ UNCHANGED <<row, filter, number, selected, list, search, detail, reading,
                         refund, moves, losses, left, excused>>
      BY <2>4 DEF Return
    <3> QED
      BY <3>1, <3>3, <3>4 DEF TypeOK
  <2>5. CASE \E i \in Txns : Open(i)
    BY <2>5, ViewAssumption DEF Open, UseDetail, Moving, TypeOK, visit
  <2> QED
    BY <1>8, <2>2, <2>3, <2>4, <2>5, ViewAssumption
    DEF User, setStatus, TurnPage, Close, Moving, TypeOK, Pages, visit
<1>9. CASE \E i \in Txns : ReadDetail(i) \/ LoadDetail(i)
  BY <1>9, ViewAssumption DEF ReadDetail, LoadDetail, TypeOK, visit
<1>10. ASSUME NEW m \in Mounts, Refund(m)
       PROVE  TypeOK'
  <2>1. refund' \in [Mounts -> Handler]
    BY <1>10, HandlerMoves DEF Refund, RefundMoves
  <2>2. CASE Transition(m)
    <3>1. refund[m].id \in Txns /\ "REFUNDED" \in Status
      BY <2>2 DEF Transition, RefundSound, Status
    <3>2. /\ row' \in [Txns -> Status \cup {NoStatus}]
          /\ left' \subseteq Filters /\ search' \in [Keys -> Search]
      BY <1>1, <2>2, <3>1 DEF Transition, TypeOK, Search
    <3> QED
      BY <2>1, <2>2, <3>2 DEF Transition, TypeOK, Search, Handler, visit
  <2>3. CASE Reply(m)
    BY <2>1, <2>3, ViewAssumption DEF Reply, RefundSound, TypeOK, Handler, visit
  <2>4. CASE Refetch(m)
    BY <2>1, <2>4, HandlerMoves DEF Refetch, RefundSound, TypeOK, Handler, visit
  <2>5. CASE Refunded(m)
    BY <2>1, <2>5 DEF Refunded, TypeOK, Handler, visit
  <2> QED
    BY <1>10, <2>2, <2>3, <2>4, <2>5 DEF Refund
<1>11. CASE UNCHANGED vars
  BY <1>11 DEF vars, visit, TypeOK
<1> QED
  BY <1>2, <1>3, <1>4, <1>5, <1>6, <1>7, <1>8, <1>9, <1>10, <1>11 DEF Next, Searching

LEMMA RefundStep == TypeOK /\ RefundSound /\ [Next]_vars => RefundSound'
<1> SUFFICES ASSUME TypeOK, RefundSound, [Next]_vars PROVE RefundSound'
  OBVIOUS
<1>1. ASSUME NEW m \in Mounts, NEW pc, NEW id, RefundMoves(m, pc, id), UNCHANGED detail,
             pc \in {"sent", "written", "ok"} => id \in Txns /\ detail[id] # NoStatus
      PROVE  RefundSound'
  BY <1>1 DEF RefundMoves, RefundSound
<1>2. CASE Click
  <2>1. selected \in Txns /\ detail[selected] # NoStatus /\ UNCHANGED detail
    BY <1>2 DEF Click, TypeOK, NoStatus
  <2> QED
    BY <1>1, <1>2, <2>1, HandlerMoves DEF TypeOK
<1>3. CASE Leave
  BY <1>1, <1>3, HandlerMoves DEF Leave, RefundSound, TypeOK
<1>4. ASSUME NEW m \in Mounts, Refund(m)
      PROVE  RefundSound'
  <2>1. UNCHANGED detail
    BY <1>4 DEF Refund, Transition, Reply, Refetch, Refunded
  <2>2. Transition(m) \/ Reply(m) => refund[m].id \in Txns /\ detail[refund[m].id] # NoStatus
    BY DEF Transition, Reply, RefundSound
  <2> QED
    BY <1>1, <1>4, <2>1, <2>2, HandlerMoves DEF Refund
<1>5. ASSUME NEW i \in Txns, LoadDetail(i)
      PROVE  RefundSound'
  BY <1>5 DEF LoadDetail, RefundSound, TypeOK
<1>6. CASE UNCHANGED <<refund, detail>>
  BY <1>6 DEF RefundSound
<1> QED
  BY <1>2, <1>3, <1>4, <1>5, <1>6 DEF Next, vars, Create, Move, Fetch, Searching, FindMany,
        Count, Answer, LoseAnswer, User, setStatus, TurnPage, Open, Close, Return, ReadDetail

-----------------------------------------------------------------------------------
(* The table changes: a payment is created or settled. *)

\* Every page that was asked for is still asked for, and whatever a filter that no row
\* has left matched, it still matches.
TableMoves ==
    /\ \A f \in Filters \ left' : f \notin left /\ Matching(f) \subseteq Matching(f)'
    /\ search' = Torn
    /\ UNCHANGED <<filter, number, list>>

LEMMA SetStatusMoves ==
    ASSUME TypeOK, NEW i \in Txns, NEW status \in Status, SetStatus(i, status),
           UNCHANGED <<filter, number, list>>
    PROVE  TableMoves
<1>1. ASSUME NEW f \in Filters \ left', NEW j \in Matching(f)
      PROVE  j \in Matching(f)'
  <2>1. j \in Txns /\ row[j] # NoStatus /\ (f = "ALL" \/ row[j] = f)
    BY DEF Matching, Created
  <2>2. row' = [row EXCEPT ![i] = status] /\ row[i] \notin Filters \ left'
    BY DEF SetStatus
  <2>3. row'[j] # NoStatus
    BY <2>1, <2>2 DEF TypeOK, Status, NoStatus
  <2>4. f = "ALL" \/ row'[j] = f
    BY <2>1, <2>2, <1>1 DEF TypeOK
  <2> QED
    BY <2>1, <2>3, <2>4 DEF Matching, Created
<1>2. left \subseteq left' /\ search' = Torn
  BY DEF SetStatus
<1> QED
  BY <1>1, <1>2 DEF TableMoves

LEMMA CreateMoves == TypeOK /\ Create => TableMoves
<1> SUFFICES ASSUME TypeOK, Create PROVE TableMoves
  OBVIOUS
<1>1. PICK i \in Txns : row[i] = NoStatus /\ row' = [row EXCEPT ![i] = "PENDING"]
  BY DEF Create
<1>2. ASSUME NEW f \in Filters, NEW j \in Matching(f)
      PROVE  j \in Matching(f)'
  <2>1. j \in Txns /\ row[j] # NoStatus /\ (f = "ALL" \/ row[j] = f)
    BY DEF Matching, Created
  <2>2. row'[j] = row[j]
    BY <1>1, <2>1 DEF TypeOK
  <2> QED
    BY <2>1, <2>2 DEF Matching, Created
<1>3. left' = left /\ search' = Torn /\ UNCHANGED <<filter, number, list>>
  BY DEF Create
<1> QED
  BY <1>2, <1>3 DEF TableMoves

LEMMA TotalGrows ==
    ASSUME TableMoves, NEW k \in Keys, k[1] \notin left'
    PROVE  /\ k[1] \notin left /\ TotalOf(k) \in Nat /\ TotalOf(k)' \in Nat
           /\ TotalOf(k) <= TotalOf(k)'
<1>1. k[1] \in Filters
  BY DEF Keys
<1>2. Matching(k[1]) \in SUBSET Matching(k[1])' /\ k[1] \notin left
  BY <1>1 DEF TableMoves
<1>3. Matching(k[1]) \in SUBSET Txns /\ Matching(k[1])' \in SUBSET Txns
  BY DEF Matching, Created
<1>4. IsFiniteSet(Matching(k[1])')
  BY <1>3, TxnsFinite
<1>5. Cardinality(Matching(k[1])) <= Cardinality(Matching(k[1])')
  BY <1>2, <1>4, FS_Subset, Zenon
<1> QED
  BY <1>2, <1>3, <1>5, TxnsFinite DEF TotalOf

\* Torn only marks the searches between their two statements.
LEMMA TornMarks ==
    ASSUME TypeOK, NEW k \in Keys
    PROVE  /\ Torn[k].sent = search[k].sent /\ Torn[k].done = search[k].done
           /\ Torn[k].items = search[k].items /\ Torn[k].total = search[k].total
           /\ ~Torn[k].torn => ~search[k].torn /\ Cardinality(search[k].done) # 1
BY DEF TypeOK, Torn

LEMMA TablePages == IInv /\ TableMoves => PagesExist'
<1> SUFFICES ASSUME IInv, TableMoves, NEW k \in Keys, k[1] \notin left'
             PROVE  /\ "total" \in search'[k].done => search'[k].total <= TotalOf(k)'
                    /\ list'[k].total <= TotalOf(k)'
                    /\ k[2] > 1 /\ (k = Shown' \/ search'[k].sent) =>
                           (k[2] - 1) * Limit < TotalOf(k)'
                    /\ k[2] > 1 /\ "items" \in search'[k].done => search'[k].items # {}
                    /\ k[2] > 1 /\ list'[k].loaded => list'[k].items # {}
  BY DEF PagesExist
<1>1. TypeOK /\ PagesExist
  BY DEF IInv
<1>2. /\ k[1] \notin left /\ TotalOf(k) \in Nat /\ TotalOf(k)' \in Nat
      /\ TotalOf(k) <= TotalOf(k)'
  BY TotalGrows
<1>3. /\ search'[k].sent = search[k].sent /\ search'[k].done = search[k].done
      /\ search'[k].items = search[k].items /\ search'[k].total = search[k].total
      /\ list' = list /\ Shown' = Shown
  BY <1>1, TornMarks DEF TableMoves, Shown
<1>4. /\ search[k].total \in Nat /\ list[k].total \in Nat
      /\ (k[2] - 1) * Limit \in Nat
  BY <1>1, PageBounds DEF TypeOK, Keys
<1>5. /\ "total" \in search[k].done => search[k].total <= TotalOf(k)
      /\ list[k].total <= TotalOf(k)
      /\ k[2] > 1 /\ (k = Shown \/ search[k].sent) => (k[2] - 1) * Limit < TotalOf(k)
      /\ k[2] > 1 /\ "items" \in search[k].done => search[k].items # {}
      /\ k[2] > 1 /\ list[k].loaded => list[k].items # {}
  BY <1>1, <1>2 DEF PagesExist
<1> QED
  BY <1>2, <1>3, <1>4, <1>5

LEMMA TableSearches == IInv /\ TableMoves => SearchesCoherent' /\ ReadsCoherent'
<1> SUFFICES ASSUME IInv, TableMoves PROVE SearchesCoherent' /\ ReadsCoherent'
  OBVIOUS
<1>1. TypeOK /\ SearchesCoherent /\ ReadsCoherent
  BY DEF IInv
<1>2. ASSUME NEW k \in Keys
      PROVE  /\ search'[k].done # {} => search'[k].sent
             /\ ~search'[k].torn =>
                    /\ search'[k].done = {"items"} => search'[k].items = PageOf(k)'
                    /\ search'[k].done = {"total"} => search'[k].total = TotalOf(k)'
                    /\ search'[k].done = {"items", "total"} =>
                           Cardinality(search'[k].items) = SizeOf(k[2], search'[k].total)
  <2>1. /\ search'[k].sent = search[k].sent /\ search'[k].done = search[k].done
        /\ search'[k].items = search[k].items /\ search'[k].total = search[k].total
        /\ ~search'[k].torn => ~search[k].torn /\ Cardinality(search[k].done) # 1
    BY <1>1, TornMarks DEF TableMoves
  <2>2. Cardinality({"items"}) = 1 /\ Cardinality({"total"}) = 1
    BY FS_Singleton
  <2>3. /\ search[k].done # {} => search[k].sent
        /\ ~search[k].torn /\ search[k].done = {"items", "total"} =>
               Cardinality(search[k].items) = SizeOf(k[2], search[k].total)
    BY <1>1 DEF SearchesCoherent
  <2> QED
    BY <2>1, <2>2, <2>3
<1>3. SearchesCoherent'
  BY <1>2 DEF SearchesCoherent, SizeOf
<1>4. ReadsCoherent'
  BY <1>1 DEF ReadsCoherent, TableMoves, SizeOf
<1> QED
  BY <1>3, <1>4

-----------------------------------------------------------------------------------
(* A search goes on. *)

\* The step of one search: it becomes r, and its key's list becomes new.
Goes(k, r, new) ==
    /\ search' = [search EXCEPT ![k] = r]
    /\ list' = [list EXCEPT ![k] = new]
    /\ UNCHANGED <<row, filter, number, left>>

LEMMA SameTable ==
    ASSUME UNCHANGED row
    PROVE  \A k : PageOf(k)' = PageOf(k) /\ TotalOf(k)' = TotalOf(k)
BY DEF PageOf, TotalOf, Matching, Created

\* What has to be seen of a search's new state and list.
LEMMA GoesSound ==
    ASSUME IInv, NEW k \in Keys, NEW r, NEW new, Goes(k, r, new),
           k[1] \notin left =>
               /\ "total" \in r.done => r.total <= TotalOf(k)
               /\ new.total <= TotalOf(k)
               /\ k[2] > 1 /\ (k = Shown \/ r.sent) => (k[2] - 1) * Limit < TotalOf(k)
               /\ k[2] > 1 /\ "items" \in r.done => r.items # {}
               /\ k[2] > 1 /\ new.loaded => new.items # {},
           r.done # {} => r.sent,
           ~r.torn =>
               /\ r.done = {"items"} => r.items = PageOf(k)
               /\ r.done = {"total"} => r.total = TotalOf(k)
               /\ r.done = {"items", "total"} =>
                      Cardinality(r.items) = SizeOf(k[2], r.total),
           new.loaded /\ ~new.torn => Cardinality(new.items) = SizeOf(k[2], new.total)
    PROVE  PagesExist' /\ SearchesCoherent' /\ ReadsCoherent'
<1>1. TypeOK /\ PagesExist /\ SearchesCoherent /\ ReadsCoherent
  BY DEF IInv
<1>2. /\ search'[k] = r /\ list'[k] = new
      /\ \A h \in Keys \ {k} : search'[h] = search[h] /\ list'[h] = list[h]
  BY <1>1 DEF Goes, TypeOK
<1>3. Shown' = Shown /\ left' = left
  BY DEF Goes, Shown
<1>4. \A h : PageOf(h)' = PageOf(h) /\ TotalOf(h)' = TotalOf(h)
  BY SameTable DEF Goes
<1>5. PagesExist'
  BY <1>1, <1>2, <1>3, <1>4 DEF PagesExist
<1>6. SearchesCoherent'
  BY <1>1, <1>2, <1>4 DEF SearchesCoherent, SizeOf
<1>7. ReadsCoherent'
  BY <1>1, <1>2 DEF ReadsCoherent, SizeOf
<1> QED
  BY <1>5, <1>6, <1>7

\* The same facts of the search and list as they are.
LEMMA SearchFacts ==
    ASSUME IInv, NEW k \in Keys
    PROVE  /\ search[k] \in Search
           /\ k[1] \notin left =>
                  /\ "total" \in search[k].done => search[k].total <= TotalOf(k)
                  /\ list[k].total <= TotalOf(k)
                  /\ k[2] > 1 /\ (k = Shown \/ search[k].sent) =>
                         (k[2] - 1) * Limit < TotalOf(k)
                  /\ k[2] > 1 /\ "items" \in search[k].done => search[k].items # {}
                  /\ k[2] > 1 /\ list[k].loaded => list[k].items # {}
           /\ search[k].done # {} => search[k].sent
           /\ ~search[k].torn =>
                  /\ search[k].done = {"items"} => search[k].items = PageOf(k)
                  /\ search[k].done = {"total"} => search[k].total = TotalOf(k)
                  /\ search[k].done = {"items", "total"} =>
                         Cardinality(search[k].items) = SizeOf(k[2], search[k].total)
           /\ list[k].loaded /\ ~list[k].torn =>
                  Cardinality(list[k].items) = SizeOf(k[2], list[k].total)
           /\ list = [list EXCEPT ![k] = list[k]]
BY SearchTyped DEF IInv, PagesExist, SearchesCoherent, ReadsCoherent, TypeOK

LEMMA FetchSound == IInv /\ Fetch => PagesExist' /\ SearchesCoherent' /\ ReadsCoherent'
<1> SUFFICES ASSUME IInv, Fetch PROVE PagesExist' /\ SearchesCoherent' /\ ReadsCoherent'
  OBVIOUS
<1> DEFINE r == [search[Shown] EXCEPT !.sent = TRUE]
<1>1. Shown \in Keys
  BY Typed DEF IInv
<1>2. search[Shown] \in Search
  BY <1>1, SearchFacts
<1>3. /\ r.sent /\ r.done = search[Shown].done /\ r.items = search[Shown].items
      /\ r.total = search[Shown].total /\ r.torn = search[Shown].torn
  BY <1>2 DEF Search
<1>4. Goes(Shown, r, list[Shown])
  BY <1>1, SearchFacts DEF Goes, Fetch
<1> HIDE DEF r
<1> QED
  BY <1>1, <1>3, <1>4, SearchFacts, GoesSound

LEMMA FindManySound ==
    ASSUME IInv, NEW k \in Keys, FindMany(k)
    PROVE  PagesExist' /\ SearchesCoherent' /\ ReadsCoherent'
<1> DEFINE r == [search[k] EXCEPT !.done = @ \cup {"items"}, !.items = PageOf(k)]
<1>1. search[k] \in Search
  BY SearchFacts
<1>2. /\ r.sent = search[k].sent /\ r.done = search[k].done \cup {"items"}
      /\ r.items = PageOf(k) /\ r.total = search[k].total /\ r.torn = search[k].torn
  BY <1>1 DEF Search
<1>3. Goes(k, r, list[k])
  BY SearchFacts DEF Goes, FindMany
<1>4. search[k].sent /\ "items" \notin search[k].done
  BY DEF FindMany
<1>5. r.done \in {{"items"}, {"items", "total"}} /\ "items" \in r.done
  BY <1>1, <1>2 DEF Search
<1>6. r.done = {"items", "total"} => search[k].done = {"total"}
  BY <1>1, <1>2, <1>4 DEF Search
<1>7. k[1] \notin left /\ k[2] > 1 => r.items # {}
  BY <1>2, <1>4, SearchFacts, PageNotEmpty
<1>8. ~r.torn /\ r.done = {"items", "total"} =>
          Cardinality(r.items) = SizeOf(k[2], r.total)
  BY <1>2, <1>6, SearchFacts, PageSize
<1>9. "total" \in r.done => "total" \in search[k].done
  BY <1>2
<1> HIDE DEF r
<1> QED
  BY <1>2, <1>3, <1>4, <1>5, <1>7, <1>8, <1>9, SearchFacts, GoesSound

LEMMA CountSound ==
    ASSUME IInv, NEW k \in Keys, Count(k)
    PROVE  PagesExist' /\ SearchesCoherent' /\ ReadsCoherent'
<1> DEFINE r == [search[k] EXCEPT !.done = @ \cup {"total"}, !.total = TotalOf(k)]
<1>1. search[k] \in Search
  BY SearchFacts
<1>2. /\ r.sent = search[k].sent /\ r.done = search[k].done \cup {"total"}
      /\ r.items = search[k].items /\ r.total = TotalOf(k) /\ r.torn = search[k].torn
  BY <1>1 DEF Search
<1>3. Goes(k, r, list[k])
  BY SearchFacts DEF Goes, Count
<1>4. search[k].sent /\ "total" \notin search[k].done
  BY DEF Count
<1>5. r.done \in {{"total"}, {"items", "total"}}
  BY <1>1, <1>2 DEF Search
<1>6. r.done = {"items", "total"} => search[k].done = {"items"}
  BY <1>1, <1>2, <1>4 DEF Search
<1>7. r.total \in Nat /\ r.total <= TotalOf(k)
  BY <1>2, Typed DEF IInv
<1>8. ~r.torn /\ r.done = {"items", "total"} =>
          Cardinality(r.items) = SizeOf(k[2], r.total)
  BY <1>2, <1>6, SearchFacts, PageSize
<1>9. "items" \in r.done => "items" \in search[k].done
  BY <1>2
<1> HIDE DEF r
<1> QED
  BY <1>2, <1>3, <1>4, <1>5, <1>7, <1>8, <1>9, SearchFacts, GoesSound

LEMMA NoSearchIs ==
    /\ ~NoSearch.sent /\ NoSearch.done = {} /\ ~NoSearch.torn
BY DEF NoSearch

LEMMA AnswerSound ==
    ASSUME IInv, NEW k \in Keys, Answer(k)
    PROVE  PagesExist' /\ SearchesCoherent' /\ ReadsCoherent'
<1> DEFINE new == [items |-> search[k].items, total |-> search[k].total,
                   torn |-> search[k].torn, loaded |-> TRUE]
<1>1. /\ new.items = search[k].items /\ new.total = search[k].total
      /\ new.torn = search[k].torn /\ new.loaded
  OBVIOUS
<1>2. Goes(k, NoSearch, new) /\ search[k].done = {"items", "total"}
  BY DEF Goes, Answer
<1>3. "items" \in search[k].done /\ "total" \in search[k].done
  BY <1>2
<1> HIDE DEF new
<1> QED
  BY <1>1, <1>2, <1>3, NoSearchIs, SearchFacts, GoesSound

LEMMA LoseAnswerSound ==
    ASSUME IInv, NEW k \in Keys, LoseAnswer(k)
    PROVE  PagesExist' /\ SearchesCoherent' /\ ReadsCoherent'
<1>1. Goes(k, NoSearch, list[k])
  BY SearchFacts DEF Goes, LoseAnswer
<1> QED
  BY <1>1, NoSearchIs, SearchFacts, GoesSound

-----------------------------------------------------------------------------------
(* The user turns the pages. *)

\* What another page or filter may be: page one, or one with rows as long as none left.
LEMMA LookSound ==
    ASSUME IInv, UNCHANGED <<row, list, search, left>>,
           \/ number' = 1
           \/ /\ Shown' \in Keys
              /\ Shown'[1] \notin left =>
                     (Shown'[2] - 1) * Limit < TotalOf(Shown')
    PROVE  PagesExist' /\ SearchesCoherent' /\ ReadsCoherent'
<1>1. \A k : PageOf(k)' = PageOf(k) /\ TotalOf(k)' = TotalOf(k)
  BY SameTable
<1>2. SearchesCoherent' /\ ReadsCoherent'
  BY <1>1 DEF IInv, SearchesCoherent, ReadsCoherent, SizeOf
<1>3. ASSUME NEW k \in Keys, k = Shown', k[2] > 1, k[1] \notin left
      PROVE  (k[2] - 1) * Limit < TotalOf(k)
  BY <1>3 DEF Shown, Keys, Pages
<1>4. PagesExist'
  BY <1>1, <1>3 DEF IInv, PagesExist
<1> QED
  BY <1>2, <1>4

\* A page before the last one ends before the last row.
LEMMA PagesCount ==
    ASSUME NEW n \in Nat, NEW total \in Nat, n > 0, n < TotalPages(total)
    PROVE  n * Limit < total
<1>1. Limit \in Nat \ {0}
  BY ViewAssumption
<1>2. total # 0 /\ n < (total + Limit - 1) \div Limit
  BY DEF TotalPages
<1> DEFINE q == (total + Limit - 1) \div Limit
<1>3. q \in Nat /\ q * Limit <= total + Limit - 1
  BY <1>1, <1>2
<1>4. n + 1 <= q
  BY <1>2, <1>3
<1> HIDE DEF q
<1>5. \A a, b, l \in Nat : a <= b => a * l <= b * l
  OBVIOUS
<1>6. (n + 1) * Limit <= q * Limit
  BY <1>1, <1>3, <1>4, <1>5
<1>7. (n + 1) * Limit = n * Limit + Limit /\ n * Limit \in Nat /\ q * Limit \in Nat
  BY <1>1, <1>3
<1> QED
  BY <1>1, <1>3, <1>6, <1>7

LEMMA TurnPageSound ==
    ASSUME IInv, NEW n \in Pages, TurnPage(n)
    PROVE  PagesExist' /\ SearchesCoherent' /\ ReadsCoherent'
<1>1. TypeOK /\ PagesExist /\ Shown \in Keys
  BY Typed DEF IInv
<1>2. /\ number \in Pages /\ filter \in Filters /\ Shown = <<filter, number>>
      /\ number' = n /\ filter' = filter
      /\ UNCHANGED <<row, list, search, left>>
  BY <1>1 DEF TurnPage, TypeOK, Shown
<1>3. Shown' = <<filter, n>> /\ Shown' \in Keys
  BY <1>2 DEF Shown, Keys
<1>4. TotalOf(<<filter, n>>) = TotalOf(Shown) /\ TotalOf(Shown) \in Nat
  BY <1>1, <1>2, Typed DEF TotalOf
<1>5. /\ number \in Nat \ {0} /\ Limit \in Nat \ {0} /\ n \in Nat \ {0}
      /\ (number - 1) * Limit \in Nat /\ (n - 1) * Limit \in Nat
  BY <1>2, PageBounds
<1>6. ASSUME filter \notin left, n > 1
      PROVE  (n - 1) * Limit < TotalOf(Shown)
  <2>1. CASE number > 1 /\ n = number - 1
    <3>1. (number - 1) * Limit < TotalOf(Shown)
      BY <1>1, <1>2, <1>6, <2>1 DEF PagesExist
    <3>2. (n - 1) * Limit <= (number - 1) * Limit
      BY <1>2, <1>5, <2>1, PageBounds
    <3> QED
      BY <1>4, <1>5, <3>1, <3>2
  <2>2. CASE number < TotalPages(list[Shown].total) /\ n = number + 1
    <3>1. list[Shown].total \in Nat /\ list[Shown].total <= TotalOf(Shown)
      BY <1>1, <1>2, <1>6 DEF PagesExist, TypeOK
    <3>2. number * Limit < list[Shown].total
      BY <1>5, <2>2, <3>1, PagesCount
    <3>3. n - 1 = number /\ number * Limit \in Nat
      BY <1>5, <2>2
    <3> QED
      BY <1>4, <3>1, <3>2, <3>3
  <2> QED
    BY <2>1, <2>2 DEF TurnPage
<1>7. CASE n = 1
  BY <1>2, <1>7, LookSound
<1>8. CASE n > 1
  <2>1. /\ Shown'[1] = filter /\ Shown'[2] = n /\ TotalOf(Shown') = TotalOf(Shown)
    BY <1>3, <1>4
  <2> QED
    BY <1>2, <1>3, <1>6, <1>8, <2>1, LookSound
<1> QED
  BY <1>5, <1>7, <1>8

\* A step that leaves the table, the lists and the page alone.
LEMMA LookStays ==
    ASSUME IInv, UNCHANGED <<row, list, search, left, filter, number>>
    PROVE  PagesExist' /\ SearchesCoherent' /\ ReadsCoherent'
<1>1. \A k : PageOf(k)' = PageOf(k) /\ TotalOf(k)' = TotalOf(k)
  BY SameTable
<1> QED
  BY <1>1 DEF IInv, PagesExist, SearchesCoherent, ReadsCoherent, SizeOf, Shown

LEMMA ListsStep == IInv /\ [Next]_vars => PagesExist' /\ SearchesCoherent' /\ ReadsCoherent'
<1> SUFFICES ASSUME IInv, [Next]_vars
             PROVE  PagesExist' /\ SearchesCoherent' /\ ReadsCoherent'
  OBVIOUS
<1> DEFINE Goal == PagesExist' /\ SearchesCoherent' /\ ReadsCoherent'
<1>1. TypeOK /\ RefundSound
  BY DEF IInv
<1>2. TableMoves => Goal
  BY TablePages, TableSearches
<1>3. CASE Create
  BY <1>1, <1>2, <1>3, CreateMoves
<1>4. ASSUME NEW i \in Txns, NEW status \in Status, Move(i, status)
      PROVE  Goal
  BY <1>1, <1>2, <1>4, SetStatusMoves DEF Move
<1>5. ASSUME NEW m \in Mounts, Transition(m)
      PROVE  Goal
  <2>1. refund[m].id \in Txns
    BY <1>1, <1>5 DEF Transition, RefundSound
  <2>2. CASE SetStatus(refund[m].id, "REFUNDED")
    BY <1>1, <1>2, <1>5, <2>1, <2>2, SetStatusMoves DEF Transition, Status
  <2>3. CASE UNCHANGED <<row, left, search>>
    BY <1>5, <2>3, LookStays DEF Transition
  <2> QED
    BY <1>5, <2>2, <2>3 DEF Transition
<1>6. CASE Fetch
  BY <1>6, FetchSound
<1>7. ASSUME NEW k \in Keys, Searching(k) \/ LoseAnswer(k)
      PROVE  Goal
  BY <1>7, FindManySound, CountSound, AnswerSound, LoseAnswerSound DEF Searching
<1>8. ASSUME NEW f \in Filters, setStatus(f)
      PROVE  Goal
  BY <1>8, LookSound DEF setStatus
<1>9. ASSUME NEW n \in Pages, TurnPage(n)
      PROVE  Goal
  BY <1>9, TurnPageSound
<1>10. CASE (\E i \in Txns : Open(i) \/ ReadDetail(i) \/ LoadDetail(i)) \/ Close \/ Click
  BY <1>10, LookStays DEF Open, ReadDetail, LoadDetail, Close, Click
<1>11. CASE (\E m \in Mounts : Reply(m) \/ Refetch(m) \/ Refunded(m)) \/ UNCHANGED vars
  BY <1>11, LookStays DEF Reply, Refetch, Refunded, vars
<1>12. CASE Leave \/ Return
  BY <1>12, LookStays DEF Leave, Return
<1> QED
  BY <1>3, <1>4, <1>5, <1>6, <1>7, <1>8, <1>9, <1>10, <1>11, <1>12 DEF Next, User, Refund

-----------------------------------------------------------------------------------
(* Refunds. *)

\* The part of OffersAccounted that is about one transaction.
Accounted(i) ==
    /\ reading[i] # NoStatus => i \in wanted
    /\ row[i] = "REFUNDED" =>
           /\ detail[i] = "SUCCESS" =>
                  \/ i \in excused \/ (i \in wanted /\ reading[i] # "SUCCESS")
                  \/ \E m \in Mounts : Unseen(m, i)
           /\ reading[i] = "SUCCESS" =>
                  i \in excused \/ \E m \in Mounts : Unseen(m, i)

\* A handler that has not seen to its refund is still there after another's step, and
\* after its own unless that ends it.
LEMMA UnseenKept ==
    ASSUME NEW m \in Mounts, NEW pc, NEW id, RefundMoves(m, pc, id), NEW i \in Txns
    PROVE  /\ \A n \in Mounts \ {m} : Unseen(n, i)' <=> Unseen(n, i)
           /\ Unseen(m, i)' <=> pc \in {"written", "ok"} /\ id = i
BY DEF RefundMoves, Unseen

LEMMA RefundAccounted ==
    ASSUME IInv, NEW m \in Mounts, Refund(m), NEW i \in Txns
    PROVE  Accounted(i)'
<1>1. TypeOK /\ RefundSound /\ Accounted(i)
  BY DEF IInv, OffersAccounted, Accounted
<1>2. refund[m] \in Handler
  BY <1>1, HandlerMoves
<1>3. CASE Transition(m)
  <2>1. UNCHANGED <<detail, wanted, reading, excused>> /\ ~Unseen(m, i)
    BY <1>3 DEF Transition, Unseen
  <2>2. CASE /\ SetStatus(refund[m].id, "REFUNDED")
             /\ RefundMoves(m, "written", refund[m].id)
    <3>1. refund[m].id = i \/ row'[i] = row[i]
      BY <1>1, <2>2 DEF SetStatus, TypeOK
    <3>2. Unseen(m, i)' <=> refund[m].id = i
      BY <2>2, UnseenKept
    <3>3. (\E n \in Mounts : Unseen(n, i)) => \E n \in Mounts : Unseen(n, i)'
      BY <2>1, <2>2, UnseenKept
    <3> QED
      BY <1>1, <2>1, <3>1, <3>2, <3>3 DEF Accounted
  <2>3. CASE UNCHANGED row /\ RefundMoves(m, "idle", 0)
    <3>1. (\E n \in Mounts : Unseen(n, i)) => \E n \in Mounts : Unseen(n, i)'
      BY <2>1, <2>3, UnseenKept
    <3> QED
      BY <1>1, <2>1, <2>3, <3>1 DEF Accounted
  <2>4. \/ SetStatus(refund[m].id, "REFUNDED") /\ RefundMoves(m, "written", refund[m].id)
        \/ UNCHANGED row /\ RefundMoves(m, "idle", 0)
    <3>1. \A h \in Handler : h.pc = "written" => h # Idle
      BY DEF Idle
    <3>2. refund' \in [Mounts -> Handler]
      BY <1>1, <1>3, HandlerMoves DEF RefundMoves
    <3>3. NotRefunding(m) => refund'[m].pc = "idle"
      BY <1>1 DEF NotRefunding, Idle, TypeOK
    <3>4. refund' = [refund EXCEPT ![m].pc = "written"] => refund'[m].pc = "written"
      BY <1>1 DEF TypeOK
    <3> QED
      BY <1>1, <1>3, <3>3, <3>4, HandlerMoves DEF Transition, RefundMoves
  <2> QED
    BY <2>2, <2>3, <2>4
<1>4. CASE Reply(m)
  <2>1. UNCHANGED <<row, detail, wanted, reading>> /\ excused \subseteq excused'
    BY <1>4 DEF Reply
  <2>2. Unseen(m, i) => Unseen(m, i)' \/ i \in excused'
    <3>1. CASE RefundMoves(m, "ok", refund[m].id)
      BY <3>1, UnseenKept DEF Unseen
    <3>2. CASE RefundMoves(m, "idle", 0)
      <4>1. refund' # [refund EXCEPT ![m].pc = "ok"]
        BY <1>1, <3>2 DEF RefundMoves, TypeOK
      <4>2. refund[m].id \in excused'
        BY <1>4, <4>1 DEF Reply
      <4> QED
        BY <4>2 DEF Unseen
    <3> QED
      BY <1>1, <1>4, <3>1, <3>2, HandlerMoves
  <2>3. \A n \in Mounts \ {m} : Unseen(n, i) => Unseen(n, i)'
    BY <1>1, <1>4, HandlerMoves, UnseenKept
  <2>4. (\E n \in Mounts : Unseen(n, i)) => i \in excused' \/ \E n \in Mounts : Unseen(n, i)'
    BY <2>2, <2>3
  <2> QED
    BY <1>1, <2>1, <2>4 DEF Accounted
<1>5. CASE Refetch(m)
  <2>1. /\ UNCHANGED <<row, detail>> /\ excused \subseteq excused'
        /\ i = Observed(m) /\ i # 0 => i \in wanted'
        /\ wanted \subseteq wanted'
        /\ reading'[i] = IF i = Observed(m) /\ detail[i] # NoStatus THEN NoStatus
                                                                    ELSE reading[i]
    BY <1>5 DEF Refetch
  <2>2. i # 0 /\ NoStatus # "SUCCESS"
    BY DEF Txns, NoStatus
  <2>3. RefundMoves(m, "refetch", Observed(m))
    BY <1>1, <1>5, HandlerMoves
  <2>4. \A n \in Mounts \ {m} : Unseen(n, i) => Unseen(n, i)'
    BY <2>3, UnseenKept
  <2>5. Unseen(m, i) => i = refund[m].id /\ detail[i] # NoStatus
    BY <1>1 DEF Unseen, RefundSound
  <2>6. Unseen(m, i) => i \in excused' \/ i = Observed(m)
    BY <1>5, <2>5 DEF Refetch
  <2>7. Unseen(m, i) => i \in excused' \/ (i \in wanted' /\ reading'[i] = NoStatus)
    BY <2>1, <2>2, <2>5, <2>6
  <2>8. reading'[i] = reading[i] \/ (reading'[i] = NoStatus /\ i \in wanted')
    BY <2>1, <2>2
  <2> QED
    BY <1>1, <2>1, <2>2, <2>4, <2>7, <2>8 DEF Accounted
<1>6. CASE Refunded(m)
  <2>1. UNCHANGED <<row, detail, wanted, reading, excused>> /\ ~Unseen(m, i)
    BY <1>6 DEF Refunded, Unseen
  <2>2. \A n \in Mounts : Unseen(n, i) => Unseen(n, i)'
    BY <1>1, <1>6, <2>1, HandlerMoves, UnseenKept
  <2> QED
    BY <1>1, <2>1, <2>2 DEF Accounted
<1> QED
  BY <1>3, <1>4, <1>5, <1>6 DEF Refund

LEMMA OffersStep ==
    ASSUME IInv, [Next]_vars
    PROVE  OffersAccounted'
<1>1. TypeOK /\ RefundSound /\ OffersAccounted
  BY DEF IInv
<1>2. SUFFICES ASSUME NEW i \in Txns PROVE Accounted(i)'
  BY DEF OffersAccounted, Accounted
<1>3. Accounted(i)
  BY <1>1 DEF OffersAccounted, Accounted
<1>4. UNCHANGED refund => \A m \in Mounts : Unseen(m, i)' <=> Unseen(m, i)
  BY DEF Unseen
<1>5. ASSUME NEW j \in Txns, NEW status \in Status, Move(j, status)
      PROVE  Accounted(i)'
  <2>1. /\ UNCHANGED <<detail, wanted, reading, refund>> /\ excused \subseteq excused'
        /\ row'[i] = row[i] \/ i \in excused' \/ row'[i] # "REFUNDED"
    BY <1>1, <1>5 DEF Move, SetStatus, TypeOK
  <2> QED
    BY <1>3, <1>4, <2>1 DEF Accounted
<1>6. CASE Create
  <2>1. /\ UNCHANGED <<detail, wanted, reading, refund, excused>>
        /\ row'[i] = row[i] \/ row'[i] # "REFUNDED"
    BY <1>1, <1>6 DEF Create, TypeOK
  <2> QED
    BY <1>3, <1>4, <2>1 DEF Accounted
<1>7. ASSUME NEW j \in Txns, ReadDetail(j)
      PROVE  Accounted(i)'
  <2>1. /\ UNCHANGED <<row, detail, wanted, refund, excused>>
        /\ reading'[i] = reading[i] \/ (i \in wanted /\ reading'[i] = row[i])
    BY <1>1, <1>7 DEF ReadDetail, TypeOK
  <2> QED
    BY <1>3, <1>4, <2>1 DEF Accounted
<1>8. ASSUME NEW j \in Txns, LoadDetail(j)
      PROVE  Accounted(i)'
  <2>1. UNCHANGED <<row, refund>>
    BY <1>8 DEF LoadDetail
  <2>2. CASE i # j
    <3>1. /\ detail'[i] = detail[i] /\ reading'[i] = reading[i]
          /\ (i \in wanted' <=> i \in wanted) /\ (i \in excused' <=> i \in excused)
      BY <1>1, <1>8, <2>2 DEF LoadDetail, TypeOK
    <3> QED
      BY <1>3, <1>4, <2>1, <3>1 DEF Accounted
  <2>3. CASE i = j
    <3>1. reading'[i] = NoStatus /\ NoStatus # "SUCCESS"
      BY <1>1, <1>8, <2>3 DEF LoadDetail, TypeOK, NoStatus
    <3>2. CASE UNCHANGED detail /\ excused' = IF row[i] = "REFUNDED" THEN excused \cup {i}
                                                                     ELSE excused
      BY <2>1, <3>1, <3>2 DEF Accounted
    <3>3. CASE detail' = [detail EXCEPT ![i] = reading[i]]
                 /\ excused' = IF reading[i] = row[i] THEN excused \ {i} ELSE excused
      <4>1. detail'[i] = reading[i]
        BY <1>1, <3>3 DEF TypeOK
      <4> QED
        BY <1>3, <1>4, <2>1, <3>1, <3>3, <4>1 DEF Accounted
    <3> QED
      BY <1>8, <2>3, <3>2, <3>3 DEF LoadDetail
  <2> QED
    BY <2>2, <2>3
<1>9. CASE Click \/ Leave
  <2>1. UNCHANGED <<row, detail, wanted, reading, excused>>
    BY <1>9 DEF Click, Leave
  <2>2. \A m \in Mounts : Unseen(m, i) => Unseen(m, i)'
    <3>1. mount \in Mounts
      BY <1>1 DEF TypeOK
    <3>2. CASE Click
      BY <1>1, <3>1, <3>2, HandlerMoves, UnseenKept DEF Click, Unseen
    <3>3. CASE Leave
      BY <1>1, <3>1, <3>3, HandlerMoves, UnseenKept DEF Unseen
    <3> QED
      BY <1>9, <3>2, <3>3
  <2> QED
    BY <1>3, <2>1, <2>2 DEF Accounted
<1>10. CASE (\E j \in Txns : Open(j)) \/ Return
  <2>1. UNCHANGED <<row, detail, reading, refund, excused>> /\ wanted \subseteq wanted'
    BY <1>10 DEF Open, Return, UseDetail
  <2> QED
    BY <1>3, <1>4, <2>1 DEF Accounted
<1>11. CASE UNCHANGED <<row, detail, wanted, reading, refund, excused>>
  BY <1>3, <1>4, <1>11 DEF Accounted
<1> QED
  BY <1>5, <1>6, <1>7, <1>8, <1>9, <1>10, <1>11, RefundAccounted
  DEF Next, User, vars, Fetch, Searching, FindMany, Count, Answer, LoseAnswer, setStatus,
      TurnPage, Close

-----------------------------------------------------------------------------------
(* The theorems. *)

\* The inductive invariant holds of every state of the page.
THEOREM Inductive == Spec => []IInv
<1>1. IInv /\ [Next]_vars => IInv'
  BY TypeStep, RefundStep, ListsStep, OffersStep DEF IInv
<1> QED
  BY <1>1, InitIInv, PTL DEF Spec

\* Every state is of the declared types, whatever the user, the network and the backend do.
THEOREM TypeCorrect == Spec => []TypeOK
<1>1. IInv => TypeOK
  BY DEF IInv
<1> QED
  BY <1>1, Inductive, PTL

\* The page buttons of transactions/page.tsx never lead to a page without rows as long as
\* no row has left the filter.
THEOREM EmptyPagesExplained == Spec => []EmptyPageExplained
<1>1. IInv => EmptyPageExplained
  BY Typed DEF IInv, PagesExist, EmptyPageExplained, Shown
<1> QED
  BY <1>1, Inductive, PTL

\* The two statements of searchTransactions answer with a page and a total that belong
\* together unless the table changed between them.
THEOREM ReadsStayCoherent == Spec => []ReadsCoherent
<1>1. IInv => ReadsCoherent
  BY DEF IInv
<1> QED
  BY <1>1, Inductive, PTL

\* The dialog offers a second refund only for one of the causes that OfferExplained
\* names, however often the page is left and entered again.
THEOREM OffersExplained == Spec => []OfferExplained
<1>1. IInv => OfferExplained
  BY DEF IInv, OffersAccounted, OfferExplained, Unseen, TypeOK
<1> QED
  BY <1>1, Inductive, PTL
===================================================================================
