--------------------------- MODULE PaymentGeneratorProofs ---------------------------
(***************************************************************************)
(* Proofs about PaymentGenerator, for every set of keys and every number of   *)
(* mounts and reloads: IInv is inductive, and with it the form never charges   *)
(* twice, never uses a key again and never leaves its panel hidden.            *)
(***************************************************************************)
EXTENDS PaymentGenerator, TLAPS

\* The part of IInv about keys, which the view does not touch.
KeysOK ==
    /\ \A k \in Keys : bound[k] \in {None, k}
    /\ \A k \in Answered : bound[k] # None
    /\ key \notin Answered \cup forgotten
    /\ network \subseteq Answered \cup forgotten \cup {key}
    /\ NoDoubleCharge

LEMMA Split == /\ IInv <=> TypeOK /\ KeysOK /\ PanelReturns
               /\ IInv' <=> TypeOK' /\ KeysOK' /\ PanelReturns'
BY DEF IInv, KeysOK

\* A step that changes neither keys nor the server's promise keeps KeysOK.
LEMMA SameKeys ==
    ASSUME KeysOK, UNCHANGED <<key, network, bound, told, forgotten>>
    PROVE  KeysOK'
BY DEF KeysOK, NoDoubleCharge, Answered

\* A step that changes neither page nor timers keeps PanelReturns.
LEMMA SamePanel ==
    ASSUME PanelReturns, UNCHANGED <<page, timers>>
    PROVE  PanelReturns'
BY DEF PanelReturns

LEMMA InitIInv == Init => IInv
<1> SUFFICES ASSUME Init PROVE IInv
  OBVIOUS
<1> USE DEF Init, Payments!Init
<1>1. Answered = {}
  BY DEF Answered
<1>2. TypeOK
  BY BoundsAssumption DEF TypeOK, Page, Timer, Simulation
<1>3. KeysOK
  BY <1>1 DEF KeysOK, NoDoubleCharge
<1>4. PanelReturns
  BY DEF PanelReturns
<1> QED
  BY <1>2, <1>3, <1>4, Split

----------------------------------------------------------------------------------
(* The form. *)

LEMMA SubmitStep ==
    ASSUME IInv, Submit
    PROVE  IInv'
<1> USE Split
<1>1. PICK k \in SubmitKeys :
          key' = k /\ request' = k /\ network' = network \cup {k}
  BY DEF Submit
<1>2. /\ UNCHANGED <<page, timers, simulations, bound, told, ended, overdue, forgotten>>
      /\ UNCHANGED <<result, reloads>>
  BY DEF Submit
<1>3. k \in Keys /\ k \notin Answered \cup forgotten /\ (key # None => k = key)
  BY NoneAssumption DEF SubmitKeys, FreshKeys, KeysOK, TypeOK
<1>4. TypeOK'
  BY <1>1, <1>2, <1>3 DEF TypeOK
<1>5. KeysOK'
  <2>1. Answered' = Answered
    BY <1>2 DEF Answered
  <2>2. None \notin network
    BY NoneAssumption DEF TypeOK
  <2> QED
    BY <1>1, <1>2, <1>3, <2>1, <2>2 DEF KeysOK, NoDoubleCharge, TypeOK
<1> QED
  BY <1>2, <1>4, <1>5, SamePanel

\* The server's answer adds the form's key to the answered ones.
LEMMA SucceedStep ==
    ASSUME IInv, Succeed
    PROVE  /\ IInv'
           /\ result' = key /\ key \notin Answered
<1> USE Split
<1>1. /\ request = key /\ key \in Keys /\ bound[key] = key
      /\ told' = told \cup {<<key, key>>}
      /\ result' = key /\ key' = None /\ request' = None
      /\ UNCHANGED <<page, timers, simulations, network, bound, ended, overdue>>
      /\ UNCHANGED <<forgotten, reloads>>
  BY DEF Succeed, Payments!Tell, KeyAfterSuccess, KeysOK, TypeOK
<1>2. Answered' = Answered \cup {key}
  <2>1. <<key, key>>[1] = key
    OBVIOUS
  <2>2. \A pair : told' = told \cup {pair} /\ pair[1] = key => Answered' = Answered \cup {key}
    BY DEF Answered
  <2> QED
    BY <1>1, <2>1, <2>2
<1>3. TypeOK'
  BY <1>1 DEF TypeOK
<1>4. None \notin Answered \cup forgotten
  BY NoneAssumption DEF TypeOK, Answered
<1>5. KeysOK'
  BY <1>1, <1>2, <1>4, NoneAssumption DEF KeysOK, NoDoubleCharge
<1> QED
  BY <1>1, <1>3, <1>5, SamePanel DEF KeysOK

LEMMA FailStep ==
    ASSUME IInv, Fail
    PROVE  IInv'
<1> USE Split
<1>1. /\ network' \subseteq network
      /\ result' = None /\ request' = None
      /\ UNCHANGED <<key, page, timers, simulations, bound, told, ended, overdue>>
      /\ UNCHANGED <<forgotten, reloads>>
  BY DEF Fail, AfterThrow
<1>2. TypeOK'
  BY <1>1 DEF TypeOK
<1>3. KeysOK'
  BY <1>1 DEF KeysOK, NoDoubleCharge, Answered
<1> QED
  BY <1>1, <1>2, <1>3, SamePanel

----------------------------------------------------------------------------------
(* The view. *)

\* Whatever hides the panel sets its timer.
LEMMA HidePanelStep ==
    ASSUME IInv, NEW t \in Keys, NEW by \in {"countdown", "simulation"},
           NEW m \in 1..MaxMounts, HidePanel(t, by, m)
    PROVE  page' \in Page /\ timers' \subseteq Timer /\ PanelReturns'
<1>1. PanelReturns /\ page \in Page /\ timers \subseteq Timer
  BY DEF IInv, TypeOK
<1>2. NewTimer(t, by, m) \in Timer /\ NewTimer(t, by, m).mount = m
  BY DEF NewTimer, Timer
<1>3. /\ page' \in Page /\ page'.mount = page.mount /\ page'.mounted = page.mounted
      /\ page'.bypass = (page.bypass \/ (page.mounted /\ page.mount = m))
  BY <1>1 DEF HidePanel, Page
<1>4. timers' = timers \cup {NewTimer(t, by, m)}
  BY DEF HidePanel
<1>5. ASSUME page'.bypass
      PROVE  page'.mounted /\ \E x \in timers' : x.mount = page'.mount
  BY <1>1, <1>2, <1>3, <1>4, <1>5 DEF PanelReturns
<1> QED
  BY <1>1, <1>2, <1>3, <1>4, <1>5 DEF PanelReturns

LEMMA SimulateStep ==
    ASSUME IInv, Simulate
    PROVE  IInv'
<1> USE Split
<1>1. /\ result \in Keys /\ page.mount \in 1..MaxMounts
      /\ simulations \subseteq Simulation
  BY DEF Simulate, TypeOK, Page
<1>2. PICK s \in Simulation : s.mount = page.mount /\ simulations' = simulations \cup {s}
  <2> DEFINE new == [txn |-> result, mount |-> page.mount, pc |-> "sent"]
  <2>1. new \in Simulation /\ new.mount = page.mount
    BY <1>1 DEF Simulation
  <2> QED
    BY <2>1 DEF Simulate
<1>3. UNCHANGED <<key, result, request, page, timers, server, forgotten, reloads>>
  BY DEF Simulate
<1>4. \A r \in simulations : r.mount # s.mount
  BY <1>2 DEF Simulate, Simulating
<1>5. TypeOK'
  BY <1>1, <1>2, <1>3, <1>4 DEF TypeOK, server
<1> QED
  BY <1>3, <1>5, SameKeys, SamePanel DEF server

LEMMA SimulatedStep ==
    ASSUME IInv, NEW s \in simulations, Simulated(s)
    PROVE  IInv'
<1> USE Split
<1>1. s.txn \in Keys /\ s.mount \in 1..MaxMounts
  BY DEF TypeOK, Simulation
<1>2. /\ HidePanel(s.txn, "simulation", s.mount)
      /\ simulations' = simulations \ {s}
      /\ UNCHANGED <<key, result, request, server, forgotten, reloads>>
  BY DEF Simulated
<1>3. page' \in Page /\ timers' \subseteq Timer /\ PanelReturns'
  BY <1>1, <1>2, HidePanelStep
<1>4. TypeOK'
  BY <1>2, <1>3 DEF TypeOK, server
<1> QED
  BY <1>2, <1>3, <1>4, SameKeys DEF server

LEMMA NotSimulatedStep ==
    ASSUME IInv, NEW s \in simulations, NotSimulated(s)
    PROVE  IInv'
<1> USE Split
<1>1. /\ simulations' = simulations \ {s}
      /\ UNCHANGED <<key, result, request, page, timers, server, forgotten, reloads>>
  BY DEF NotSimulated
<1>2. TypeOK'
  BY <1>1 DEF TypeOK, server
<1> QED
  BY <1>1, <1>2, SameKeys, SamePanel DEF server

LEMMA ExpireStep ==
    ASSUME IInv, Expire
    PROVE  IInv'
<1> USE Split
<1>1. /\ result \in Keys /\ page.mount \in 1..MaxMounts
      /\ HidePanel(result, "countdown", page.mount)
      /\ UNCHANGED <<key, result, request, simulations, server, forgotten, reloads>>
  BY DEF Expire, TypeOK, Page
<1>2. page' \in Page /\ timers' \subseteq Timer /\ PanelReturns'
  BY <1>1, HidePanelStep
<1>3. TypeOK'
  BY <1>1, <1>2 DEF TypeOK, server
<1> QED
  BY <1>1, <1>2, <1>3, SameKeys DEF server

\* A timer that goes away is no longer needed: if it was the page's, the panel is back.
LEMMA TimerStep ==
    ASSUME IInv, NEW t \in timers, TimerFires(t)
    PROVE  IInv'
<1> USE Split
<1>1. /\ timers' = timers \ {t} /\ result' = None
      /\ UNCHANGED <<key, request, simulations, server, forgotten, reloads>>
  BY DEF TimerFires
<1>2. /\ page' \in Page /\ page'.mount = page.mount /\ page'.mounted = page.mounted
      /\ page'.bypass = (page.bypass /\ t.mount # page.mount)
  BY DEF TimerFires, TypeOK, Page
<1>3. PanelReturns'
  BY <1>1, <1>2 DEF PanelReturns
<1>4. TypeOK'
  BY <1>1, <1>2 DEF TypeOK, server
<1> QED
  BY <1>1, <1>3, <1>4, SameKeys DEF server

\* Clear, Leave and Return leave no panel hidden.
LEMMA PageStep ==
    ASSUME IInv, Clear \/ Leave \/ Return
    PROVE  IInv'
<1> USE Split
<1>1. /\ result' \in {result, None}
      /\ UNCHANGED <<key, request, timers, simulations, server, forgotten, reloads>>
  BY DEF Clear, Leave, Return
<1>2. page' \in Page /\ ~page'.bypass
  <2>1. page \in Page /\ (page.bypass => page.mounted)
    BY DEF TypeOK, PanelReturns
  <2>2. CASE Clear
    BY <2>1, <2>2 DEF Clear, Page
  <2>3. CASE Leave
    BY <2>1, <2>3 DEF Leave, Page
  <2>4. CASE Return
    <3>1. page.mount + 1 \in 1..MaxMounts
      BY <2>1, <2>4, BoundsAssumption DEF Return, Page
    <3> QED
      BY <2>1, <2>4, <3>1 DEF Return, Page
  <2> QED
    BY <2>2, <2>3, <2>4
<1>4. PanelReturns'
  BY <1>2 DEF PanelReturns
<1>5. TypeOK'
  BY <1>1, <1>2 DEF TypeOK, server
<1> QED
  BY <1>1, <1>4, <1>5, SameKeys DEF server

----------------------------------------------------------------------------------
(* The browser and the server. *)

\* What the form was about to learn of, the reload forgets.
LEMMA ReloadStep ==
    ASSUME IInv, Reload
    PROVE  IInv'
<1> USE Split
<1>1. /\ key' = None /\ result' = None /\ request' = None
      /\ timers' = {} /\ simulations' = {}
      /\ forgotten' = forgotten \cup ({key} \ {None})
      /\ UNCHANGED <<network, bound, told, ended, overdue>>
  BY DEF Reload, server
<1>2. page' \in Page /\ ~page'.bypass
  BY DEF Reload, TypeOK, Page
<1>3. reloads' \in 0..MaxReloads
  BY BoundsAssumption DEF Reload, TypeOK
<1>4. PanelReturns'
  BY <1>2 DEF PanelReturns
<1>5. TypeOK'
  BY <1>1, <1>2, <1>3 DEF TypeOK
<1>6. KeysOK'
  <2>1. Answered' = Answered
    BY <1>1 DEF Answered
  <2>2. None \notin Answered \cup network \cup forgotten'
    BY <1>1, NoneAssumption DEF TypeOK, Answered
  <2> QED
    BY <1>1, <2>1, <2>2, NoneAssumption DEF KeysOK, NoDoubleCharge
<1> QED
  BY <1>4, <1>5, <1>6

\* A request that is served was for a key already accounted for.
LEMMA ServeStep ==
    ASSUME IInv, NEW k \in network, Serve(k)
    PROVE  IInv'
<1> USE Split
<1>1. /\ network' = network \ {k} /\ k \in Keys
      /\ bound' \in {bound, [bound EXCEPT ![k] = k]} /\ told' = told
      /\ UNCHANGED <<browser, ended, overdue, forgotten, reloads>>
  BY DEF Serve, Payments!Bind, TypeOK
<1>2. bound \in [Keys -> Keys \cup {None}]
  BY DEF TypeOK
<1>3. /\ bound' \in [Keys -> Keys \cup {None}]
      /\ \A i \in Keys : bound'[i] = bound[i] \/ (i = k /\ bound'[i] = k)
  BY <1>1, <1>2
<1>4. TypeOK'
  BY <1>1, <1>3 DEF TypeOK, browser
<1>5. KeysOK'
  <2>1. Answered' = Answered /\ Answered \subseteq Keys
    BY <1>1 DEF Answered, TypeOK
  <2>2. k # None
    BY <1>1, NoneAssumption
  <2>3. \A i \in Keys : bound'[i] \in {None, i} /\ (bound[i] # None => bound'[i] # None)
    BY <1>3, <2>2 DEF KeysOK
  <2> QED
    BY <1>1, <1>3, <2>1, <2>3 DEF KeysOK, NoDoubleCharge, browser
<1> QED
  BY <1>1, <1>4, <1>5, SamePanel DEF browser

LEMMA SettleStep ==
    ASSUME IInv, NEW s \in simulations, Settle(s)
    PROVE  IInv'
<1> USE Split
<1>1. UNCHANGED <<key, result, request, page, timers, network, bound, told, overdue,
                  forgotten, reloads>>
  BY DEF Settle
<1>2. s \in Simulation
  BY DEF TypeOK
<1>3. PICK r \in Simulation :
          /\ r.mount = s.mount
          /\ simulations' = (simulations \ {s}) \cup {r}
  <2> DEFINE r == [s EXCEPT !.pc = IF s.txn \in ended THEN "refused" ELSE "settled"]
  <2>1. r \in Simulation /\ r.mount = s.mount
    BY <1>2 DEF Simulation
  <2> QED
    BY <2>1 DEF Settle
<1>4. ended' \subseteq Keys
  BY <1>2 DEF Settle, TypeOK, Simulation
<1>5. TypeOK'
  BY <1>1, <1>3, <1>4 DEF TypeOK
<1> QED
  BY <1>1, <1>5, SameKeys, SamePanel

LEMMA WorldStep ==
    ASSUME IInv, NEW k \in Keys, End(k) \/ Age(k)
    PROVE  IInv'
<1> USE Split
<1>1. /\ UNCHANGED <<browser, network, bound, told, forgotten, reloads>>
      /\ ended' \subseteq Keys /\ overdue' \subseteq Keys
  BY DEF End, Age, TypeOK
<1>2. TypeOK'
  BY <1>1 DEF TypeOK, browser
<1> QED
  BY <1>1, <1>2, SameKeys, SamePanel DEF browser

----------------------------------------------------------------------------------
(* The theorems. *)

LEMMA NextStep == IInv /\ [Next]_vars => IInv'
<1> SUFFICES ASSUME IInv, [Next]_vars PROVE IInv'
  OBVIOUS
<1>1. CASE Submit
  BY <1>1, SubmitStep
<1>2. CASE Succeed
  BY <1>2, SucceedStep
<1>3. CASE Fail
  BY <1>3, FailStep
<1>4. CASE Simulate
  BY <1>4, SimulateStep
<1>5. CASE Expire
  BY <1>5, ExpireStep
<1>6. CASE Clear \/ Leave \/ Return
  BY <1>6, PageStep
<1>7. CASE Reload
  BY <1>7, ReloadStep
<1>8. ASSUME NEW s \in simulations, Simulated(s) \/ NotSimulated(s) \/ Settle(s)
      PROVE  IInv'
  BY <1>8, SimulatedStep, NotSimulatedStep, SettleStep
<1>9. ASSUME NEW t \in timers, TimerFires(t) PROVE IInv'
  BY <1>9, TimerStep
<1>10. ASSUME NEW k \in network, Serve(k) PROVE IInv'
  BY <1>10, ServeStep
<1>11. ASSUME NEW k \in Keys, End(k) \/ Age(k) PROVE IInv'
  BY <1>11, WorldStep
<1>12. CASE UNCHANGED vars
  <2>1. UNCHANGED <<browser, server, forgotten, reloads>>
    BY <1>12 DEF vars
  <2>2. TypeOK'
    BY <2>1, Split DEF TypeOK, browser, server
  <2> QED
    BY <2>1, <2>2, Split, SameKeys, SamePanel DEF browser, server
<1> QED
  BY <1>1, <1>2, <1>3, <1>4, <1>5, <1>6, <1>7, <1>8, <1>9, <1>10, <1>11, <1>12 DEF Next

\* The inductive invariant holds in every state, for any keys, mounts and reloads.
THEOREM Inductive == Spec => []IInv
<1> QED
  BY InitIInv, NextStep, PTL DEF Spec

\* Types; in particular the store awaits an answer only for the key it holds, and a mount
\* has one simulation in flight.
THEOREM TypeCorrect == Spec => []TypeOK
<1>1. IInv => TypeOK
  BY DEF IInv
<1> QED
  BY <1>1, Inductive, PTL

\* Submits that fail, lost answers and late requests leave no transaction the merchant
\* was not told of, but the one the form still asks for and those a reload forgot.
THEOREM ChargesOnce == Spec => []NoDoubleCharge
<1>1. IInv => NoDoubleCharge
  BY DEF IInv
<1> QED
  BY <1>1, Inductive, PTL

\* A hidden panel always has the timer that brings it back.
THEOREM NeverStuck == Spec => []PanelReturns
<1>1. IInv => PanelReturns
  BY DEF IInv
<1> QED
  BY <1>1, Inductive, PTL

\* Whatever the form comes to show is a payment it has not shown before.
THEOREM ShowsNewPayments == Spec => NewPaymentIsNew
<1>1. ASSUME IInv, [Next]_vars, NEW k \in Keys, result' = k, result # k
      PROVE  k \notin Answered
  <2>1. k # None
    BY NoneAssumption
  <2>2. CASE Succeed
    BY <1>1, <2>2, SucceedStep
  <2>3. CASE ~Succeed
    <3>1. result' \in {result, None}
      BY <1>1, <2>3 DEF Next, vars, browser, Submit, Fail, Simulate, Expire, Clear, Leave,
         Return, Reload, Simulated, NotSimulated, Settle, TimerFires, Serve, End, Age
    <3> QED
      BY <1>1, <2>1, <3>1
  <2> QED
    BY <2>2, <2>3
<1>2. IInv /\ [Next]_vars
          => [\A k \in Keys : result' = k /\ result # k => k \notin Answered]_vars
  BY <1>1
<1> QED
  BY <1>2, Inductive, PTL DEF Spec, NewPaymentIsNew
=====================================================================================
