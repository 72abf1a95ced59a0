------------------------------ MODULE PaymentGenerator ------------------------------
(***************************************************************************)
(* The payment generator page of the dashboard: the form that creates a      *)
(* payment (payment-form.tsx), the view of its result (payment-result.tsx)   *)
(* and the store behind both, which outlives the page while the merchant      *)
(* navigates but not a reload.                                               *)
(*                                                                         *)
(* The server is what IdempotentCreation promises: CreatePayment implements   *)
(* it.  A request may be lost, answered late or served after the browser gave  *)
(* up on it.  There is one merchant, and the transaction of a key bears the   *)
(* key's name.                                                              *)
(***************************************************************************)
EXTENDS Naturals, FiniteSets

CONSTANTS
    Keys,          \* what crypto.randomUUID returns
    None,          \* no key (null or ""), no result (null), no request
    MaxMounts,     \* how often the page is opened (bound of the model)
    MaxReloads     \* how often the browser reloads (bound of the model)

ASSUME NoneAssumption == None \notin Keys
ASSUME BoundsAssumption == MaxMounts \in Nat \ {0} /\ MaxReloads \in Nat

VARIABLES
    key,           \* the store's idempotencyKey
    result,        \* the store's result: the transaction shown
    request,       \* the key createPayment awaits an answer for (isSubmitting)
    page,          \* the component: is it mounted, for which time, bypassExecuted
    timers,        \* the setTimeouts that will clear the result
    simulations,   \* the calls of simulatePaymentStatus in flight
    network,       \* keys of requests the server has not handled yet
    bound, told,   \* the server's promise (IdempotentCreation)
    ended,         \* transactions that have left PENDING
    overdue,       \* transactions whose expiresAt has passed
    forgotten,     \* auxiliary: keys a reload took with it
    reloads

browser == <<key, result, request, page, timers, simulations>>
server == <<network, bound, told, ended, overdue>>
vars == <<browser, server, forgotten, reloads>>

Payments == INSTANCE IdempotentCreation WITH Slots <- Keys, Ids <- Keys, Unbound <- None

Page == [mounted : BOOLEAN, mount : 1..MaxMounts, bypass : BOOLEAN]

\* A timer, and the mount of the component that set it: only that one's state changes.
Timer == [txn : Keys, by : {"countdown", "simulation"}, mount : 1..MaxMounts]

Simulation == [txn : Keys, mount : 1..MaxMounts, pc : {"sent", "settled", "refused"}]

\* The answered keys.
Answered == {t[1] : t \in told}

\* The `simulating` flag, which a new mount starts without.
Simulating == \E s \in simulations : s.mount = page.mount

TypeOK ==
    /\ key \in Keys \cup {None} /\ result \in Keys \cup {None}
    /\ request \in {None, key}
    /\ page \in Page
    /\ timers \subseteq Timer
    /\ simulations \subseteq Simulation
    /\ \A s, r \in simulations : s.mount = r.mount => s = r
    /\ network \subseteq Keys
    /\ bound \in [Keys -> Keys \cup {None}] /\ told \subseteq Keys \X Keys
    /\ ended \subseteq Keys /\ overdue \subseteq Keys /\ forgotten \subseteq Keys
    /\ reloads \in 0..MaxReloads

Init ==
    /\ Payments!Init
    /\ key = None /\ result = None /\ request = None
    /\ page = [mounted |-> TRUE, mount |-> 1, bypass |-> FALSE]
    /\ timers = {} /\ simulations = {}
    /\ network = {} /\ ended = {} /\ overdue = {} /\ forgotten = {}
    /\ reloads = 0

----------------------------------------------------------------------------------
(* The form. *)

\* A key nobody has used.
FreshKeys == {k \in Keys : bound[k] = None} \ (network \cup forgotten)

\* Mutant of SubmitKeys: no key is kept.
NewKeyEveryTime == FreshKeys \ {key}

\* The key of this submit: the one kept from an attempt without an answer, or a new one.
SubmitKeys == IF key = None THEN FreshKeys ELSE {key}

\* handleSubmit up to the fetch, for valid values; the button is disabled meanwhile.
Submit ==
    /\ page.mounted /\ request = None
    /\ \E k \in SubmitKeys :
           /\ key' = k /\ request' = k
           /\ network' = network \cup {k}
    /\ UNCHANGED <<result, page, timers, simulations, bound, told, ended, overdue,
                   forgotten, reloads>>

\* Mutant of KeyAfterSuccess: setIdempotencyKey("") is missing.
KeyKept == key

\* The key after an answer: "".
KeyAfterSuccess == None

\* The answer has arrived, whether the page is still open or not.
Succeed ==
    /\ request # None /\ request \notin network
    /\ Payments!Tell(request)
    /\ result' = bound[request]
    /\ key' = KeyAfterSuccess /\ request' = None
    /\ UNCHANGED <<page, timers, simulations, network, ended, overdue, forgotten, reloads>>

\* createPayment throws on every failure.  The request may be lost, be served with its
\* answer lost, or still be on its way.
AfterThrow == {network, network \ {request}}

\* No answer or an error: the key stays, the view is emptied.
Fail ==
    /\ request # None
    /\ network' \in AfterThrow
    /\ result' = None /\ request' = None
    /\ UNCHANGED <<key, page, timers, simulations, bound, told, ended, overdue,
                   forgotten, reloads>>

----------------------------------------------------------------------------------
(* The view. *)

NewTimer(t, by, m) == [txn |-> t, by |-> by, mount |-> m]

\* handleSimulateStatus up to the fetch; the button is disabled meanwhile.
Simulate ==
    /\ page.mounted /\ result # None
    /\ ~page.bypass /\ ~Simulating
    /\ simulations' = simulations
           \cup {[txn |-> result, mount |-> page.mount, pc |-> "sent"]}
    /\ UNCHANGED <<key, result, request, page, timers, server, forgotten, reloads>>

\* Mutant of HidePanel: the setTimeout is missing.
HidePanelOnly(t, by, m) ==
    /\ page' = [page EXCEPT !.bypass = @ \/ (page.mounted /\ page.mount = m)]
    /\ UNCHANGED timers

\* A simulated or expired payment: the panel and the countdown are hidden (setState of a
\* component that is gone does nothing) and a timer is set.
HidePanel(t, by, m) ==
    /\ page' = [page EXCEPT !.bypass = @ \/ (page.mounted /\ page.mount = m)]
    /\ timers' = timers \cup {NewTimer(t, by, m)}

\* handleSimulateStatus after the fetch: whatever is shown by now.
Simulated(s) ==
    /\ s.pc = "settled"
    /\ HidePanel(s.txn, "simulation", s.mount)
    /\ simulations' = simulations \ {s}
    /\ UNCHANGED <<key, result, request, server, forgotten, reloads>>

\* The call was refused, or its answer was lost: only a message.
NotSimulated(s) ==
    /\ simulations' = simulations \ {s}
    /\ UNCHANGED <<key, result, request, page, timers, server, forgotten, reloads>>

\* The countdown reaches zero.
Expire ==
    /\ page.mounted /\ result \in overdue /\ ~page.bypass
    /\ HidePanel(result, "countdown", page.mount)
    /\ UNCHANGED <<key, result, request, simulations, server, forgotten, reloads>>

\* Mutant of TimerFires: a timer that finds another result does nothing.
TimerClearsOwn(t) ==
    /\ timers' = timers \ {t}
    /\ IF result = t.txn
       THEN result' = None /\ page' = [page EXCEPT !.bypass = @ /\ t.mount # page.mount]
       ELSE UNCHANGED <<result, page>>
    /\ UNCHANGED <<key, request, simulations, server, forgotten, reloads>>

\* A timer clears the result that is there, its own or a later one.
TimerFires(t) ==
    /\ timers' = timers \ {t}
    /\ result' = None
    /\ page' = [page EXCEPT !.bypass = @ /\ t.mount # page.mount]
    /\ UNCHANGED <<key, request, simulations, server, forgotten, reloads>>

\* handleClearResult.
Clear ==
    /\ page.mounted /\ result # None
    /\ result' = None
    /\ page' = [page EXCEPT !.bypass = FALSE]
    /\ UNCHANGED <<key, request, timers, simulations, server, forgotten, reloads>>

----------------------------------------------------------------------------------
(* The browser. *)

\* The merchant opens another page: the component's state is gone, the store, the
\* timers and the calls in flight are not.
Leave ==
    /\ page.mounted
    /\ page' = [page EXCEPT !.mounted = FALSE, !.bypass = FALSE]
    /\ UNCHANGED <<key, result, request, timers, simulations, server, forgotten, reloads>>

Return ==
    /\ ~page.mounted /\ page.mount < MaxMounts
    /\ page' = [page EXCEPT !.mounted = TRUE, !.mount = @ + 1]
    /\ UNCHANGED <<key, result, request, timers, simulations, server, forgotten, reloads>>

\* A reload: what has been sent stays sent, all else is gone.
Reload ==
    /\ reloads < MaxReloads
    /\ reloads' = reloads + 1
    /\ forgotten' = forgotten \cup ({key} \ {None})
    /\ key' = None /\ result' = None /\ request' = None
    /\ page' = [page EXCEPT !.mounted = TRUE, !.bypass = FALSE]
    /\ timers' = {} /\ simulations' = {}
    /\ UNCHANGED server

----------------------------------------------------------------------------------
(* The server. *)

\* A request is handled: its key's transaction is made, or found.
Serve(k) ==
    /\ network' = network \ {k}
    /\ \/ Payments!Bind(k, k)
       \/ bound[k] # None /\ UNCHANGED <<bound, told>>
    /\ UNCHANGED <<browser, ended, overdue, forgotten, reloads>>

\* The simulated bank callback: refused once the transaction has ended.
Settle(s) ==
    /\ s.pc = "sent"
    /\ ended' = ended \cup {s.txn}
    /\ simulations' = (simulations \ {s})
           \cup {[s EXCEPT !.pc = IF s.txn \in ended THEN "refused" ELSE "settled"]}
    /\ UNCHANGED <<key, result, request, page, timers, network, bound, told, overdue,
                   forgotten, reloads>>

\* A transaction ends otherwise: the bank's callback, or a sweep.
End(k) ==
    /\ bound[k] # None
    /\ ended' = ended \cup {k}
    /\ UNCHANGED <<browser, network, bound, told, overdue, forgotten, reloads>>

Age(k) ==
    /\ bound[k] # None
    /\ overdue' = overdue \cup {k}
    /\ UNCHANGED <<browser, network, bound, told, ended, forgotten, reloads>>

Next ==
    \/ Submit \/ Succeed \/ Fail
    \/ Simulate \/ Expire \/ Clear
    \/ Leave \/ Return \/ Reload
    \/ \E s \in simulations : Simulated(s) \/ NotSimulated(s) \/ Settle(s)
    \/ \E t \in timers : TimerFires(t)
    \/ \E k \in network : Serve(k)
    \/ \E k \in Keys : End(k) \/ Age(k)

Spec == Init /\ [][Next]_vars

\* The interval ticks every second while the page is open, and timeouts fire.
FairSpec ==
    /\ Spec
    /\ WF_vars(Expire)
    /\ WF_vars(\E t \in timers : TimerFires(t))

----------------------------------------------------------------------------------
(* Properties. *)

\* No double charge: submits that fail, answers that are lost and requests served late
\* never leave a transaction behind that the merchant was not told of, except the one
\* the form is still trying to learn of, and one that a reload made it forget.
NoDoubleCharge ==
    \A k \in Keys : bound[k] # None => k \in Answered \cup forgotten \cup {key}

\* An answer the form shows is a payment of its own: a key that has served is not used
\* for the next payment, which would get the old transaction and no new one.
NewPaymentIsNew ==
    [][\A k \in Keys : result' = k /\ result # k => k \notin Answered]_vars

\* While the panel is hidden a timer of this mount will bring it back: answers,
\* clearing and navigation never leave the page without countdown and simulation for good.
PanelReturns == page.bypass => page.mounted /\ \E t \in timers : t.mount = page.mount

\* The inductive invariant behind the three properties above: a transaction bears its
\* key's name, an answered key has one and is never the form's, and every request under
\* way is for a key that is accounted for.
IInv ==
    /\ TypeOK
    /\ \A k \in Keys : bound[k] \in {None, k}
    /\ \A k \in Answered : bound[k] # None
    /\ key \notin Answered \cup forgotten
    /\ network \subseteq Answered \cup forgotten \cup {key}
    /\ NoDoubleCharge
    /\ PanelReturns

\* A result whose time is over leaves the open page, whatever timers, simulations and
\* new payments come between.
OverdueCleared ==
    \A k \in Keys : result = k /\ k \in overdue /\ page.mounted ~> result # k \/ ~page.mounted
=====================================================================================
