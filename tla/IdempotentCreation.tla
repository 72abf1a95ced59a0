---------------------------- MODULE IdempotentCreation ----------------------------
(***************************************************************************)
(* What POST /payments promises a merchant: the abstract specification that *)
(* CreatePayment implements.  An idempotency slot (a merchant and a key) is  *)
(* bound to one transaction at most once and for ever, every answer given    *)
(* for the slot names that transaction, and no transaction serves two slots. *)
(***************************************************************************)
CONSTANTS Slots, Ids, Unbound

VARIABLES
    bound,      \* Slots -> the transaction the slot stands for
    told        \* the <<slot, id>> pairs clients have been given

vars == <<bound, told>>

Init ==
    /\ bound = [s \in Slots |-> Unbound]
    /\ told = {}

Bind(s, id) ==
    /\ bound[s] = Unbound
    /\ \A other \in Slots : bound[other] # id
    /\ bound' = [bound EXCEPT ![s] = id]
    /\ UNCHANGED told

Tell(s) ==
    /\ bound[s] # Unbound
    /\ told' = told \cup {<<s, bound[s]>>}
    /\ UNCHANGED bound

Next == \E s \in Slots : Tell(s) \/ \E id \in Ids : Bind(s, id)

Spec == Init /\ [][Next]_vars
===================================================================================
