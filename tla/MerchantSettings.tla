------------------------------ MODULE MerchantSettings ------------------------------
(***************************************************************************)
(* API keys and settings of a merchant: the merchants table, the API-key guard  *)
(* in front of every merchant endpoint, the settings endpoints behind it, the    *)
(* audit interceptor around them, and the settings pages of a browser, which     *)
(* keeps its key in localStorage and falls back to a built-in one.               *)
(*                                                                         *)
(* Guard and handler are separate queries, an answer may be lost, and the        *)
(* backend may stop at any point.  The seed of the launcher writes the same      *)
(* table.                                                                    *)
(***************************************************************************)
CONSTANTS
    Merchants,     \* merchant ids
    NewKeys,       \* what regenerateMerchantApiKey draws
    DemoKey,       \* "merchant-demo-key": the seed's key and the pages' fallback
    Browsers,      \* each with a localStorage
    Requests,      \* the requests ever sent (bound of the model)
    Processes,     \* backend processes
    None           \* no row, nothing stored, no process

ASSUME KeysAssumption == DemoKey \notin NewKeys /\ None \notin NewKeys \cup {DemoKey}
ASSUME NoneAssumption == None \notin Merchants \cup Processes \cup Browsers

VARIABLES
    merchant,      \* the merchants table
    issued,        \* the keys drawn so far
    stored,        \* localStorage.merchantApiKey of each browser
    shown,         \* activeKey.id on the API keys page of each browser
    request,       \* requests and their answers
    auditing,      \* calls of logAction nobody waits for
    audit,         \* audit_logs: the requests with an entry
    backend,       \* the process that serves port 3000
    unaudited,     \* auxiliary: requests whose entry a stop took with it
    overlapped     \* auxiliary: regenerations under way with another of their browser

settings == <<merchant, issued, stored, shown, request, auditing, audit,
              backend, unaudited, overlapped>>

Keys == NewKeys \cup {DemoKey}

Row == [key : Keys, status : {"ACTIVE", "SUSPENDED"},
        name : {"seeded", "own"}, url : {"none", "own"}]
ASSUME RowAssumption == None \notin Row

Seeded(key) == [key |-> key, status |-> "ACTIVE", name |-> "seeded", url |-> "none"]

Kinds == {"list", "regenerate", "rename", "url", "test"}

\* The key a request carries, the id in its path, the merchant the guard found,
\* and the key a regeneration drew.
Request == [pc : {"unsent", "sent", "handler", "answered", "refused", "closed", "lost"},
            kind : Kinds, browser : Browsers \cup {None}, key : Keys, id : Merchants \cup {None},
            merchant : Merchants \cup {None}, newKey : Keys \cup {None}]

Unsent == [pc |-> "unsent", kind |-> "list", browser |-> None, key |-> DemoKey,
           id |-> None, merchant |-> None, newKey |-> None]

Rows == {m \in Merchants : merchant[m] # None}

\* A browser's key: what it stored, or the fallback.
getMerchantApiKey(b) == IF stored[b] = None THEN DemoKey ELSE stored[b]

\* Requests on their way or not taken in yet.
Outstanding(r) == request[r].pc \in {"sent", "handler", "answered", "refused"}

TypeOK ==
    /\ merchant \in [Merchants -> Row \cup {None}]
    /\ issued \subseteq NewKeys
    /\ stored \in [Browsers -> NewKeys \cup {None}]
    /\ shown \in [Browsers -> Merchants \cup {None}]
    /\ request \in [Requests -> Request]
    /\ auditing \subseteq Requests /\ audit \subseteq Requests /\ unaudited \subseteq Requests
    /\ backend \in Processes \cup {None}
    /\ overlapped \subseteq Requests

-----------------------------------------------------------------------------------
(* The browser. *)

\* A settings page calls the backend.  Regenerating takes the id the page shows;
\* its button stays enabled while an earlier regeneration is under way.
Send(r, b, kind) ==
    LET others == {q \in Requests : /\ Outstanding(q) /\ request[q].kind = "regenerate"
                                    /\ request[q].browser = b}
    IN
    /\ request[r].pc = "unsent"
    /\ kind = "regenerate" => shown[b] # None
    /\ request' = [request EXCEPT ![r] =
           [pc |-> "sent", kind |-> kind, browser |-> b, key |-> getMerchantApiKey(b),
            id |-> IF kind = "regenerate" THEN shown[b] ELSE None,
            merchant |-> None, newKey |-> None]]
    /\ overlapped' = IF kind = "regenerate" /\ others # {}
                       THEN overlapped \cup others \cup {r} ELSE overlapped
    /\ UNCHANGED <<merchant, issued, stored, shown, auditing, audit, backend, unaudited>>

\* Mutant of Deliver: the page shows the new key and does not store it.
DeliverUnstored(r) ==
    LET q == request[r]
    IN  /\ q.pc \in {"answered", "refused"}
        /\ request' = [request EXCEPT ![r].pc = "closed"]
        /\ shown' = IF q.kind = "list"
                      THEN [shown EXCEPT ![q.browser] =
                                IF q.pc = "answered" THEN q.merchant ELSE None]
                      ELSE shown
        /\ UNCHANGED <<merchant, issued, stored, auditing, audit, backend, unaudited,
                       overlapped>>

\* The answer arrives: the page shows the listed key, or stores the new one.  A
\* list that failed leaves a page without a button.
Deliver(r) ==
    LET q == request[r]
    IN  /\ q.pc \in {"answered", "refused"}
        /\ request' = [request EXCEPT ![r].pc = "closed"]
        /\ shown' = IF q.kind = "list"
                      THEN [shown EXCEPT ![q.browser] =
                                IF q.pc = "answered" THEN q.merchant ELSE None]
                      ELSE shown
        /\ stored' = IF q.kind = "regenerate" /\ q.pc = "answered"
                       THEN [stored EXCEPT ![q.browser] = q.newKey]
                       ELSE stored
        /\ UNCHANGED <<merchant, issued, auditing, audit, backend, unaudited, overlapped>>

\* The request never arrives, or nobody is there for its answer.
Lose(r) ==
    /\ request[r].pc \in {"sent", "answered", "refused"}
    /\ request' = [request EXCEPT ![r].pc = "lost"]
    /\ UNCHANGED <<merchant, issued, stored, shown, auditing, audit, backend,
                   unaudited, overlapped>>

-----------------------------------------------------------------------------------
(* The backend. *)

\* ApiKeyGuard.canActivate with validateApiKey: the key's merchant, if active.
Guard(r) ==
    /\ backend # None /\ request[r].pc = "sent"
    /\ LET owners == {m \in Rows : /\ merchant[m].key = request[r].key
                                   /\ merchant[m].status = "ACTIVE"}
       IN  \/ \E m \in owners :
                 request' = [request EXCEPT ![r].pc = "handler", ![r].merchant = m]
           \/ /\ owners = {}
              /\ request' = [request EXCEPT ![r].pc = "refused"]
    /\ UNCHANGED <<merchant, issued, stored, shown, auditing, audit, backend,
                   unaudited, overlapped>>

\* AuditInterceptor: the entry of a request that is no GET is written after its
\* handler returned, and the answer does not wait for it.
Answered(r, newKey) ==
    /\ request' = [request EXCEPT ![r].pc = "answered", ![r].newKey = newKey]
    /\ auditing' = IF request[r].kind = "list" THEN auditing ELSE auditing \cup {r}
    /\ UNCHANGED <<stored, shown, audit, backend, unaudited>>

\* Mutant of Refused: the entry is written when the handler is through, however it ended.
RefusedAudited(r) ==
    /\ request' = [request EXCEPT ![r].pc = "refused"]
    /\ auditing' = auditing \cup {r}
    /\ UNCHANGED <<merchant, issued, stored, shown, audit, backend, unaudited, overlapped>>

\* The handler throws.
Refused(r) ==
    /\ request' = [request EXCEPT ![r].pc = "refused"]
    /\ UNCHANGED <<merchant, issued, stored, shown, auditing, audit, backend,
                   unaudited, overlapped>>

\* Guard and handler meet a backend without its database: the answer is a 500.
ServeNothing(r) ==
    /\ backend # None /\ request[r].pc \in {"sent", "handler"}
    /\ Refused(r)

InHandler(r, kind) ==
    backend # None /\ request[r].pc = "handler" /\ request[r].kind = kind

\* getMerchantApiKeys.
List(r) ==
    /\ InHandler(r, "list")
    /\ Answered(r, None)
    /\ UNCHANGED <<merchant, issued, overlapped>>

\* regenerateMerchantApiKey: whatever key the row holds by now is replaced.
Regenerate(r) ==
    LET m == request[r].merchant
    IN  /\ InHandler(r, "regenerate")
        /\ \/ request[r].id # m /\ Refused(r)
           \/ /\ request[r].id = m
              /\ \E k \in NewKeys \ issued :
                     /\ merchant' = [merchant EXCEPT ![m].key = k]
                     /\ issued' = issued \cup {k}
                     /\ Answered(r, k)
              /\ UNCHANGED overlapped

\* One column of the merchant's row is written; blank input is refused.
Change(r, kind, field) ==
    /\ InHandler(r, kind)
    /\ \/ Refused(r)
       \/ /\ merchant' = [merchant EXCEPT ![request[r].merchant][field] = "own"]
          /\ Answered(r, None)
          /\ UNCHANGED <<issued, overlapped>>

updateMerchantProfile(r) == Change(r, "rename", "name")

updateWebhookUrl(r) == Change(r, "url", "url")

\* testWebhook: without a URL, or a connection to it, it throws; the merchant's server
\* may never answer, and nothing times out.
Test(r) ==
    /\ InHandler(r, "test")
    /\ \/ Refused(r)
       \/ /\ merchant[request[r].merchant].url # "none"
          /\ Answered(r, None)
          /\ UNCHANGED <<merchant, issued, overlapped>>

Handle(r) ==
    \/ List(r) \/ Regenerate(r)
    \/ updateMerchantProfile(r) \/ updateWebhookUrl(r) \/ Test(r)

\* AuditService.logAction has inserted its row.
LogAction(r) ==
    /\ backend # None /\ r \in auditing
    /\ auditing' = auditing \ {r} /\ audit' = audit \cup {r}
    /\ UNCHANGED <<merchant, issued, stored, shown, request, backend, unaudited, overlapped>>

\* The backend is killed, or an audit insert fails: its rejection is nobody's and
\* ends the process.  Requests in it get no answer.
Stop ==
    /\ backend' = None
    /\ request' = [r \in Requests |->
           IF request[r].pc = "handler" THEN [request[r] EXCEPT !.pc = "lost"]
                                        ELSE request[r]]
    /\ unaudited' = unaudited \cup auditing
    /\ auditing' = {}
    /\ UNCHANGED <<merchant, issued, stored, shown, audit, overlapped>>

\* A process binds the port.
Boot(p) ==
    /\ backend = None
    /\ backend' = p
    /\ UNCHANGED <<merchant, issued, stored, shown, request, auditing, audit,
                   unaudited, overlapped>>

\* seed-admin.js: an upsert by the demo key.  The merchant that still has it is
\* reset; when its key was regenerated, a second merchant appears.
SeedMerchant ==
    /\ LET demo == {m \in Rows : merchant[m].key = DemoKey}
       IN  \/ \E m \in demo : merchant' = [merchant EXCEPT ![m] = Seeded(DemoKey)]
           \/ /\ demo = {}
              /\ \E m \in Merchants \ Rows :
                     merchant' = [merchant EXCEPT ![m] = Seeded(DemoKey)]
    /\ UNCHANGED <<issued, stored, shown, request, auditing, audit, backend,
                   unaudited, overlapped>>

\* An operator's statement on the database; no code here suspends a merchant.
Suspend(m) ==
    /\ m \in Rows
    /\ merchant' = [merchant EXCEPT ![m].status = "SUSPENDED"]
    /\ UNCHANGED <<issued, stored, shown, request, auditing, audit, backend,
                   unaudited, overlapped>>

-----------------------------------------------------------------------------------
\* Nothing was sent yet; the table is empty or holds the seeded merchant, whose page
\* a browser may have open.
SettingsInit ==
    /\ \E rows \in SUBSET Merchants :
           /\ \A m, n \in rows : m = n
           /\ merchant = [m \in Merchants |-> IF m \in rows THEN Seeded(DemoKey) ELSE None]
    /\ issued = {}
    /\ stored = [b \in Browsers |-> None]
    /\ shown \in [Browsers -> Rows \cup {None}]
    /\ request = [r \in Requests |-> Unsent]
    /\ auditing = {} /\ audit = {} /\ unaudited = {}
    /\ backend = None
    /\ overlapped = {}

\* The browsers and the network.
Browse ==
    \E r \in Requests :
        (\E b \in Browsers, kind \in Kinds : Send(r, b, kind)) \/ Deliver(r) \/ Lose(r)

\* What reads or writes the database.
Serve ==
    \/ \E r \in Requests : Guard(r) \/ Handle(r) \/ LogAction(r)
    \/ \E m \in Merchants : Suspend(m)

\* The launcher says when the database is there, and when Stop, Boot and SeedMerchant
\* happen.
SettingsNext ==
    \/ Browse \/ Serve \/ (\E r \in Requests : ServeNothing(r))
    \/ Stop \/ (\E p \in Processes : Boot(p)) \/ SeedMerchant

SettingsSpec == SettingsInit /\ [][SettingsNext]_settings

-----------------------------------------------------------------------------------
(* Safety. *)

\* A key that regeneration gave a merchant is the stored key of the browser that asked
\* for it as soon as the answer has arrived, unless that browser had two regenerations
\* under way at once: another browser, a lost answer of another request, a suspension,
\* the seed or a restart never locks a merchant out of the browser with its newest key.
LockoutExplained ==
    \A m \in Rows :
        merchant[m].key # DemoKey =>
            \E r \in Requests :
                /\ request[r].kind = "regenerate" /\ request[r].newKey = merchant[m].key
                /\ \/ request[r].pc \in {"answered", "lost"}
                   \/ stored[request[r].browser] = merchant[m].key
                   \/ r \in overlapped

\* What was changed on a merchant's behalf is in the audit log or being written to
\* it, unless the backend stopped in between; what was refused never is.
AuditAccounted ==
    \A r \in Requests :
        /\ request[r].kind # "list" /\ (request[r].pc = "answered" \/ request[r].newKey # None)
               => r \in audit \cup auditing \cup unaudited
        /\ r \in audit => request[r].merchant # None /\ request[r].pc \in {"answered", "closed", "lost"}

-----------------------------------------------------------------------------------
(* The inductive invariant behind the two properties above. *)

\* A row holds the seed's key or a drawn one, and no two rows the same; a request that
\* draws a key does so in its answer.
KeysApart ==
    /\ \A m \in Rows : merchant[m].key \in issued \cup {DemoKey}
    /\ \A m, n \in Rows : merchant[m].key = merchant[n].key => m = n
    /\ \A r \in Requests :
           /\ request[r].newKey # None =>
                  /\ request[r].newKey \in issued /\ request[r].kind = "regenerate"
                  /\ request[r].pc \in {"answered", "closed", "lost"}
           /\ request[r].pc = "answered" /\ request[r].kind = "regenerate"
                  => request[r].newKey # None

\* A request that was sent has a browser, one past the guard a merchant; only what
\* was answered is audited.
RequestsSound ==
    \A r \in Requests :
        /\ request[r].pc # "unsent" => request[r].browser # None
        /\ request[r].pc \in {"handler", "answered"} => request[r].merchant \in Rows
        /\ r \in auditing \cup audit =>
               request[r].merchant # None /\ request[r].pc \in {"answered", "closed", "lost"}

Regenerating(r, b) ==
    Outstanding(r) /\ request[r].kind = "regenerate" /\ request[r].browser = b

OverlapsSeen ==
    \A r, q \in Requests : \A b \in Browsers :
        r # q /\ Regenerating(r, b) /\ Regenerating(q, b) => r \in overlapped

\* r drew the key that m has.  A browser that has stored it has no regeneration under
\* way but those sent with that key, of which none is through yet.
Traces(r, m) ==
    LET k == merchant[m].key
    IN  /\ request[r].kind = "regenerate" /\ request[r].newKey = k
        /\ \/ request[r].pc \in {"answered", "lost"}
           \/ r \in overlapped
           \/ /\ stored[request[r].browser] = k
              /\ \A q \in Requests :
                     Regenerating(q, request[r].browser) =>
                         /\ request[q].key = k /\ request[q].pc # "answered"
                         /\ request[q].pc = "handler" => request[q].merchant = m

KeysTraced ==
    \A m \in Rows : merchant[m].key # DemoKey => \E r \in Requests : Traces(r, m)

SettingsIInv ==
    TypeOK /\ KeysApart /\ RequestsSound /\ OverlapsSeen /\ KeysTraced /\ AuditAccounted

===================================================================================
