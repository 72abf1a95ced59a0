---------------------------- MODULE LocalLauncherProofs -----------------------------
(***************************************************************************)
(* Proofs about MerchantSettings, for every set of merchants, keys, browsers and        *)
(* requests: every change is audited unless the backend stopped, and a browser keeps     *)
(* the newest key of its merchant unless it asked for two at once.                     *)
(*                                                                         *)
(* Proofs about LocalLauncher, for any number of starts and stops at the same time:     *)
(* the launcher treats the backend as MerchantSettings allows, so that what is proved    *)
(* there holds here, and a backend that serves has what it needs.                      *)
(***************************************************************************)
EXTENDS LocalLauncher, TLAPS

-----------------------------------------------------------------------------------
(* The settings and keys: SettingsIInv is inductive. *)

LEMMA RowsTyped ==
    ASSUME TypeOK
    PROVE  /\ Rows \subseteq Merchants
           /\ \A m \in Merchants : m \in Rows <=> merchant[m] # None
           /\ \A m \in Rows : merchant[m] \in Row
BY DEF TypeOK, Rows

LEMMA SettingsInitIInv == SettingsInit => SettingsIInv
<1> SUFFICES ASSUME SettingsInit PROVE SettingsIInv
  OBVIOUS
<1>1. PICK rows \in SUBSET Merchants :
          /\ \A m, n \in rows : m = n
          /\ merchant = [m \in Merchants |-> IF m \in rows THEN Seeded(DemoKey) ELSE None]
  BY DEF SettingsInit
<1>2. Seeded(DemoKey) \in Row /\ Seeded(DemoKey).key = DemoKey
  BY DEF Seeded, Row, Keys
<1>3. Rows \subseteq rows /\ \A m \in Rows : merchant[m].key = DemoKey
  BY <1>1, <1>2 DEF Rows
<1>4. Unsent \in Request /\ Unsent.pc = "unsent" /\ Unsent.newKey = None
  BY DEF Unsent, Request, Kinds, Keys
<1>5. /\ issued = {} /\ stored = [b \in Browsers |-> None]
      /\ shown \in [Browsers -> Rows \cup {None}]
      /\ request = [r \in Requests |-> Unsent]
      /\ auditing = {} /\ audit = {} /\ unaudited = {} /\ backend = None /\ overlapped = {}
  BY DEF SettingsInit
<1>6. TypeOK
  <2>1. merchant \in [Merchants -> Row \cup {None}]
    BY <1>1, <1>2
  <2>2. shown \in [Browsers -> Merchants \cup {None}]
    BY <1>5 DEF Rows
  <2> QED
    BY <1>4, <1>5, <2>1, <2>2 DEF TypeOK
<1>7. \A r \in Requests : request[r] = Unsent
  BY <1>5
<1>8. KeysApart
  BY <1>1, <1>3, <1>4, <1>7 DEF KeysApart
<1>9. RequestsSound
  BY <1>4, <1>5, <1>7 DEF RequestsSound
<1>10. OverlapsSeen
  BY <1>4, <1>7 DEF OverlapsSeen, Regenerating, Outstanding
<1>11. KeysTraced
  BY <1>3 DEF KeysTraced
<1>12. AuditAccounted
  BY <1>4, <1>5, <1>7 DEF AuditAccounted
<1> QED
  BY <1>6, <1>8, <1>9, <1>10, <1>11, <1>12 DEF SettingsIInv

-----------------------------------------------------------------------------------
(* Steps of one request that leave the keys alone. *)

\* What a request may become when no key is drawn: it is lost, passes the guard, is
\* refused, or is answered.
Becomes(r, q) ==
    /\ q \in Request
    /\ q.kind = request[r].kind /\ q.browser = request[r].browser
    /\ q.key = request[r].key /\ q.newKey = request[r].newKey
    /\ \/ Outstanding(r) /\ q.pc = "lost" /\ q.merchant = request[r].merchant
       \/ /\ request[r].pc = "sent" /\ q.pc = "handler"
          /\ q.merchant \in Rows /\ merchant[q.merchant].key = q.key
       \/ /\ request[r].pc \in {"sent", "handler"} /\ q.pc = "refused"
          /\ q.merchant = request[r].merchant
       \/ /\ request[r].pc = "handler" /\ q.pc = "answered" /\ q.kind # "regenerate"
          /\ q.merchant = request[r].merchant
    /\ request[r].pc = "answered" => q.pc = "lost"

LEMMA RequestAt ==
    ASSUME TypeOK, NEW r \in Requests, NEW q \in Request, request' = [request EXCEPT ![r] = q]
    PROVE  /\ request' \in [Requests -> Request]
           /\ \A p \in Requests : request'[p] = IF p = r THEN q ELSE request[p]
BY DEF TypeOK

\* The keys of the rows, and which rows there are, stay.
KeysStay ==
    /\ merchant' \in [Merchants -> Row \cup {None}]
    /\ \A m \in Merchants : /\ merchant'[m] # None <=> merchant[m] # None
                            /\ merchant[m] # None => merchant'[m].key = merchant[m].key

LEMMA RequestStep ==
    ASSUME SettingsIInv, NEW r \in Requests, NEW q, Becomes(r, q),
           request' = [request EXCEPT ![r] = q], KeysStay,
           UNCHANGED <<issued, stored, audit, unaudited, overlapped>>,
           auditing' = IF q.pc = "answered" /\ q.kind # "list" THEN auditing \cup {r}
                                                                ELSE auditing
    PROVE  KeysApart' /\ RequestsSound' /\ OverlapsSeen' /\ KeysTraced' /\ AuditAccounted'
<1>1. /\ TypeOK /\ KeysApart /\ RequestsSound /\ OverlapsSeen /\ KeysTraced /\ AuditAccounted
      /\ q \in Request /\ q.kind = request[r].kind /\ q.browser = request[r].browser
      /\ q.key = request[r].key /\ q.newKey = request[r].newKey
  BY DEF SettingsIInv, Becomes
<1>2. \A p \in Requests : request'[p] = IF p = r THEN q ELSE request[p]
  BY <1>1, RequestAt
<1>3. /\ Rows' = Rows /\ Rows \subseteq Merchants
      /\ \A m \in Rows : merchant'[m].key = merchant[m].key
  BY DEF KeysStay, Rows
<1>4. /\ request[r].pc \in {"sent", "handler", "answered", "refused"}
      /\ q.pc \in {"lost", "handler", "refused", "answered"}
  BY DEF Becomes, Outstanding
<1>5. KeysApart'
  <2>1. /\ q.newKey # None => q.pc = "lost"
        /\ q.pc = "answered" => q.kind # "regenerate"
    BY <1>1, <1>4 DEF KeysApart, Becomes
  <2> QED
    BY <1>1, <1>2, <1>3, <2>1 DEF KeysApart
<1>6. RequestsSound'
  <2>1. /\ q.browser # None
        /\ q.pc \in {"handler", "answered"} => q.merchant \in Rows
        /\ r \in auditing' \cup audit => q.merchant # None /\ q.pc \in {"answered", "lost"}
    BY <1>1, <1>4, RowsTyped, NoneAssumption DEF RequestsSound, Becomes
  <2> QED
    BY <1>1, <1>2, <1>3, <2>1 DEF RequestsSound
<1>7. \A p \in Requests : \A b \in Browsers : Regenerating(p, b)' => Regenerating(p, b)
  BY <1>1, <1>2, <1>4 DEF Regenerating, Outstanding
<1>8. OverlapsSeen'
  BY <1>1, <1>7 DEF OverlapsSeen
<1>9. KeysTraced'
  <2> SUFFICES ASSUME NEW m \in Rows, merchant[m].key # DemoKey
               PROVE  \E p \in Requests : Traces(p, m)'
    BY <1>3 DEF KeysTraced
  <2>1. PICK w \in Requests : Traces(w, m)
    BY <1>1 DEF KeysTraced
  <2>2. merchant[m].key \in Keys /\ merchant[m].key # None
    BY <1>1, RowsTyped, KeysAssumption DEF Row, Keys
  <2>3. /\ request'[w].kind = "regenerate" /\ request'[w].newKey = merchant'[m].key
        /\ request'[w].browser = request[w].browser
        /\ request[w].pc \in {"answered", "lost"} => request'[w].pc \in {"answered", "lost"}
    BY <1>1, <1>2, <1>3, <2>1 DEF Traces, Becomes
  <2>4. CASE request[w].pc \in {"answered", "lost"} \/ w \in overlapped
    BY <2>3, <2>4 DEF Traces
  <2>5. CASE /\ stored[request[w].browser] = merchant[m].key
             /\ \A p \in Requests :
                    Regenerating(p, request[w].browser) =>
                        /\ request[p].key = merchant[m].key /\ request[p].pc # "answered"
                        /\ request[p].pc = "handler" => request[p].merchant = m
    <3>1. request[w].browser \in Browsers
      BY <1>1, <2>1, <2>2 DEF TypeOK, Request, RequestsSound, KeysApart, Traces
    <3>2. ASSUME NEW p \in Requests, Regenerating(p, request[w].browser)'
          PROVE  /\ request'[p].key = merchant[m].key /\ request'[p].pc # "answered"
                 /\ request'[p].pc = "handler" => request'[p].merchant = m
      <4>1. /\ request[p].key = merchant[m].key /\ request[p].pc # "answered"
            /\ request[p].pc = "handler" => request[p].merchant = m
            /\ request'[p].kind = "regenerate"
        BY <1>7, <2>3, <2>5, <3>1, <3>2 DEF Regenerating
      <4>2. CASE p # r
        BY <1>2, <4>1, <4>2
      <4>3. CASE p = r
        <5>1. /\ q.pc # "answered" /\ q.key = merchant[m].key
          BY <1>1, <1>2, <4>1, <4>3 DEF Becomes
        <5>2. q.pc = "handler" => q.merchant = m
          <6>1. CASE request[r].pc = "sent" /\ q.merchant \in Rows /\ merchant[q.merchant].key = q.key
            BY <1>1, <5>1, <6>1 DEF KeysApart
          <6>2. CASE q.pc # "handler"
            BY <6>2
          <6> QED
            BY <6>1, <6>2 DEF Becomes
        <5> QED
          BY <1>2, <4>3, <5>1, <5>2
      <4> QED
        BY <4>2, <4>3
    <3> QED
      BY <1>3, <2>3, <2>5, <3>2 DEF Traces
  <2> QED
    BY <2>1, <2>4, <2>5 DEF Traces
<1>10. AuditAccounted'
  <2>1. /\ q.kind # "list" /\ (q.pc = "answered" \/ q.newKey # None)
             => r \in audit \cup auditing' \cup unaudited
        /\ r \in audit => q.merchant # None /\ q.pc \in {"answered", "closed", "lost"}
    BY <1>1, <1>4, <1>6, <1>2 DEF AuditAccounted, KeysApart, RequestsSound
  <2>2. auditing \subseteq auditing'
    OBVIOUS
  <2> QED
    BY <1>1, <1>2, <2>1, <2>2 DEF AuditAccounted
<1> QED
  BY <1>5, <1>6, <1>8, <1>9, <1>10

\* The parts of the type that such a step does not touch, and the one it does.
LEMMA RequestTyped ==
    ASSUME SettingsIInv, NEW r \in Requests, NEW q \in Request,
           request' = [request EXCEPT ![r] = q],
           merchant' \in [Merchants -> Row \cup {None}],
           auditing' \subseteq Requests,
           UNCHANGED <<issued, stored, shown, audit, backend, unaudited, overlapped>>
    PROVE  TypeOK'
BY RequestAt DEF SettingsIInv, TypeOK

LEMMA LoseStep ==
    ASSUME SettingsIInv, NEW r \in Requests, Lose(r)
    PROVE  SettingsIInv'
<1> DEFINE q == [request[r] EXCEPT !.pc = "lost"]
<1>1. /\ TypeOK /\ request[r] \in Request /\ request[r].pc \in {"sent", "answered", "refused"}
      /\ request' = [request EXCEPT ![r] = q]
      /\ UNCHANGED <<merchant, issued, stored, shown, auditing, audit, backend,
                     unaudited, overlapped>>
  BY DEF SettingsIInv, TypeOK, Lose
<1>2. /\ q \in Request /\ q.pc = "lost" /\ q.kind = request[r].kind
      /\ q.browser = request[r].browser /\ q.key = request[r].key
      /\ q.newKey = request[r].newKey /\ q.merchant = request[r].merchant
  BY <1>1 DEF Request
<1> HIDE DEF q
<1>3. Becomes(r, q)
  BY <1>1, <1>2 DEF Becomes, Outstanding
<1>4. KeysStay /\ auditing' \subseteq Requests
  BY <1>1 DEF KeysStay, TypeOK
<1>5. TypeOK'
  BY <1>1, <1>2, <1>4, RequestTyped DEF KeysStay
<1> QED
  BY <1>1, <1>2, <1>3, <1>4, <1>5, RequestStep DEF SettingsIInv

LEMMA RefusedStep ==
    ASSUME SettingsIInv, NEW r \in Requests, request[r].pc \in {"sent", "handler"}, Refused(r)
    PROVE  SettingsIInv'
<1> DEFINE q == [request[r] EXCEPT !.pc = "refused"]
<1>1. /\ TypeOK /\ request[r] \in Request
      /\ request' = [request EXCEPT ![r] = q]
      /\ UNCHANGED <<merchant, issued, stored, shown, auditing, audit, backend,
                     unaudited, overlapped>>
  BY DEF SettingsIInv, TypeOK, Refused
<1>2. /\ q \in Request /\ q.pc = "refused" /\ q.kind = request[r].kind
      /\ q.browser = request[r].browser /\ q.key = request[r].key
      /\ q.newKey = request[r].newKey /\ q.merchant = request[r].merchant
  BY <1>1 DEF Request
<1> HIDE DEF q
<1>3. Becomes(r, q)
  BY <1>1, <1>2 DEF Becomes
<1>4. KeysStay /\ auditing' \subseteq Requests
  BY <1>1 DEF KeysStay, TypeOK
<1>5. TypeOK'
  BY <1>1, <1>2, <1>4, RequestTyped DEF KeysStay
<1> QED
  BY <1>1, <1>2, <1>3, <1>4, <1>5, RequestStep DEF SettingsIInv

LEMMA GuardStep ==
    ASSUME SettingsIInv, NEW r \in Requests, Guard(r)
    PROVE  SettingsIInv'
<1> DEFINE owners == {m \in Rows : /\ merchant[m].key = request[r].key
                                   /\ merchant[m].status = "ACTIVE"}
<1>1. /\ TypeOK /\ request[r] \in Request /\ request[r].pc = "sent"
      /\ UNCHANGED <<merchant, issued, stored, shown, auditing, audit, backend,
                     unaudited, overlapped>>
  BY DEF SettingsIInv, TypeOK, Guard
<1>2. CASE request' = [request EXCEPT ![r].pc = "refused"]
  BY <1>1, <1>2, RefusedStep DEF Refused
<1>3. ASSUME NEW m \in owners,
             request' = [request EXCEPT ![r].pc = "handler", ![r].merchant = m]
      PROVE  SettingsIInv'
  <2> DEFINE q == [request[r] EXCEPT !.pc = "handler", !.merchant = m]
  <2>1. m \in Merchants /\ m \in Rows
    BY <1>1, RowsTyped
  <2>2. /\ q \in Request /\ q.pc = "handler" /\ q.kind = request[r].kind
        /\ q.browser = request[r].browser /\ q.key = request[r].key
        /\ q.newKey = request[r].newKey /\ q.merchant = m
    BY <1>1, <2>1 DEF Request
  <2>3. request' = [request EXCEPT ![r] = q]
    BY <1>1, <1>3
  <2> HIDE DEF q
  <2>4. Becomes(r, q)
    BY <1>1, <2>1, <2>2 DEF Becomes
  <2>5. KeysStay /\ auditing' \subseteq Requests
    BY <1>1 DEF KeysStay, TypeOK
  <2>6. TypeOK'
    BY <1>1, <2>2, <2>3, <2>5, RequestTyped DEF KeysStay
  <2> QED
    BY <1>1, <2>2, <2>3, <2>4, <2>5, <2>6, RequestStep DEF SettingsIInv
<1> QED
  BY <1>2, <1>3 DEF Guard

\* A handler that draws no key.
LEMMA AnsweredStep ==
    ASSUME SettingsIInv, NEW r \in Requests, request[r].pc = "handler",
           request[r].kind # "regenerate", Answered(r, None), KeysStay,
           UNCHANGED <<issued, overlapped>>
    PROVE  SettingsIInv'
<1> DEFINE q == [request[r] EXCEPT !.pc = "answered", !.newKey = None]
<1>1. /\ TypeOK /\ request[r] \in Request /\ request[r].newKey = None
      /\ auditing' = IF request[r].kind = "list" THEN auditing ELSE auditing \cup {r}
      /\ UNCHANGED <<issued, stored, shown, audit, backend, unaudited, overlapped>>
  BY DEF SettingsIInv, TypeOK, Answered, KeysApart
<1>2. request' = [request EXCEPT ![r] = q]
  BY <1>1 DEF Answered
<1>3. /\ q \in Request /\ q.pc = "answered" /\ q.kind = request[r].kind
      /\ q.browser = request[r].browser /\ q.key = request[r].key
      /\ q.newKey = request[r].newKey /\ q.merchant = request[r].merchant
  BY <1>1 DEF Request
<1> HIDE DEF q
<1>4. Becomes(r, q)
  BY <1>1, <1>3 DEF Becomes
<1>5. /\ auditing' \subseteq Requests
      /\ auditing' = IF q.pc = "answered" /\ q.kind # "list" THEN auditing \cup {r}
                                                             ELSE auditing
  BY <1>1, <1>3 DEF TypeOK
<1>6. TypeOK'
  BY <1>1, <1>2, <1>3, <1>5, RequestTyped DEF KeysStay
<1> QED
  BY <1>1, <1>2, <1>3, <1>4, <1>5, <1>6, RequestStep DEF SettingsIInv

LEMMA ChangeStep ==
    ASSUME SettingsIInv, NEW r \in Requests,
           NEW kind \in {"rename", "url"}, NEW field \in {"name", "url"}, Change(r, kind, field)
    PROVE  SettingsIInv'
<1> DEFINE m == request[r].merchant
<1>1. request[r].pc = "handler" /\ request[r].kind = kind
  BY DEF Change, InHandler
<1>2. CASE Refused(r)
  BY <1>1, <1>2, RefusedStep
<1>3. CASE /\ merchant' = [merchant EXCEPT ![m][field] = "own"]
           /\ Answered(r, None) /\ UNCHANGED <<issued, overlapped>>
  <2> DEFINE row == [merchant[m] EXCEPT ![field] = "own"]
  <2>1. m \in Merchants /\ m # None /\ merchant[m] \in Row /\ merchant[m] # None /\ TypeOK
    BY <1>1, RowsTyped, NoneAssumption DEF SettingsIInv, RequestsSound
  <2>2. row \in Row /\ row.key = merchant[m].key
    BY <2>1 DEF Row
  <2>3. row # None
    BY <2>2, RowAssumption
  <2>4. merchant' = [merchant EXCEPT ![m] = row]
    BY <1>3
  <2> HIDE DEF row
  <2>5. KeysStay
    BY <2>1, <2>2, <2>3, <2>4 DEF KeysStay, TypeOK
  <2> QED
    BY <1>1, <1>3, <2>5, AnsweredStep
<1> QED
  BY <1>2, <1>3 DEF Change

LEMMA ListStep ==
    ASSUME SettingsIInv, NEW r \in Requests, List(r) \/ Test(r)
    PROVE  SettingsIInv'
<1>1. request[r].pc = "handler" /\ request[r].kind # "regenerate"
  BY DEF List, Test, InHandler
<1>2. CASE Refused(r)
  BY <1>1, <1>2, RefusedStep
<1>3. CASE Answered(r, None) /\ UNCHANGED <<merchant, issued, overlapped>>
  <2>1. KeysStay
    BY <1>3 DEF KeysStay, SettingsIInv, TypeOK
  <2> QED
    BY <1>1, <1>3, <2>1, AnsweredStep
<1> QED
  BY <1>2, <1>3 DEF List, Test

-----------------------------------------------------------------------------------
(* Requests that are sent, draw a key, or come back. *)

LEMMA SendStep ==
    ASSUME SettingsIInv, NEW r \in Requests, NEW b \in Browsers, NEW kind \in Kinds,
           Send(r, b, kind)
    PROVE  SettingsIInv'
<1> DEFINE others == {p \in Requests : /\ Outstanding(p) /\ request[p].kind = "regenerate"
                                       /\ request[p].browser = b}
           q == [pc |-> "sent", kind |-> kind, browser |-> b, key |-> getMerchantApiKey(b),
                 id |-> IF kind = "regenerate" THEN shown[b] ELSE None,
                 merchant |-> None, newKey |-> None]
<1>1. /\ TypeOK /\ KeysApart /\ RequestsSound /\ OverlapsSeen /\ KeysTraced /\ AuditAccounted
      /\ request[r].pc = "unsent" /\ request' = [request EXCEPT ![r] = q]
      /\ overlapped' = IF kind = "regenerate" /\ others # {}
                         THEN overlapped \cup others \cup {r} ELSE overlapped
      /\ UNCHANGED <<merchant, issued, stored, shown, auditing, audit, backend, unaudited>>
  BY DEF SettingsIInv, Send
<1>2. getMerchantApiKey(b) \in Keys /\ (stored[b] # None => getMerchantApiKey(b) = stored[b])
  BY <1>1 DEF TypeOK, getMerchantApiKey, Keys
<1>3. /\ q \in Request /\ q.pc = "sent" /\ q.kind = kind /\ q.browser = b
      /\ q.key = getMerchantApiKey(b) /\ q.merchant = None /\ q.newKey = None
  BY <1>1, <1>2 DEF TypeOK, Request
<1> HIDE DEF q
<1>4. /\ request' \in [Requests -> Request]
      /\ \A p \in Requests : request'[p] = IF p = r THEN q ELSE request[p]
  BY <1>1, <1>3, RequestAt
<1>5. request[r].newKey = None /\ r \notin auditing \cup audit
  BY <1>1 DEF KeysApart, RequestsSound
<1>6. overlapped \subseteq overlapped' /\ overlapped' \subseteq Requests
  BY <1>1 DEF TypeOK
<1>7. TypeOK'
  BY <1>1, <1>4, <1>6 DEF TypeOK
<1>8. KeysApart'
  BY <1>1, <1>3, <1>4 DEF KeysApart, Rows
<1>9. RequestsSound'
  BY <1>1, <1>3, <1>4, <1>5, NoneAssumption DEF RequestsSound, Rows
<1>10. OverlapsSeen'
  <2> SUFFICES ASSUME NEW p \in Requests, NEW o \in Requests, NEW c \in Browsers, p # o,
                      Regenerating(p, c)', Regenerating(o, c)'
               PROVE  p \in overlapped'
    BY DEF OverlapsSeen
  <2>1. \A v \in Requests : v # r /\ Regenerating(v, c)' => Regenerating(v, c)
    BY <1>4 DEF Regenerating, Outstanding
  <2>2. Regenerating(r, c)' => c = b /\ kind = "regenerate"
    BY <1>3, <1>4 DEF Regenerating
  <2>3. \A v \in Requests : Regenerating(v, b) => v \in others
    BY DEF Regenerating
  <2>4. CASE p # r /\ o # r
    BY <1>1, <1>6, <2>1, <2>4 DEF OverlapsSeen
  <2>5. CASE p = r
    BY <1>1, <2>1, <2>2, <2>3, <2>5
  <2>6. CASE o = r
    BY <1>1, <2>1, <2>2, <2>3, <2>6
  <2> QED
    BY <2>4, <2>5, <2>6
<1>11. KeysTraced'
  <2> SUFFICES ASSUME NEW m \in Rows, merchant[m].key # DemoKey
               PROVE  \E p \in Requests : Traces(p, m)'
    BY <1>1 DEF KeysTraced, Rows
  <2>1. PICK w \in Requests : Traces(w, m)
    BY <1>1 DEF KeysTraced
  <2>2. merchant[m].key # None
    BY <1>1, RowsTyped, KeysAssumption DEF Row, Keys
  <2>3. w # r /\ request'[w] = request[w]
    BY <1>4, <1>5, <2>1, <2>2 DEF Traces
  <2>4. ASSUME stored[request[w].browser] = merchant[m].key,
               NEW p \in Requests, Regenerating(p, request[w].browser)', p = r
        PROVE  request'[p].key = merchant[m].key /\ request'[p].pc = "sent"
    BY <1>2, <1>3, <1>4, <2>2, <2>3, <2>4 DEF Regenerating
  <2>5. \A p \in Requests : p # r /\ Regenerating(p, request[w].browser)'
                               => Regenerating(p, request[w].browser) /\ request'[p] = request[p]
    BY <1>4, <2>3 DEF Regenerating, Outstanding
  <2> QED
    BY <1>1, <1>6, <2>1, <2>3, <2>4, <2>5 DEF Traces
<1>12. AuditAccounted'
  BY <1>1, <1>3, <1>4, <1>5 DEF AuditAccounted
<1> QED
  BY <1>7, <1>8, <1>9, <1>10, <1>11, <1>12 DEF SettingsIInv

LEMMA DeliverStep ==
    ASSUME SettingsIInv, NEW r \in Requests, Deliver(r)
    PROVE  SettingsIInv'
<1> DEFINE q == [request[r] EXCEPT !.pc = "closed"]
           b == request[r].browser
<1>1. /\ TypeOK /\ KeysApart /\ RequestsSound /\ OverlapsSeen /\ KeysTraced /\ AuditAccounted
      /\ request[r] \in Request /\ request[r].pc \in {"answered", "refused"}
      /\ request' = [request EXCEPT ![r] = q]
      /\ UNCHANGED <<merchant, issued, auditing, audit, backend, unaudited, overlapped>>
  BY DEF SettingsIInv, TypeOK, Deliver
<1>2. /\ q \in Request /\ q.pc = "closed" /\ q.kind = request[r].kind
      /\ q.browser = request[r].browser /\ q.key = request[r].key
      /\ q.newKey = request[r].newKey /\ q.merchant = request[r].merchant
  BY <1>1 DEF Request
<1> HIDE DEF q
<1>3. /\ request' \in [Requests -> Request]
      /\ \A p \in Requests : request'[p] = IF p = r THEN q ELSE request[p]
  BY <1>1, <1>2, RequestAt
<1>4. b \in Browsers
  BY <1>1 DEF RequestsSound, Request
<1>5. request[r].pc = "answered" /\ request[r].kind = "regenerate" => request[r].newKey \in NewKeys
  BY <1>1 DEF KeysApart, TypeOK
<1>6. /\ stored' \in [Browsers -> NewKeys \cup {None}]
      /\ IF request[r].kind = "regenerate" /\ request[r].pc = "answered"
           THEN /\ stored'[b] = request[r].newKey
                /\ \A c \in Browsers : c # b => stored'[c] = stored[c]
           ELSE stored' = stored
  BY <1>1, <1>4, <1>5 DEF Deliver, TypeOK
<1>7. shown' \in [Browsers -> Merchants \cup {None}]
  BY <1>1 DEF Deliver, TypeOK, Request
<1>8. TypeOK'
  BY <1>1, <1>3, <1>6, <1>7 DEF TypeOK
<1>9. KeysApart'
  BY <1>1, <1>2, <1>3 DEF KeysApart, Rows
<1>10. RequestsSound'
  BY <1>1, <1>2, <1>3 DEF RequestsSound, Rows
<1>11. \A p \in Requests : \A c \in Browsers :
          Regenerating(p, c)' => p # r /\ request'[p] = request[p] /\ Regenerating(p, c)
  BY <1>2, <1>3 DEF Regenerating, Outstanding
<1>12. OverlapsSeen'
  BY <1>1, <1>11 DEF OverlapsSeen
<1>13. KeysTraced'
  <2> SUFFICES ASSUME NEW m \in Rows, merchant[m].key # DemoKey
               PROVE  \E p \in Requests : Traces(p, m)'
    BY <1>1 DEF KeysTraced, Rows
  <2>1. PICK w \in Requests : Traces(w, m)
    BY <1>1 DEF KeysTraced
  <2>2. merchant[m].key # None
    BY <1>1, RowsTyped, KeysAssumption DEF Row, Keys
  <2>3. /\ request[w].newKey = merchant[m].key /\ request[w].kind = "regenerate"
        /\ request[w].pc \in {"answered", "closed", "lost"}
        /\ request[w].browser \in Browsers
    BY <1>1, <2>1, <2>2 DEF Traces, KeysApart, RequestsSound, TypeOK, Request
  <2>4. /\ request'[w].newKey = merchant[m].key /\ request'[w].kind = "regenerate"
        /\ request'[w].browser = request[w].browser
    BY <1>2, <1>3, <2>3
  <2>5. CASE w = r
    <3>1. request[r].pc = "answered" /\ stored'[b] = merchant[m].key
      BY <1>1, <1>6, <2>3, <2>5
    <3>2. CASE r \in overlapped
      BY <1>1, <2>4, <2>5, <3>2 DEF Traces
    <3>3. CASE r \notin overlapped
      <4>1. Regenerating(r, b)
        BY <2>3, <2>5, <3>1 DEF Regenerating, Outstanding
      <4>2. \A p \in Requests : ~Regenerating(p, b)'
        BY <1>1, <1>4, <1>11, <2>4, <2>5, <3>3, <4>1 DEF OverlapsSeen
      <4> QED
        BY <1>1, <2>4, <2>5, <3>1, <4>2 DEF Traces, Regenerating
    <3> QED
      BY <3>2, <3>3
  <2>6. CASE w # r
    <3>1. request'[w] = request[w]
      BY <1>3, <2>6
    <3>2. CASE request[w].pc \in {"answered", "lost"} \/ w \in overlapped
      BY <1>1, <2>3, <3>1, <3>2 DEF Traces
    <3>3. CASE /\ stored[request[w].browser] = merchant[m].key
               /\ \A p \in Requests :
                      Regenerating(p, request[w].browser) =>
                          /\ request[p].key = merchant[m].key /\ request[p].pc # "answered"
                          /\ request[p].pc = "handler" => request[p].merchant = m
      <4>1. stored'[request[w].browser] = stored[request[w].browser]
        <5>1. CASE request[r].kind = "regenerate" /\ request[r].pc = "answered"
          <6>1. Regenerating(r, b)
            BY <5>1 DEF Regenerating, Outstanding
          <6>2. b # request[w].browser
            BY <3>3, <5>1, <6>1
          <6> QED
            BY <1>6, <2>3, <5>1, <6>2
        <5>2. CASE ~(request[r].kind = "regenerate" /\ request[r].pc = "answered")
          BY <1>6, <5>2
        <5> QED
          BY <5>1, <5>2
      <4>2. \A p \in Requests :
              Regenerating(p, request[w].browser)' =>
                  /\ request'[p].key = merchant[m].key /\ request'[p].pc # "answered"
                  /\ request'[p].pc = "handler" => request'[p].merchant = m
        <5> SUFFICES ASSUME NEW p \in Requests, Regenerating(p, request[w].browser)'
                     PROVE  /\ request'[p].key = merchant[m].key /\ request'[p].pc # "answered"
                            /\ request'[p].pc = "handler" => request'[p].merchant = m
          OBVIOUS
        <5>1. Regenerating(p, request[w].browser) /\ request'[p] = request[p]
          BY <1>11, <2>3, <2>4 DEF Regenerating
        <5> QED
          BY <3>3, <5>1
      <4> QED
        BY <1>1, <2>4, <3>3, <4>1, <4>2 DEF Traces
    <3> QED
      BY <2>1, <3>2, <3>3 DEF Traces
  <2> QED
    BY <2>5, <2>6
<1>14. AuditAccounted'
  BY <1>1, <1>2, <1>3 DEF AuditAccounted, KeysApart
<1> QED
  BY <1>8, <1>9, <1>10, <1>12, <1>13, <1>14 DEF SettingsIInv

\* The row gets the drawn key; a request with another row's newest key is not at work on
\* this one.
LEMMA RegenerateStep ==
    ASSUME SettingsIInv, NEW r \in Requests, Regenerate(r)
    PROVE  SettingsIInv'
<1>0. PICK m : m = request[r].merchant
  OBVIOUS
<1>1. request[r].pc = "handler" /\ request[r].kind = "regenerate"
  BY DEF Regenerate, InHandler
<1>2. CASE Refused(r)
  BY <1>1, <1>2, RefusedStep
<1>3. ASSUME NEW k \in NewKeys \ issued, merchant' = [merchant EXCEPT ![m].key = k],
             issued' = issued \cup {k}, Answered(r, k), UNCHANGED overlapped
      PROVE  SettingsIInv'
  <2> DEFINE q == [request[r] EXCEPT !.pc = "answered", !.newKey = k]
             row == [merchant[m] EXCEPT !.key = k]
  <2>1. /\ TypeOK /\ KeysApart /\ RequestsSound /\ OverlapsSeen /\ KeysTraced /\ AuditAccounted
        /\ request[r] \in Request /\ request[r].newKey = None
        /\ m \in Merchants /\ m \in Rows /\ merchant[m] \in Row
        /\ auditing' = auditing \cup {r}
        /\ UNCHANGED <<stored, shown, audit, backend, unaudited, overlapped>>
    BY <1>0, <1>1, <1>3, RowsTyped DEF SettingsIInv, TypeOK, Answered, KeysApart, RequestsSound
  <2>2. request' = [request EXCEPT ![r] = q]
    BY <1>3, <2>1 DEF Answered
  <2>3. /\ q \in Request /\ q.pc = "answered" /\ q.kind = "regenerate"
        /\ q.browser = request[r].browser /\ q.key = request[r].key
        /\ q.newKey = k /\ q.merchant = m
    BY <1>0, <1>1, <2>1 DEF Request, Keys
  <2>4. row \in Row /\ row.key = k /\ row # None
    BY <2>1, RowAssumption DEF Row, Keys
  <2>5. merchant' = [merchant EXCEPT ![m] = row]
    BY <1>3
  <2> HIDE DEF q, row
  <2>6. /\ merchant' \in [Merchants -> Row \cup {None}]
        /\ \A n \in Merchants : merchant'[n] = IF n = m THEN row ELSE merchant[n]
    BY <2>1, <2>4, <2>5 DEF TypeOK
  <2>7. Rows' = Rows
    BY <2>1, <2>4, <2>6 DEF Rows
  <2>8. /\ request' \in [Requests -> Request]
        /\ \A p \in Requests : request'[p] = IF p = r THEN q ELSE request[p]
    BY <2>1, <2>2, <2>3, RequestAt
  <2>9. TypeOK'
    BY <1>3, <2>1, <2>6, <2>8 DEF TypeOK
  <2>10. k # DemoKey /\ k # None /\ \A n \in Rows : merchant[n].key # k
    BY <1>3, <2>1, KeysAssumption DEF KeysApart
  <2>11. KeysApart'
    <3>1. /\ \A n \in Rows : merchant'[n].key = IF n = m THEN k ELSE merchant[n].key
      BY <2>1, <2>4, <2>6, RowsTyped
    <3>2. /\ \A n \in Rows' : merchant'[n].key \in issued' \cup {DemoKey}
          /\ \A n, o \in Rows' : merchant'[n].key = merchant'[o].key => n = o
      BY <1>3, <2>1, <2>7, <2>10, <3>1 DEF KeysApart
    <3>3. \A p \in Requests :
             /\ request'[p].newKey # None =>
                    /\ request'[p].newKey \in issued' /\ request'[p].kind = "regenerate"
                    /\ request'[p].pc \in {"answered", "closed", "lost"}
             /\ request'[p].pc = "answered" /\ request'[p].kind = "regenerate"
                    => request'[p].newKey # None
      BY <1>3, <2>1, <2>3, <2>8, <2>10 DEF KeysApart
    <3> QED
      BY <3>2, <3>3 DEF KeysApart
  <2>12. RequestsSound'
    BY <1>1, <2>1, <2>3, <2>7, <2>8, NoneAssumption DEF RequestsSound
  <2>13. \A p \in Requests : \A c \in Browsers : Regenerating(p, c)' => Regenerating(p, c)
    BY <1>1, <2>3, <2>8 DEF Regenerating, Outstanding
  <2>14. OverlapsSeen'
    BY <2>1, <2>13 DEF OverlapsSeen
  <2>15. KeysTraced'
    <3>1. Traces(r, m)'
      BY <2>1, <2>3, <2>4, <2>6, <2>8 DEF Traces
    <3>2. ASSUME NEW n \in Rows, n # m, merchant[n].key # DemoKey
          PROVE  \E p \in Requests : Traces(p, n)'
      <4>1. PICK w \in Requests : Traces(w, n)
        BY <2>1, <3>2 DEF KeysTraced
      <4>2. merchant[n].key # None /\ merchant'[n] = merchant[n]
        BY <2>1, <2>6, <3>2, RowsTyped, KeysAssumption DEF Row, Keys
      <4>3. /\ w # r /\ request'[w] = request[w]
            /\ request[w].browser \in Browsers
        BY <2>1, <2>8, <4>1, <4>2 DEF Traces, KeysApart, RequestsSound, TypeOK, Request
      <4>4. CASE request[w].pc \in {"answered", "lost"} \/ w \in overlapped
        BY <2>1, <4>1, <4>2, <4>3, <4>4 DEF Traces
      <4>5. CASE /\ stored[request[w].browser] = merchant[n].key
                 /\ \A p \in Requests :
                        Regenerating(p, request[w].browser) =>
                            /\ request[p].key = merchant[n].key /\ request[p].pc # "answered"
                            /\ request[p].pc = "handler" => request[p].merchant = n
        <5>1. ~Regenerating(r, request[w].browser)
          BY <1>0, <1>1, <3>2, <4>5
        <5>2. \A p \in Requests :
                Regenerating(p, request[w].browser)' =>
                    /\ p # r /\ request'[p] = request[p]
                    /\ Regenerating(p, request[w].browser)
          BY <2>8, <2>13, <4>3, <5>1 DEF Regenerating
        <5> QED
          BY <2>1, <4>1, <4>2, <4>3, <4>5, <5>2 DEF Traces
      <4> QED
        BY <4>1, <4>4, <4>5 DEF Traces
    <3>3. ASSUME NEW n \in Rows, n # m
          PROVE  merchant'[n] = merchant[n]
      BY <2>1, <2>6, <3>3, RowsTyped
    <3> QED
      BY <2>7, <3>1, <3>2, <3>3 DEF KeysTraced
  <2>16. AuditAccounted'
    <3>1. r \notin audit
      BY <1>1, <2>1 DEF RequestsSound
    <3> QED
      BY <2>1, <2>3, <2>8, <3>1 DEF AuditAccounted
  <2> QED
    BY <2>9, <2>11, <2>12, <2>14, <2>15, <2>16 DEF SettingsIInv
<1> QED
  BY <1>0, <1>2, <1>3 DEF Regenerate

-----------------------------------------------------------------------------------
(* The audit log, the process, the seed. *)

LEMMA LogActionStep ==
    ASSUME SettingsIInv, NEW r \in Requests, LogAction(r)
    PROVE  SettingsIInv'
<1>1. /\ TypeOK /\ KeysApart /\ RequestsSound /\ OverlapsSeen /\ KeysTraced /\ AuditAccounted
      /\ r \in auditing /\ auditing' = auditing \ {r} /\ audit' = audit \cup {r}
      /\ UNCHANGED <<merchant, issued, stored, shown, request, backend, unaudited, overlapped>>
  BY DEF SettingsIInv, LogAction
<1>2. TypeOK'
  BY <1>1 DEF TypeOK
<1>3. KeysApart' /\ OverlapsSeen' /\ KeysTraced'
  BY <1>1 DEF KeysApart, OverlapsSeen, KeysTraced, Traces, Rows, Regenerating, Outstanding
<1>4. RequestsSound'
  BY <1>1 DEF RequestsSound, Rows
<1>5. AuditAccounted'
  BY <1>1 DEF AuditAccounted, RequestsSound
<1> QED
  BY <1>2, <1>3, <1>4, <1>5 DEF SettingsIInv

LEMMA StopStep ==
    ASSUME SettingsIInv, Stop
    PROVE  SettingsIInv'
<1>1. /\ TypeOK /\ KeysApart /\ RequestsSound /\ OverlapsSeen /\ KeysTraced /\ AuditAccounted
      /\ backend' = None /\ auditing' = {} /\ unaudited' = unaudited \cup auditing
      /\ UNCHANGED <<merchant, issued, stored, shown, audit, overlapped>>
  BY DEF SettingsIInv, Stop
<1>2. \A p \in Requests : request[p] \in Request
  BY <1>1 DEF TypeOK
<1>3. ASSUME NEW p \in Requests
      PROVE  /\ request'[p] \in Request
             /\ request'[p].pc = IF request[p].pc = "handler" THEN "lost" ELSE request[p].pc
             /\ request'[p].kind = request[p].kind /\ request'[p].browser = request[p].browser
             /\ request'[p].key = request[p].key /\ request'[p].newKey = request[p].newKey
             /\ request'[p].merchant = request[p].merchant
  BY <1>2 DEF Stop, Request
<1>4. request' \in [Requests -> Request]
  BY <1>3 DEF Stop
<1>5. TypeOK'
  BY <1>1, <1>4 DEF TypeOK
<1>6. KeysApart'
  BY <1>1, <1>3 DEF KeysApart, Rows
<1>7. RequestsSound'
  BY <1>1, <1>3 DEF RequestsSound, Rows
<1>8. \A p \in Requests : \A b \in Browsers :
         Regenerating(p, b)' => Regenerating(p, b) /\ request[p].pc # "handler"
  BY <1>3 DEF Regenerating, Outstanding
<1>9. OverlapsSeen'
  BY <1>1, <1>8 DEF OverlapsSeen
<1>10. KeysTraced'
  <2> SUFFICES ASSUME NEW m \in Rows, merchant[m].key # DemoKey
               PROVE  \E p \in Requests : Traces(p, m)'
    BY <1>1 DEF KeysTraced, Rows
  <2>1. PICK w \in Requests : Traces(w, m)
    BY <1>1 DEF KeysTraced
  <2>2. merchant[m].key # None
    BY <1>1, RowsTyped, KeysAssumption DEF Row, Keys
  <2>3. /\ request[w].pc # "handler" /\ request[w].browser \in Browsers
    BY <1>1, <1>2, <2>1, <2>2 DEF Traces, KeysApart, RequestsSound, Request
  <2>4. ASSUME NEW p \in Requests, Regenerating(p, request[w].browser)'
        PROVE  /\ Regenerating(p, request[w].browser)
               /\ request'[p].pc = request[p].pc /\ request'[p].pc # "handler"
    BY <1>3, <1>8, <2>3, <2>4 DEF Regenerating
  <2> QED
    BY <1>1, <1>3, <2>1, <2>3, <2>4 DEF Traces
<1>11. AuditAccounted'
  BY <1>1, <1>3 DEF AuditAccounted
<1> QED
  BY <1>5, <1>6, <1>7, <1>9, <1>10, <1>11 DEF SettingsIInv

LEMMA BootStep ==
    ASSUME SettingsIInv, NEW p \in Processes, Boot(p)
    PROVE  SettingsIInv'
BY DEF SettingsIInv, Boot, TypeOK, KeysApart, RequestsSound, OverlapsSeen, KeysTraced,
       AuditAccounted, Traces, Rows, Regenerating, Outstanding

\* Rows stay or come with the seed's key, and keep the keys that were drawn.
LEMMA TableStep ==
    ASSUME SettingsIInv, merchant' \in [Merchants -> Row \cup {None}],
           \A m \in Rows : m \in Rows' /\ merchant'[m].key = merchant[m].key,
           \A m \in Rows' \ Rows : merchant'[m].key = DemoKey,
           \A m, n \in Rows' : merchant'[m].key = merchant'[n].key => m = n,
           UNCHANGED <<issued, stored, shown, request, auditing, audit, backend,
                       unaudited, overlapped>>
    PROVE  SettingsIInv'
<1>1. /\ TypeOK /\ KeysApart /\ RequestsSound /\ OverlapsSeen /\ KeysTraced /\ AuditAccounted
  BY DEF SettingsIInv
<1>2. TypeOK'
  BY <1>1 DEF TypeOK
<1>3. KeysApart'
  BY <1>1 DEF KeysApart
<1>4. RequestsSound' /\ OverlapsSeen' /\ AuditAccounted'
  BY <1>1 DEF RequestsSound, OverlapsSeen, AuditAccounted, Regenerating, Outstanding
<1>5. KeysTraced'
  <2> SUFFICES ASSUME NEW m \in Rows', merchant'[m].key # DemoKey
               PROVE  \E p \in Requests : Traces(p, m)'
    BY DEF KeysTraced
  <2>1. m \in Rows /\ merchant'[m].key = merchant[m].key
    OBVIOUS
  <2>2. PICK w \in Requests : Traces(w, m)
    BY <1>1, <2>1 DEF KeysTraced
  <2>3. Traces(w, m)'
    BY <2>1, <2>2 DEF Traces, Regenerating, Outstanding
  <2> QED
    BY <2>3
<1> QED
  BY <1>2, <1>3, <1>4, <1>5 DEF SettingsIInv

LEMMA SuspendStep ==
    ASSUME SettingsIInv, NEW m \in Merchants, Suspend(m)
    PROVE  SettingsIInv'
<1> DEFINE row == [merchant[m] EXCEPT !.status = "SUSPENDED"]
<1>1. TypeOK /\ KeysApart /\ m \in Rows /\ merchant[m] \in Row
  BY RowsTyped DEF SettingsIInv, Suspend
<1>2. row \in Row /\ row.key = merchant[m].key /\ row # None
  BY <1>1, RowAssumption DEF Row
<1>3. merchant' = [merchant EXCEPT ![m] = row]
  BY DEF Suspend
<1> HIDE DEF row
<1>4. /\ merchant' \in [Merchants -> Row \cup {None}]
      /\ \A n \in Merchants : merchant'[n] = IF n = m THEN row ELSE merchant[n]
  BY <1>1, <1>2, <1>3 DEF TypeOK
<1>5. Rows' = Rows /\ \A n \in Rows : merchant'[n].key = merchant[n].key
  BY <1>1, <1>2, <1>4, RowsTyped DEF Rows
<1> QED
  BY <1>1, <1>4, <1>5, TableStep DEF Suspend, KeysApart

LEMMA SeedStep ==
    ASSUME SettingsIInv, SeedMerchant
    PROVE  SettingsIInv' /\ Rows \subseteq Rows' /\ Rows' # {}
<1>1. /\ TypeOK /\ KeysApart
      /\ UNCHANGED <<issued, stored, shown, request, auditing, audit, backend,
                     unaudited, overlapped>>
  BY DEF SettingsIInv, SeedMerchant
<1>2. PICK m \in Merchants :
          /\ merchant' = [merchant EXCEPT ![m] = Seeded(DemoKey)]
          /\ \/ m \in Rows /\ merchant[m].key = DemoKey
             \/ m \notin Rows /\ \A n \in Rows : merchant[n].key # DemoKey
  BY <1>1, RowsTyped DEF SeedMerchant
<1>3. Seeded(DemoKey) \in Row /\ Seeded(DemoKey).key = DemoKey /\ Seeded(DemoKey) # None
  BY RowAssumption DEF Seeded, Row, Keys
<1>4. /\ merchant' \in [Merchants -> Row \cup {None}]
      /\ \A n \in Merchants : merchant'[n] = IF n = m THEN Seeded(DemoKey) ELSE merchant[n]
  BY <1>1, <1>2, <1>3 DEF TypeOK
<1>5. Rows' = Rows \cup {m}
  BY <1>2, <1>3, <1>4 DEF Rows
<1>6. \A n \in Rows' : merchant'[n].key = IF n = m THEN DemoKey ELSE merchant[n].key
  BY <1>1, <1>3, <1>4, <1>5, RowsTyped
<1>7. \A n, o \in Rows' : merchant'[n].key = merchant'[o].key => n = o
  BY <1>1, <1>2, <1>5, <1>6 DEF KeysApart
<1>8. /\ \A n \in Rows : n \in Rows' /\ merchant'[n].key = merchant[n].key
      /\ \A n \in Rows' \ Rows : merchant'[n].key = DemoKey
  BY <1>2, <1>5, <1>6
<1> QED
  BY <1>1, <1>4, <1>5, <1>7, <1>8, TableStep

-----------------------------------------------------------------------------------
(* The whole. *)

LEMMA SettingsNextIInv ==
    ASSUME SettingsIInv, [SettingsNext]_settings
    PROVE  SettingsIInv'
<1>1. ASSUME NEW r \in Requests, Handle(r)
      PROVE  SettingsIInv'
  <2>1. updateMerchantProfile(r) \/ updateWebhookUrl(r) => SettingsIInv'
    BY ChangeStep DEF updateMerchantProfile, updateWebhookUrl
  <2> QED
    BY <1>1, <2>1, ListStep, RegenerateStep DEF Handle
<1>2. CASE Browse
  BY <1>2, SendStep, DeliverStep, LoseStep DEF Browse
<1>3. CASE Serve
  BY <1>1, <1>3, GuardStep, LogActionStep, SuspendStep DEF Serve
<1>4. ASSUME NEW r \in Requests, ServeNothing(r)
      PROVE  SettingsIInv'
  BY <1>4, RefusedStep DEF ServeNothing
<1>5. CASE UNCHANGED settings
  BY <1>5 DEF settings, SettingsIInv, TypeOK, KeysApart, RequestsSound, OverlapsSeen,
              KeysTraced, AuditAccounted, Traces, Rows, Regenerating, Outstanding
<1> QED
  BY <1>2, <1>3, <1>4, <1>5, StopStep, BootStep, SeedStep DEF SettingsNext

\* Whatever requests, answers, restarts and seeds do to keys and settings, the invariant
\* holds.
THEOREM SettingsInductive == SettingsSpec => []SettingsIInv
BY SettingsInitIInv, SettingsNextIInv, PTL DEF SettingsSpec

\* The newest key of a merchant, if a browser drew it, is on its way to that browser or
\* stored in it, unless the answer was lost or the browser drew two at once.
THEOREM NoLockout == SettingsSpec => []LockoutExplained
<1>1. SettingsIInv => LockoutExplained
  BY DEF SettingsIInv, KeysTraced, Traces, LockoutExplained
<1> QED
  BY <1>1, SettingsInductive, PTL

\* The interceptor's entry of every change is there, or being written, or went with the
\* backend; nothing else has an entry.
THEOREM ChangesAudited == SettingsSpec => []AuditAccounted
<1>1. SettingsIInv => AuditAccounted
  BY DEF SettingsIInv
<1> QED
  BY <1>1, SettingsInductive, PTL

-----------------------------------------------------------------------------------
(* The launcher's steps are steps of MerchantSettings, or leave it alone. *)

LEMMA ScriptSettings ==
    ASSUME NEW s \in Starts, Script(s)
    PROVE  [SettingsNext]_settings
<1>1. ASSUME NEW from, NEW why, Fail(s, from, why)
      PROVE  UNCHANGED settings
  BY <1>1 DEF Fail
<1>2. ASSUME NEW at, Needs(s, at)
      PROVE  UNCHANGED settings
  BY <1>1, <1>2 DEF Needs
<1>3. CASE Install(s) \/ WaitForDockerEngine(s) \/ Compose(s) \/ WaitForHealthy(s)
  BY <1>1, <1>3 DEF Install, WaitForDockerEngine, Compose, WaitForHealthy, Quiet
<1>4. CASE ClearProjectNodeProcesses(s) \/ ClearPrismaClientLocks(s) \/ ClearPorts(s)
  BY <1>4 DEF ClearProjectNodeProcesses, ClearPrismaClientLocks, ClearPorts, SettingsNext
<1>5. CASE Generate(s) \/ Cleanup(s) \/ Push(s)
  BY <1>1, <1>2, <1>5 DEF Generate, Cleanup, Push, Quiet
<1>6. CASE Seed(s)
  BY <1>2, <1>6 DEF Seed, SettingsNext
<1>7. CASE Spawn(s)
  BY <1>7 DEF Spawn, Quiet
<1>8. CASE BootApp(s)
  BY <1>8, LauncherAssumption DEF BootApp, SettingsNext, Quiet
<1> QED
  BY <1>3, <1>4, <1>5, <1>6, <1>7, <1>8 DEF Script

LEMMA NextSettings == [Next]_vars => [SettingsNext]_settings
<1> SUFFICES ASSUME [Next]_vars PROVE [SettingsNext]_settings
  OBVIOUS
<1>1. ASSUME NEW s \in Starts, Script(s) \/ Crash(s) \/ Interrupt(s)
      PROVE  [SettingsNext]_settings
  BY <1>1, ScriptSettings DEF Crash, Interrupt, SettingsNext
<1>2. ASSUME NEW z \in Stops, KillApps(z) \/ Down(z)
      PROVE  UNCHANGED settings
  BY <1>2 DEF KillApps, Down
<1>3. EngineUp \/ Healthy => UNCHANGED settings
  BY DEF EngineUp, Healthy
<1>4. CASE \/ Browse \/ Serve \/ \E r \in Requests : ServeNothing(r)
  BY <1>4 DEF SettingsNext
<1>5. CASE UNCHANGED vars
  BY <1>5 DEF vars
<1> QED
  BY <1>1, <1>2, <1>3, <1>4, <1>5 DEF Next

\* The launcher is one of the environments that MerchantSettings allows.
THEOREM LauncherImplementsSettings == Spec => SettingsSpec
BY NextSettings, PTL DEF Spec, SettingsSpec, Init

\* Under the launcher too, a browser keeps the newest key of its merchant.
THEOREM NoLockoutUnderLauncher == Spec => []LockoutExplained
BY LauncherImplementsSettings, NoLockout, PTL

\* Under the launcher too, what was changed is audited or went with the backend.
THEOREM ChangesAuditedUnderLauncher == Spec => []AuditAccounted
BY LauncherImplementsSettings, ChangesAudited, PTL

-----------------------------------------------------------------------------------
(* Rows of the merchants table are never deleted. *)

LEMMA RowWritten ==
    ASSUME TypeOK, NEW m \in Rows, NEW v, v # None, merchant' = [merchant EXCEPT ![m] = v]
    PROVE  Rows \subseteq Rows'
BY DEF Rows, TypeOK

LEMMA RowsGrow ==
    ASSUME SettingsIInv, [SettingsNext]_settings
    PROVE  Rows \subseteq Rows'
<1>1. TypeOK /\ RequestsSound
  BY DEF SettingsIInv
<1>2. CASE UNCHANGED merchant
  BY <1>2 DEF Rows
<1>3. ASSUME NEW r \in Requests, Handle(r)
      PROVE  Rows \subseteq Rows'
  <2>1. CASE UNCHANGED merchant
    BY <2>1, <1>2
  <2>2. request[r].pc = "handler" => request[r].merchant \in Rows
    BY <1>1 DEF RequestsSound
  <2>3. ASSUME NEW k \in NewKeys, InHandler(r, "regenerate"),
               merchant' = [merchant EXCEPT ![request[r].merchant].key = k]
        PROVE  Rows \subseteq Rows'
    <3>1. request[r].merchant \in Rows /\ merchant[request[r].merchant] \in Row
      BY <1>1, <2>2, <2>3, RowsTyped DEF InHandler
    <3>2. [merchant[request[r].merchant] EXCEPT !.key = k] # None
      BY <3>1, RowAssumption DEF Row, Keys
    <3> QED
      BY <1>1, <2>3, <3>1, <3>2, RowWritten
  <2>4. ASSUME NEW kind, NEW field \in {"name", "url"}, Change(r, kind, field)
        PROVE  Rows \subseteq Rows'
    <3>1. CASE Refused(r)
      BY <1>2, <3>1 DEF Refused
    <3>2. CASE merchant' = [merchant EXCEPT ![request[r].merchant][field] = "own"]
      <4>1. request[r].merchant \in Rows /\ merchant[request[r].merchant] \in Row
        BY <1>1, <2>2, <2>4, RowsTyped DEF Change, InHandler
      <4>2. [merchant[request[r].merchant] EXCEPT ![field] = "own"] # None
        BY <4>1, RowAssumption DEF Row
      <4> QED
        BY <1>1, <3>2, <4>1, <4>2, RowWritten
    <3> QED
      BY <2>4, <3>1, <3>2 DEF Change
  <2>5. CASE List(r) \/ Test(r)
    BY <1>2, <2>5 DEF List, Test, Refused
  <2>6. CASE Regenerate(r)
    BY <1>2, <2>3, <2>6 DEF Regenerate, Refused
  <2>7. CASE updateMerchantProfile(r) \/ updateWebhookUrl(r)
    BY <2>4, <2>7 DEF updateMerchantProfile, updateWebhookUrl
  <2> QED
    BY <1>3, <2>5, <2>6, <2>7 DEF Handle
<1>4. ASSUME NEW m \in Merchants, Suspend(m)
      PROVE  Rows \subseteq Rows'
  <2>1. m \in Rows /\ merchant[m] \in Row
    BY <1>1, <1>4, RowsTyped DEF Suspend
  <2>2. [merchant[m] EXCEPT !.status = "SUSPENDED"] # None
    BY <2>1, RowAssumption DEF Row
  <2> QED
    BY <1>1, <1>4, <2>1, <2>2, RowWritten DEF Suspend
<1>5. CASE Browse
  BY <1>2, <1>5 DEF Browse, Send, Deliver, Lose
<1>6. CASE Serve
  BY <1>2, <1>3, <1>4, <1>6 DEF Serve, Guard, LogAction
<1>7. ASSUME NEW r \in Requests, ServeNothing(r)
      PROVE  UNCHANGED merchant
  BY <1>7 DEF ServeNothing, Refused
<1>8. Stop \/ (\E p \in Processes : Boot(p)) => UNCHANGED merchant
  BY DEF Stop, Boot
<1>9. UNCHANGED settings => UNCHANGED merchant
  BY DEF settings
<1> QED
  BY <1>2, <1>5, <1>6, <1>7, <1>8, <1>9, SeedStep DEF SettingsNext

-----------------------------------------------------------------------------------
(* What one step of the launcher does to where its starts are. *)

Past == {"ports", "spawn", "boot", "running"}

LEMMA GoAt ==
    ASSUME LauncherTypeOK, NEW s \in Starts, NEW from, NEW to \in Steps, Go(s, from, to)
    PROVE  /\ step' \in [Starts -> Steps] /\ step[s] = from
           /\ stopping' = stopping /\ cause' = cause /\ raced' = raced
           /\ \A t \in Starts : step'[t] = IF t = s THEN to ELSE step[t]
BY DEF LauncherTypeOK, Go

LEMMA FailAt ==
    ASSUME LauncherTypeOK, NEW s \in Starts, NEW from, NEW why \in Causes, Fail(s, from, why)
    PROVE  /\ step' \in [Starts -> Steps] /\ step[s] = from
           /\ cause' \in [Starts -> Causes] /\ stopping' = stopping
           /\ \A t \in Starts : step'[t] = IF t = s THEN "failed" ELSE step[t]
           /\ \A t \in Starts \ {s} : cause'[t] = cause[t]
           /\ UNCHANGED <<settings, engine, services, schema, duplicates, client, raced>>
BY DEF LauncherTypeOK, Fail, Steps

\* A step that leaves the backend alone, and takes nothing from it, keeps it prepared.
LEMMA BackendKept ==
    ASSUME LauncherIInv, SettingsIInv', Rows \subseteq Rows', backend' = backend,
           step' \in [Starts -> Steps], cause' \in [Starts -> Causes],
           stopping' \in [Stops -> {"idle", "down", "done"}],
           engine' \in BOOLEAN, duplicates' \in BOOLEAN, client' \in BOOLEAN,
           services' \in {"absent", "running", "healthy"},
           schema' \in {"none", "old", "current"},
           \A s \in Starts : step[s] = "running" /\ backend = s => step'[s] = "running",
           \A s \in Starts : step'[s] \in Past => step[s] \in Past \/ Rows' # {},
           \A s \in Starts : step'[s] = "remove" => step[s] = "remove",
           raced' = raced, client' \/ (~client /\ (ClientAwaited => ClientAwaited')),
           schema = "current" => schema' = "current",
           \A z \in Stops : stopping[z] = "done" => stopping'[z] = "done",
           services = "healthy" => services' = "healthy" \/ \E z \in Stops : stopping'[z] = "done"
    PROVE  LauncherIInv'
<1>1. TypeOK' /\ LauncherTypeOK'
  BY DEF SettingsIInv, LauncherIInv, LauncherTypeOK
<1>2. SeededFirst'
  BY DEF LauncherIInv, SeededFirst, Past
<1>3. BackendPrepared'
  <2>1. backend # None => backend \in Starts
    BY LauncherAssumption DEF LauncherIInv, LauncherTypeOK, TypeOK
  <2> QED
    BY <2>1 DEF LauncherIInv, BackendPrepared
<1>4. RacesKnown'
  BY DEF LauncherIInv, RacesKnown
<1> QED
  BY <1>1, <1>2, <1>3, <1>4 DEF LauncherIInv

\* A step with which the backend ends.
LEMMA BackendStopped ==
    ASSUME LauncherIInv, SettingsIInv', Stop,
           step' \in [Starts -> Steps], cause' \in [Starts -> Causes],
           \A s \in Starts : step'[s] \in Past => step[s] \in Past,
           UNCHANGED <<stopping, engine, services, schema, duplicates, client, raced>>
    PROVE  LauncherIInv'
<1>1. LauncherTypeOK'
  BY DEF SettingsIInv, LauncherTypeOK, LauncherIInv
<1>2. SeededFirst'
  BY DEF LauncherIInv, SeededFirst, Past, Stop, Rows
<1>3. BackendPrepared' /\ RacesKnown'
  BY DEF Stop, BackendPrepared, RacesKnown
<1> QED
  BY <1>1, <1>2, <1>3 DEF LauncherIInv

LEMMA FailKept ==
    ASSUME LauncherIInv, SettingsIInv', NEW s \in Starts, NEW from, NEW why \in Causes,
           from \notin {"running", "generate", "ended"}, Fail(s, from, why)
    PROVE  LauncherIInv'
<1>1. LauncherTypeOK
  BY DEF LauncherIInv
<1>2. /\ step' \in [Starts -> Steps] /\ step[s] = from
      /\ cause' \in [Starts -> Causes] /\ stopping' = stopping
      /\ \A t \in Starts : step'[t] = IF t = s THEN "failed" ELSE step[t]
      /\ \A t \in Starts \ {s} : cause'[t] = cause[t]
      /\ UNCHANGED <<settings, engine, services, schema, duplicates, client, raced>>
  BY <1>1, FailAt
<1>3. Rows' = Rows /\ backend' = backend
  BY <1>2 DEF settings, Rows
<1>4. /\ \A t \in Starts : step[t] = "running" /\ backend = t => step'[t] = "running"
      /\ \A t \in Starts : step'[t] \in Past => step[t] \in Past \/ Rows' # {}
      /\ \A t \in Starts : step'[t] = "remove" => step[t] = "remove"
  BY <1>2 DEF Past
<1>5. client' \/ (~client /\ (ClientAwaited => ClientAwaited'))
  BY <1>2 DEF ClientAwaited
<1> QED
  BY <1>1, <1>2, <1>3, <1>4, <1>5, BackendKept DEF LauncherTypeOK

LEMMA GoKept ==
    ASSUME LauncherIInv, SettingsIInv', NEW s \in Starts, NEW from, NEW to \in Steps,
           from \notin {"running", "generate", "ended"} \/ (from = "generate" /\ client'),
           to # "remove", Go(s, from, to), Rows \subseteq Rows', backend' = backend,
           to \in Past => from \in Past \/ Rows' # {},
           UNCHANGED <<engine, duplicates>>,
           client' = client \/ client' = TRUE,
           schema' = schema \/ schema' = "current",
           services' = services \/ (services # "healthy" /\ services' = "running")
    PROVE  LauncherIInv'
<1>1. LauncherTypeOK
  BY DEF LauncherIInv
<1>2. /\ step' \in [Starts -> Steps] /\ step[s] = from
      /\ stopping' = stopping /\ cause' = cause /\ raced' = raced
      /\ \A t \in Starts : step'[t] = IF t = s THEN to ELSE step[t]
  BY <1>1, GoAt
<1>3. /\ \A t \in Starts : step[t] = "running" /\ backend = t => step'[t] = "running"
      /\ \A t \in Starts : step'[t] \in Past => step[t] \in Past \/ Rows' # {}
      /\ \A t \in Starts : step'[t] = "remove" => step[t] = "remove"
  BY <1>2
<1>4. client' \/ (~client /\ (ClientAwaited => ClientAwaited'))
  BY <1>1, <1>2 DEF ClientAwaited, LauncherTypeOK
<1>5. /\ client' \in BOOLEAN /\ schema' \in {"none", "old", "current"}
      /\ services' \in {"absent", "running", "healthy"}
      /\ engine' \in BOOLEAN /\ duplicates' \in BOOLEAN
      /\ cause' \in [Starts -> Causes] /\ stopping' \in [Stops -> {"idle", "down", "done"}]
  BY <1>1, <1>2 DEF LauncherTypeOK
<1> QED
  BY <1>2, <1>3, <1>5, <1>4, BackendKept

-----------------------------------------------------------------------------------
(* Every step keeps the backend prepared. *)

LEMMA ScriptKept ==
    ASSUME LauncherIInv, SettingsIInv', NEW s \in Starts, Script(s)
    PROVE  LauncherIInv'
<1>1. LauncherTypeOK /\ SettingsIInv
  BY DEF LauncherIInv
<1>2. UNCHANGED settings => Rows \subseteq Rows' /\ backend' = backend
  BY DEF settings, Rows
<1>3. ASSUME NEW from, NEW to \in Steps, from \notin {"running", "generate", "ended"},
             to # "remove", to \notin Past \/ from \in Past, Go(s, from, to), Quiet
      PROVE  LauncherIInv'
  BY <1>2, <1>3, GoKept DEF Quiet
<1>4. ASSUME NEW at \in {"cleanup", "seed"}, Needs(s, at)
      PROVE  LauncherIInv'
  BY <1>4, FailKept DEF Needs, Causes
<1>5. CASE Install(s)
  BY <1>3, <1>5, FailKept DEF Install, Steps, Causes, Past
<1>6. CASE WaitForDockerEngine(s)
  BY <1>3, <1>6 DEF WaitForDockerEngine, Steps, Past
<1>7. CASE Compose(s)
  <2>1. CASE Fail(s, "compose", "engine")
    BY <2>1, FailKept DEF Causes
  <2>2. CASE /\ Go(s, "compose", "health")
             /\ services' = IF services = "absent" THEN "running" ELSE services
             /\ UNCHANGED <<settings, engine, schema, duplicates, client>>
    BY <1>2, <2>2, GoKept DEF Steps, Past
  <2> QED
    BY <1>7, <2>1, <2>2 DEF Compose
<1>8. CASE WaitForHealthy(s)
  BY <1>3, <1>8, FailKept DEF WaitForHealthy, Steps, Causes, Past
<1>9. CASE ClearProjectNodeProcesses(s)
  <2>1. PICK hit \in SUBSET {t \in Starts \ {s} : step[t] \in Preparation} :
          /\ step' = [t \in Starts |-> CASE t = s -> "remove"
                                         [] t \in hit -> "failed"
                                         [] t \in Apps -> "ended"
                                         [] OTHER -> step[t]]
          /\ cause' = [t \in Starts |-> IF t \in hit \cup Apps THEN "killed" ELSE cause[t]]
    BY <1>9 DEF ClearProjectNodeProcesses
  <2> DEFINE next(t) == CASE t = s -> "remove"
                          [] t \in hit -> "failed"
                          [] t \in Apps -> "ended"
                          [] OTHER -> step[t]
  <2>2. ASSUME NEW t \in Starts
        PROVE  next(t) \in {"remove", "failed", "ended", step[t]}
    OBVIOUS
  <2>3. step' = [t \in Starts |-> next(t)]
    BY <2>1
  <2> HIDE DEF next
  <2>4. /\ step' \in [Starts -> Steps] /\ cause' \in [Starts -> Causes]
        /\ \A t \in Starts : step'[t] \in Past => step[t] \in Past
    <3>1. \A t \in Starts : step[t] \in Steps /\ cause[t] \in Causes
      BY <1>1 DEF LauncherTypeOK
    <3>2. \A t \in Starts : next(t) \in Steps /\ (next(t) \in Past => step[t] \in Past)
      BY <2>2, <3>1 DEF Steps, Preparation, Past
    <3>3. "killed" \in Causes
      BY DEF Causes
    <3> QED
      BY <2>1, <2>3, <3>1, <3>2, <3>3
  <2>5. /\ Stop
        /\ UNCHANGED <<stopping, engine, services, schema, duplicates, client, raced>>
    BY <1>9 DEF ClearProjectNodeProcesses
  <2> QED
    BY <2>4, <2>5, BackendStopped
<1>10. CASE ClearPrismaClientLocks(s)
  <2>1. /\ step' \in [Starts -> Steps] /\ step[s] = "remove" /\ step'[s] = "generate"
        /\ stopping' = stopping /\ cause' = cause /\ raced' = raced
        /\ \A t \in Starts \ {s} : step'[t] = step[t]
    BY <1>1, <1>10, GoAt DEF ClearPrismaClientLocks, Steps, Preparation
  <2>2. /\ Rows' = Rows /\ backend' = backend /\ client' \in BOOLEAN
        /\ UNCHANGED <<engine, services, schema, duplicates>>
    BY <1>1, <1>2, <1>10 DEF ClearPrismaClientLocks, LauncherTypeOK, settings, Rows
  <2>3. LauncherTypeOK'
    BY <1>1, <2>1, <2>2 DEF LauncherTypeOK, SettingsIInv
  <2>4. SeededFirst' /\ RacesKnown'
    BY <2>1, <2>2 DEF LauncherIInv, SeededFirst, RacesKnown
  <2>5. BackendPrepared'
    <3>1. backend # None => backend \in raced
      BY <2>1 DEF LauncherIInv, RacesKnown
    <3>2. backend # None => backend \in Starts \ {s}
      BY <1>1, <2>1, LauncherAssumption DEF LauncherTypeOK, TypeOK, LauncherIInv, BackendPrepared
    <3>3. ClientAwaited'
      BY <2>1 DEF ClientAwaited
    <3> QED
      BY <2>1, <2>2, <3>1, <3>2, <3>3 DEF LauncherIInv, BackendPrepared
  <2> QED
    BY <2>3, <2>4, <2>5 DEF LauncherIInv
<1>11. CASE Generate(s)
  BY <1>2, <1>11, GoKept DEF Generate, Steps, Preparation, Past
<1>12. CASE Cleanup(s)
  BY <1>3, <1>4, <1>12, FailKept DEF Cleanup, Steps, Preparation, Causes, Past
<1>13. CASE Push(s)
  <2>1. ASSUME NEW why \in Causes, Fail(s, "push", why)
        PROVE  LauncherIInv'
    BY <2>1, FailKept
  <2>2. CASE /\ Go(s, "push", "seed")
             /\ schema' = "current" /\ client' = TRUE
             /\ UNCHANGED <<settings, engine, services, duplicates>>
    BY <1>2, <2>2, GoKept DEF Steps, Preparation, Past
  <2> QED
    BY <1>13, <2>1, <2>2 DEF Push, Causes
<1>14. CASE Seed(s)
  <2>1. CASE Needs(s, "seed")
    BY <1>4, <2>1
  <2>2. CASE /\ SeedMerchant /\ Go(s, "seed", "ports")
             /\ UNCHANGED <<engine, services, schema, duplicates, client>>
    <3>1. Rows \subseteq Rows' /\ Rows' # {} /\ backend' = backend
      BY <1>1, <2>2, SeedStep DEF SeedMerchant
    <3> QED
      BY <2>2, <3>1, GoKept DEF Steps
  <2> QED
    BY <1>14, <2>1, <2>2 DEF Seed
<1>15. CASE ClearPorts(s)
  <2>1. /\ step[s] = "ports"
        /\ step' = [t \in Starts |-> CASE t = s -> "spawn"
                                       [] t = backend -> "broken"
                                       [] OTHER -> step[t]]
        /\ Stop
        /\ UNCHANGED <<stopping, engine, services, schema, duplicates, client, cause, raced>>
    BY <1>15 DEF ClearPorts
  <2> DEFINE next(t) == CASE t = s -> "spawn"
                          [] t = backend -> "broken"
                          [] OTHER -> step[t]
  <2>2. s # backend
    BY <2>1, NoneAssumption, LauncherAssumption DEF LauncherIInv, BackendPrepared
  <2>3. ASSUME NEW t \in Starts
        PROVE  next(t) \in IF t = s THEN {"spawn"} ELSE {"broken", step[t]}
    BY <2>2
  <2>4. step' = [t \in Starts |-> next(t)]
    BY <2>1
  <2> HIDE DEF next
  <2>5. step' \in [Starts -> Steps] /\ \A t \in Starts : step'[t] \in Past => step[t] \in Past
    <3>1. \A t \in Starts : next(t) \in Steps /\ (next(t) \in Past => step[t] \in Past)
      BY <1>1, <2>1, <2>3 DEF LauncherTypeOK, Steps, Past
    <3> QED
      BY <2>4, <3>1
  <2> QED
    BY <1>1, <2>1, <2>5, BackendStopped DEF LauncherTypeOK
<1>16. CASE Spawn(s)
  BY <1>3, <1>16 DEF Spawn, Steps, Past
<1>17. CASE BootApp(s)
  <2>1. CASE Go(s, "boot", "broken") /\ Quiet
    BY <1>3, <2>1 DEF Steps, Past
  <2>2. CASE /\ Ready /\ schema = "current" /\ Boot(s)
             /\ step[s] = "boot" /\ step' = [step EXCEPT ![s] = "running"]
             /\ raced' = IF \E t \in Starts : step[t] = "remove" THEN raced \cup {s} ELSE raced
             /\ UNCHANGED <<stopping, engine, services, schema, duplicates, client, cause>>
    <3>1. /\ step' \in [Starts -> Steps] /\ raced' \subseteq Starts
          /\ \A t \in Starts : step'[t] = IF t = s THEN "running" ELSE step[t]
      BY <1>1, <2>2 DEF LauncherTypeOK, Steps
    <3>2. backend' = s /\ Rows' = Rows /\ Rows # {}
      BY <2>2, <3>1 DEF Boot, Rows, LauncherIInv, SeededFirst
    <3>3. LauncherTypeOK'
      BY <1>1, <2>2, <3>1 DEF LauncherTypeOK, SettingsIInv
    <3>4. SeededFirst' /\ RacesKnown'
      BY <2>2, <3>1, <3>2 DEF SeededFirst, RacesKnown
    <3>5. BackendPrepared'
      BY <2>2, <3>1, <3>2 DEF BackendPrepared, Ready
    <3> QED
      BY <3>3, <3>4, <3>5 DEF LauncherIInv
  <2> QED
    BY <1>17, <2>1, <2>2 DEF BootApp
<1> QED
  BY <1>5, <1>6, <1>7, <1>8, <1>9, <1>10, <1>11, <1>12, <1>13, <1>14, <1>15, <1>16,
     <1>17 DEF Script

\* A step of one start that ends it, with its backend if it has one.
LEMMA EndKept ==
    ASSUME LauncherIInv, SettingsIInv', NEW s \in Starts, Crash(s) \/ Interrupt(s)
    PROVE  LauncherIInv'
<1>1. LauncherTypeOK
  BY DEF LauncherIInv
<1>2. /\ step' \in [Starts -> Steps] /\ cause' \in [Starts -> Causes]
      /\ \A t \in Starts : step'[t] = step[t] \/ (t = s /\ step'[t] \in {"broken", "ended"})
  BY <1>1 DEF Crash, Interrupt, LauncherTypeOK, Steps, Causes
<1>3. UNCHANGED <<stopping, engine, services, schema, duplicates, client, raced>>
  BY DEF Crash, Interrupt
<1>4. \A t \in Starts : step'[t] \in Past => step[t] \in Past
  BY <1>2 DEF Past
<1>5. CASE Stop
  BY <1>1, <1>2, <1>3, <1>4, <1>5, BackendStopped DEF LauncherTypeOK
<1>6. CASE backend # s /\ UNCHANGED settings
  <2>1. Rows' = Rows /\ backend' = backend
    BY <1>6 DEF settings, Rows
  <2>2. /\ \A t \in Starts : step[t] = "running" /\ backend = t => step'[t] = "running"
        /\ \A t \in Starts : step'[t] = "remove" => step[t] = "remove"
    BY <1>2, <1>6
  <2>3. ClientAwaited => ClientAwaited'
    <3>1. /\ step'[s] = "ended" /\ cause'[s] = "interrupt"
      BY <1>1, <1>6 DEF Crash, Interrupt, LauncherTypeOK
    <3> QED
      BY <3>1 DEF ClientAwaited
  <2> QED
    BY <1>1, <1>2, <1>3, <1>4, <2>1, <2>2, <2>3, BackendKept DEF LauncherTypeOK
<1> QED
  BY <1>5, <1>6 DEF Crash, Interrupt

\* Steps that leave the starts where they are.
LEMMA OtherKept ==
    ASSUME LauncherIInv, SettingsIInv', Rows \subseteq Rows', UNCHANGED <<step, cause, backend>>,
           \/ \E z \in Stops : KillApps(z) \/ Down(z)
           \/ EngineUp \/ Healthy \/ UNCHANGED machine
    PROVE  LauncherIInv'
<1>1. LauncherTypeOK
  BY DEF LauncherIInv
<1>2. /\ stopping' \in [Stops -> {"idle", "down", "done"}]
      /\ engine' \in BOOLEAN /\ duplicates' \in BOOLEAN /\ client' \in BOOLEAN
      /\ services' \in {"absent", "running", "healthy"}
      /\ schema' \in {"none", "old", "current"}
      /\ client' = client /\ schema' = schema /\ raced' = raced
  BY <1>1 DEF LauncherTypeOK, KillApps, Down, EngineUp, Healthy, machine
<1>3. /\ \A z \in Stops : stopping[z] = "done" => stopping'[z] = "done"
      /\ services = "healthy" => services' = "healthy" \/ \E z \in Stops : stopping'[z] = "done"
  BY <1>1 DEF LauncherTypeOK, KillApps, Down, EngineUp, Healthy, machine
<1>4. \A s \in Starts : step'[s] \in Past => step[s] \in Past
  OBVIOUS
<1>5. ClientAwaited => ClientAwaited'
  BY DEF ClientAwaited
<1> QED
  BY <1>1, <1>2, <1>3, <1>4, <1>5, BackendKept DEF LauncherTypeOK

\* Requests and browsers neither start nor end the backend.
LEMMA RequestsKeepBackend ==
    ASSUME Browse \/ Serve \/ \E r \in Requests : ServeNothing(r)
    PROVE  backend' = backend
<1>1. Browse => backend' = backend
  BY DEF Browse, Send, Deliver, Lose
<1>2. Serve => backend' = backend
  BY DEF Serve, Guard, Handle, List, Regenerate, updateMerchantProfile, updateWebhookUrl,
         Change, Test, Answered, Refused, LogAction, Suspend
<1>3. (\E r \in Requests : ServeNothing(r)) => backend' = backend
  BY DEF ServeNothing, Refused
<1> QED
  BY <1>1, <1>2, <1>3

LEMMA LauncherInit == Init => LauncherIInv
<1> SUFFICES ASSUME Init PROVE LauncherIInv
  OBVIOUS
<1>1. SettingsIInv /\ backend = None
  BY SettingsInitIInv DEF Init, SettingsInit
<1>2. LauncherTypeOK
  BY <1>1 DEF Init, LauncherTypeOK, SettingsIInv, Steps, Causes
<1>3. SeededFirst /\ RacesKnown /\ BackendPrepared
  BY <1>1 DEF Init, SeededFirst, RacesKnown, BackendPrepared
<1> QED
  BY <1>1, <1>2, <1>3 DEF LauncherIInv

LEMMA LauncherNext ==
    ASSUME LauncherIInv, [Next]_vars
    PROVE  LauncherIInv'
<1>1. SettingsIInv' /\ Rows \subseteq Rows'
  BY NextSettings, SettingsNextIInv, RowsGrow DEF LauncherIInv
<1>2. ASSUME NEW s \in Starts, Script(s) \/ Crash(s) \/ Interrupt(s)
      PROVE  LauncherIInv'
  BY <1>1, <1>2, ScriptKept, EndKept
<1>3. ASSUME NEW z \in Stops, KillApps(z) \/ Down(z)
      PROVE  LauncherIInv'
  <2>1. UNCHANGED <<step, cause, backend>>
    BY <1>3 DEF KillApps, Down, settings
  <2> QED
    BY <1>1, <1>3, <2>1, OtherKept
<1>4. CASE EngineUp \/ Healthy
  <2>1. UNCHANGED <<step, cause, backend>>
    BY <1>4 DEF EngineUp, Healthy, settings
  <2> QED
    BY <1>1, <1>4, <2>1, OtherKept
<1>5. CASE (Browse \/ Serve \/ \E r \in Requests : ServeNothing(r)) /\ UNCHANGED machine
  <2>1. UNCHANGED <<step, cause>>
    BY <1>5 DEF machine
  <2> QED
    BY <1>1, <1>5, <2>1, RequestsKeepBackend, OtherKept
<1>6. CASE UNCHANGED vars
  <2>1. UNCHANGED machine /\ UNCHANGED <<step, cause, backend>>
    BY <1>6 DEF vars, settings, machine
  <2> QED
    BY <1>1, <2>1, OtherKept
<1> QED
  BY <1>2, <1>3, <1>4, <1>5, <1>6 DEF Next

-----------------------------------------------------------------------------------
(* While nothing else goes wrong, somebody brings an app up. *)

LEMMA SurvivorInit == Init => SurvivorIInv
BY DEF Init, SurvivorIInv, PushedFirst, CausesAtTheEnd, SomeoneCarries, Begun

\* A start that goes on without a cause, on a machine whose tables stay or become current.
LEMMA GoEarly ==
    ASSUME LauncherTypeOK, PushedFirst, CausesAtTheEnd, NEW s \in Starts, NEW from,
           NEW to \in Steps, Go(s, from, to),
           from \notin {"broken", "ended", "failed"},
           schema' = schema \/ schema' = "current",
           to \in {"seed", "ports", "spawn", "boot"} => schema' = "current"
    PROVE  PushedFirst' /\ CausesAtTheEnd' /\ (Undisturbed' => Undisturbed)
<1>1. /\ step[s] = from /\ cause' = cause /\ stopping' = stopping
      /\ \A t \in Starts : step'[t] = IF t = s THEN to ELSE step[t]
  BY GoAt
<1> QED
  BY <1>1 DEF PushedFirst, CausesAtTheEnd, Undisturbed

\* A start that fails: for any cause but a removed client the machine counts as
\* disturbed, and without a client it carried nothing.
LEMMA FailSurvived ==
    ASSUME LauncherIInv, SurvivorIInv, NEW s \in Starts, NEW from, NEW why \in Causes,
           why # "none", from # "idle", from \notin {"broken", "ended", "failed"},
           Fail(s, from, why), why = "client" => from \in {"cleanup", "seed"} /\ ~client,
           why # "killed"
    PROVE  SurvivorIInv'
<1>1. LauncherTypeOK /\ PushedFirst /\ CausesAtTheEnd /\ SomeoneCarries
  BY DEF LauncherIInv, SurvivorIInv
<1>2. /\ step[s] = from /\ stopping' = stopping
      /\ \A t \in Starts : step'[t] = IF t = s THEN "failed" ELSE step[t]
      /\ UNCHANGED <<settings, engine, services, schema, duplicates, client>>
  BY <1>1, FailAt
<1>3. \A t \in Starts : cause'[t] = IF t = s THEN why ELSE cause[t]
  BY <1>1 DEF Fail, LauncherTypeOK
<1>4. PushedFirst' /\ CausesAtTheEnd'
  BY <1>1, <1>2, <1>3 DEF PushedFirst, CausesAtTheEnd
<1>5. ASSUME Undisturbed'
      PROVE  backend' # None \/ \E t \in Starts : Carries(t)'
  <2>1. why = "client" /\ ~Carries(s)
    BY <1>2, <1>3, <1>5 DEF Undisturbed, Carries
  <2>2. Undisturbed /\ Begun
    BY <1>1, <1>2, <1>3, <1>5 DEF Undisturbed, Begun, CausesAtTheEnd
  <2>3. CASE backend # None
    BY <1>2, <2>3 DEF settings
  <2>4. CASE \E t \in Starts : Carries(t)
    <3>1. PICK t \in Starts : Carries(t)
      BY <2>4
    <3>2. step'[t] = step[t] /\ client' = client /\ services' = services
      BY <1>2, <2>1, <3>1
    <3>3. Carries(t)'
      BY <3>1, <3>2 DEF Carries, Ready
    <3> QED
      BY <3>3
  <2> QED
    BY <1>1, <2>2, <2>3, <2>4 DEF SomeoneCarries
<1> QED
  BY <1>4, <1>5 DEF SurvivorIInv, SomeoneCarries

\* A start that goes on to a place from which it carries.
LEMMA GoCarries ==
    ASSUME LauncherIInv, SurvivorIInv, NEW s \in Starts, NEW from, NEW to \in Steps,
           Go(s, from, to), from \notin {"broken", "ended", "failed"},
           schema' = schema \/ schema' = "current",
           to \in {"seed", "ports", "spawn", "boot"} => schema' = "current",
           \/ to \in {"install", "engine", "compose", "health", "clear", "remove",
                      "generate", "push"}
           \/ to \in {"cleanup", "seed"} /\ client'
           \/ to = "ports" /\ Ready'
    PROVE  SurvivorIInv'
<1>1. LauncherTypeOK /\ PushedFirst /\ CausesAtTheEnd
  BY DEF LauncherIInv, SurvivorIInv
<1>2. PushedFirst' /\ CausesAtTheEnd'
  BY <1>1, GoEarly
<1>3. step'[s] = to
  BY <1>1, GoAt
<1>4. Carries(s)'
  BY <1>3 DEF Carries
<1> QED
  BY <1>2, <1>4 DEF SurvivorIInv, SomeoneCarries

\* The other carriers are still there when start s goes on and takes nothing from them.
LEMMA OthersCarry ==
    ASSUME LauncherIInv, SurvivorIInv, Undisturbed, Begun, NEW s \in Starts,
           ~Carries(s), backend = None,
           \A t \in Starts \ {s} : step'[t] = step[t],
           client' = client, services' = services
    PROVE  \E t \in Starts : Carries(t)'
<1>1. PICK t \in Starts : Carries(t)
  BY DEF SurvivorIInv, SomeoneCarries
<1>2. step'[t] = step[t]
  BY <1>1
<1>3. Carries(t)'
  BY <1>1, <1>2 DEF Carries, Ready
<1> QED
  BY <1>3

LEMMA ClearSurvived ==
    ASSUME LauncherIInv, SurvivorIInv, NEW s \in Starts, ClearProjectNodeProcesses(s)
    PROVE  SurvivorIInv'
<1>1. LauncherTypeOK /\ PushedFirst /\ CausesAtTheEnd
  BY DEF LauncherIInv, SurvivorIInv
<1>2. PICK hit \in SUBSET {t \in Starts \ {s} : step[t] \in Preparation} :
        /\ step' = [t \in Starts |-> CASE t = s -> "remove"
                                       [] t \in hit -> "failed"
                                       [] t \in Apps -> "ended"
                                       [] OTHER -> step[t]]
        /\ cause' = [t \in Starts |-> IF t \in hit \cup Apps THEN "killed" ELSE cause[t]]
  BY DEF ClearProjectNodeProcesses
<1>3. step[s] = "clear" /\ schema' = schema
  BY DEF ClearProjectNodeProcesses
<1>4. s \notin hit /\ s \notin Apps /\ \A t \in hit : t \notin Apps
  BY <1>2, <1>3 DEF Apps, Preparation
<1>5. /\ step'[s] = "remove" /\ cause'[s] = cause[s]
      /\ \A t \in Starts \ {s} :
             \/ step'[t] \in {"failed", "ended"}
             \/ step'[t] = step[t] /\ cause'[t] = cause[t]
  <2>1. ASSUME NEW t \in Starts \ {s}
        PROVE  \/ step'[t] \in {"failed", "ended"}
               \/ step'[t] = step[t] /\ cause'[t] = cause[t]
    <3>1. CASE t \in hit
      BY <1>2, <1>4, <3>1
    <3>2. CASE t \in Apps
      BY <1>2, <1>4, <3>2
    <3>3. CASE t \notin hit /\ t \notin Apps
      BY <1>2, <3>3
    <3> QED
      BY <3>1, <3>2, <3>3
  <2> QED
    BY <1>2, <1>4, <2>1
<1>6. PushedFirst' /\ CausesAtTheEnd'
  BY <1>1, <1>3, <1>5 DEF PushedFirst, CausesAtTheEnd
<1>7. Carries(s)'
  BY <1>5 DEF Carries
<1> QED
  BY <1>6, <1>7 DEF SurvivorIInv, SomeoneCarries

LEMMA ClearPortsSurvived ==
    ASSUME LauncherIInv, SurvivorIInv, NEW s \in Starts, ClearPorts(s)
    PROVE  SurvivorIInv'
<1>1. LauncherTypeOK /\ PushedFirst /\ CausesAtTheEnd /\ SomeoneCarries /\ BackendPrepared
  BY DEF LauncherIInv, SurvivorIInv
<1>2. /\ step[s] = "ports"
      /\ step' = [t \in Starts |-> CASE t = s -> "spawn"
                                     [] t = backend -> "broken"
                                     [] OTHER -> step[t]]
      /\ UNCHANGED <<stopping, services, schema, client, cause>>
  BY DEF ClearPorts
<1>3. s # backend
  BY <1>1, <1>2, NoneAssumption, LauncherAssumption DEF BackendPrepared
<1>4. /\ step'[s] = "spawn"
      /\ \A t \in Starts \ {s} : step'[t] = IF t = backend THEN "broken" ELSE step[t]
  BY <1>2, <1>3
<1>5. PushedFirst' /\ CausesAtTheEnd'
  BY <1>1, <1>2, <1>4 DEF PushedFirst, CausesAtTheEnd
<1>6. ASSUME Undisturbed'
      PROVE  \E t \in Starts : Carries(t)'
  <2>1. Undisturbed /\ Begun
    BY <1>2, <1>6 DEF Undisturbed, Begun
  <2>2. Ready => Carries(s)'
    BY <1>2, <1>4 DEF Carries, Ready
  <2>3. CASE backend # None
    <3>1. CASE client
      BY <1>1, <2>1, <2>2, <2>3, <3>1 DEF BackendPrepared, Undisturbed, Ready
    <3>2. CASE ~client
      <4>1. PICK t \in Starts : step[t] = "generate"
        BY <1>1, <2>1, <2>3, <3>2 DEF BackendPrepared, Undisturbed, ClientAwaited
      <4>2. step'[t] = "generate"
        BY <1>1, <1>2, <1>4, <2>3, <4>1 DEF BackendPrepared
      <4>3. Carries(t)'
        BY <4>2 DEF Carries
      <4> QED
        BY <4>3
    <3> QED
      BY <3>1, <3>2
  <2>4. CASE backend = None
    <3>1. CASE Carries(s)
      BY <1>2, <2>2, <3>1 DEF Carries
    <3>2. CASE ~Carries(s)
      <4>1. \A t \in Starts \ {s} : step'[t] = step[t]
        BY <1>4, <2>4, NoneAssumption, LauncherAssumption
      <4> QED
        BY <1>2, <2>1, <2>4, <3>2, <4>1, OthersCarry
    <3> QED
      BY <3>1, <3>2
  <2> QED
    BY <2>3, <2>4
<1> QED
  BY <1>5, <1>6 DEF SurvivorIInv, SomeoneCarries

LEMMA SpawnSurvived ==
    ASSUME LauncherIInv, SurvivorIInv, NEW s \in Starts, Spawn(s)
    PROVE  SurvivorIInv'
<1>1. LauncherTypeOK /\ PushedFirst /\ CausesAtTheEnd
  BY DEF LauncherIInv, SurvivorIInv
<1>2. /\ Go(s, "spawn", "boot") /\ schema' = schema /\ backend' = backend
      /\ client' = client /\ services' = services
  BY DEF Spawn, Quiet, settings
<1>3. /\ step[s] = "spawn" /\ step'[s] = "boot"
      /\ \A t \in Starts \ {s} : step'[t] = step[t]
  BY <1>1, <1>2, GoAt DEF Steps
<1>4. schema = "current"
  BY <1>1, <1>3 DEF PushedFirst
<1>5. PushedFirst' /\ CausesAtTheEnd' /\ (Undisturbed' => Undisturbed)
  BY <1>1, <1>2, <1>4, GoEarly DEF Steps
<1>6. ASSUME Undisturbed', backend = None
      PROVE  \E t \in Starts : Carries(t)'
  <2>1. CASE Carries(s)
    <3>1. Carries(s)'
      BY <1>2, <1>3, <2>1 DEF Carries, Ready
    <3> QED
      BY <3>1
  <2>2. CASE ~Carries(s)
    <3>1. Begun
      BY <1>3 DEF Begun
    <3> QED
      BY <1>2, <1>3, <1>5, <1>6, <2>2, <3>1, OthersCarry
  <2> QED
    BY <2>1, <2>2
<1> QED
  BY <1>2, <1>5, <1>6 DEF SurvivorIInv, SomeoneCarries

LEMMA BootAppSurvived ==
    ASSUME LauncherIInv, SurvivorIInv, NEW s \in Starts, BootApp(s)
    PROVE  SurvivorIInv'
<1>1. LauncherTypeOK /\ PushedFirst /\ CausesAtTheEnd
  BY DEF LauncherIInv, SurvivorIInv
<1>2. schema' = schema /\ client' = client /\ services' = services
  BY DEF BootApp, Quiet
<1>3. CASE /\ Boot(s) /\ step[s] = "boot" /\ step' = [step EXCEPT ![s] = "running"]
           /\ cause' = cause
  <2>1. backend' # None
    BY <1>3, NoneAssumption, LauncherAssumption DEF Boot
  <2>2. PushedFirst' /\ CausesAtTheEnd'
    BY <1>1, <1>2, <1>3 DEF PushedFirst, CausesAtTheEnd, LauncherTypeOK
  <2> QED
    BY <2>1, <2>2 DEF SurvivorIInv, SomeoneCarries
<1>4. CASE /\ backend # None \/ ~Ready \/ schema # "current"
           /\ Go(s, "boot", "broken") /\ Quiet
  <2>1. /\ step[s] = "boot" /\ backend' = backend
        /\ \A t \in Starts \ {s} : step'[t] = step[t]
    BY <1>1, <1>4, GoAt DEF Steps, Quiet, settings
  <2>2. PushedFirst' /\ CausesAtTheEnd' /\ (Undisturbed' => Undisturbed)
    BY <1>1, <1>2, <1>4, GoEarly DEF Steps
  <2>3. ASSUME Undisturbed', backend = None
        PROVE  \E t \in Starts : Carries(t)'
    <3>1. ~Carries(s)
      BY <1>1, <1>4, <2>1, <2>3 DEF Carries, PushedFirst
    <3>2. Begun
      BY <2>1 DEF Begun
    <3> QED
      BY <1>2, <2>1, <2>2, <2>3, <3>1, <3>2, OthersCarry
  <2> QED
    BY <2>1, <2>2, <2>3 DEF SurvivorIInv, SomeoneCarries
<1> QED
  BY <1>3, <1>4 DEF BootApp

LEMMA ScriptSurvived ==
    ASSUME LauncherIInv, SurvivorIInv, NEW s \in Starts, Script(s)
    PROVE  SurvivorIInv'
<1>1. LauncherTypeOK /\ PushedFirst
  BY DEF LauncherIInv, SurvivorIInv
<1>2. CASE Install(s) \/ WaitForDockerEngine(s) \/ WaitForHealthy(s) \/ Compose(s)
  <2>1. ASSUME NEW from \in {"install", "compose", "health"},
               NEW why \in {"install", "engine", "services"}, Fail(s, from, why)
        PROVE  SurvivorIInv'
    BY <2>1, FailSurvived DEF Causes
  <2>2. ASSUME NEW from \in {"idle", "install", "engine", "compose", "health"},
               NEW to \in {"install", "engine", "compose", "health", "clear"},
               Go(s, from, to), schema' = schema
        PROVE  SurvivorIInv'
    BY <2>2, GoCarries DEF Steps
  <2> QED
    BY <1>2, <2>1, <2>2 DEF Install, WaitForDockerEngine, WaitForHealthy, Compose, Quiet
<1>3. ASSUME NEW at \in {"cleanup", "seed"}, Needs(s, at)
      PROVE  SurvivorIInv'
  BY <1>3, FailSurvived DEF Needs, Causes
<1>4. CASE ClearProjectNodeProcesses(s) \/ ClearPrismaClientLocks(s)
  BY <1>4, ClearSurvived, GoCarries DEF ClearPrismaClientLocks, Steps, Preparation
<1>5. CASE Generate(s)
  BY <1>5, GoCarries DEF Generate, Steps, Preparation
<1>6. CASE Cleanup(s)
  <2>1. CASE Fail(s, "cleanup", "tables")
    BY <2>1, FailSurvived DEF Causes
  <2>2. CASE Go(s, "cleanup", "push") /\ Quiet
    BY <2>2, GoCarries DEF Quiet, Steps, Preparation
  <2> QED
    BY <1>3, <1>6, <2>1, <2>2 DEF Cleanup
<1>7. CASE Push(s)
  <2>1. ASSUME NEW why \in {"services", "prompt", "rows"}, Fail(s, "push", why)
        PROVE  SurvivorIInv'
    BY <2>1, FailSurvived DEF Causes
  <2>2. CASE Go(s, "push", "seed") /\ schema' = "current" /\ client' = TRUE
    BY <2>2, GoCarries DEF Steps, Preparation
  <2> QED
    BY <1>7, <2>1, <2>2 DEF Push
<1>8. CASE Seed(s)
  <2>1. CASE /\ Ready /\ Go(s, "seed", "ports")
             /\ UNCHANGED <<engine, services, schema, duplicates, client>>
    <3>1. schema' = "current" /\ Ready'
      BY <1>1, <2>1 DEF PushedFirst, Go, Ready
    <3> QED
      BY <2>1, <3>1, GoCarries DEF Steps
  <2> QED
    BY <1>3, <1>8, <2>1 DEF Seed
<1>9. CASE ClearPorts(s) \/ Spawn(s) \/ BootApp(s)
  BY <1>9, ClearPortsSurvived, SpawnSurvived, BootAppSurvived
<1> QED
  BY <1>2, <1>4, <1>5, <1>6, <1>7, <1>8, <1>9 DEF Script

\* A crash, an interrupt or a stop disturbs: nothing is promised then.
LEMMA EndSurvived ==
    ASSUME LauncherIInv, SurvivorIInv, NEW s \in Starts, Crash(s) \/ Interrupt(s)
    PROVE  SurvivorIInv'
<1>1. LauncherTypeOK /\ PushedFirst /\ CausesAtTheEnd
  BY DEF LauncherIInv, SurvivorIInv
<1>2. /\ step'[s] \in {"broken", "ended"} /\ cause'[s] \in {"crash", "interrupt"}
      /\ \A t \in Starts \ {s} : step'[t] = step[t] /\ cause'[t] = cause[t]
      /\ schema' = schema
  BY <1>1 DEF Crash, Interrupt, LauncherTypeOK
<1>3. ~Undisturbed'
  BY <1>2 DEF Undisturbed
<1>4. PushedFirst' /\ CausesAtTheEnd'
  BY <1>1, <1>2 DEF PushedFirst, CausesAtTheEnd
<1> QED
  BY <1>3, <1>4 DEF SurvivorIInv, SomeoneCarries

\* Steps that leave the starts where they are.
LEMMA OtherSurvived ==
    ASSUME LauncherIInv, SurvivorIInv, UNCHANGED <<step, cause, backend>>,
           \/ \E z \in Stops : KillApps(z) \/ Down(z)
           \/ EngineUp \/ Healthy \/ UNCHANGED machine
    PROVE  SurvivorIInv'
<1>1. LauncherTypeOK /\ PushedFirst /\ CausesAtTheEnd /\ SomeoneCarries
  BY DEF LauncherIInv, SurvivorIInv
<1>2. schema' = schema
  BY DEF KillApps, Down, EngineUp, Healthy, machine
<1>3. PushedFirst' /\ CausesAtTheEnd'
  BY <1>1, <1>2 DEF PushedFirst, CausesAtTheEnd
<1>4. CASE \E z \in Stops : KillApps(z) \/ Down(z)
  <2>1. ~Undisturbed'
    BY <1>1, <1>4 DEF KillApps, Down, Undisturbed, LauncherTypeOK
  <2> QED
    BY <1>3, <2>1 DEF SurvivorIInv, SomeoneCarries
<1>5. CASE EngineUp \/ Healthy \/ UNCHANGED machine
  <2>1. /\ stopping' = stopping /\ client' = client
        /\ services = "healthy" => services' = "healthy"
    BY <1>5 DEF EngineUp, Healthy, machine
  <2>2. Undisturbed' /\ Begun' => Undisturbed /\ Begun
    BY <2>1 DEF Undisturbed, Begun
  <2>3. \A t \in Starts : Carries(t) => Carries(t)'
    BY <2>1 DEF Carries, Ready
  <2> QED
    BY <1>1, <1>3, <2>2, <2>3 DEF SurvivorIInv, SomeoneCarries
<1> QED
  BY <1>4, <1>5

LEMMA SurvivorNext ==
    ASSUME LauncherIInv, SurvivorIInv, [Next]_vars
    PROVE  SurvivorIInv'
<1>1. ASSUME NEW s \in Starts, Script(s) \/ Crash(s) \/ Interrupt(s)
      PROVE  SurvivorIInv'
  BY <1>1, ScriptSurvived, EndSurvived
<1>2. CASE (\E z \in Stops : KillApps(z) \/ Down(z)) \/ EngineUp \/ Healthy
  <2>1. UNCHANGED <<step, cause, backend>>
    BY <1>2 DEF KillApps, Down, EngineUp, Healthy, settings
  <2> QED
    BY <1>2, <2>1, OtherSurvived
<1>3. CASE (Browse \/ Serve \/ \E r \in Requests : ServeNothing(r)) /\ UNCHANGED machine
  <2>1. UNCHANGED <<step, cause, backend>>
    BY <1>3, RequestsKeepBackend DEF machine
  <2> QED
    BY <1>3, <2>1, OtherSurvived
<1>4. CASE UNCHANGED vars
  <2>1. UNCHANGED machine /\ UNCHANGED <<step, cause, backend>>
    BY <1>4 DEF vars, settings, machine
  <2> QED
    BY <2>1, OtherSurvived
<1> QED
  BY <1>1, <1>2, <1>3, <1>4 DEF Next

-----------------------------------------------------------------------------------
(* The theorems. *)

\* The launcher's variables keep their types, whichever scripts overlap.
THEOREM LauncherTypeCorrect == Spec => []LauncherTypeOK
<1>1. Spec => []LauncherIInv
  BY LauncherInit, LauncherNext, PTL DEF Spec
<1> QED
  BY <1>1, PTL DEF LauncherIInv

\* However many starts and stops overlap, a backend that serves has its tables, a merchant
\* and its app, its containers unless a stop took them down, and the generated client
\* unless it came up just before another start removed it, which that start makes good.
THEOREM ServesPrepared == Spec => []BackendPrepared
<1>1. Spec => []LauncherIInv
  BY LauncherInit, LauncherNext, PTL DEF Spec
<1> QED
  BY <1>1, PTL DEF LauncherIInv

\* Starts that overlap may kill each other's apps and preparations and remove each other's
\* client, but unless something else goes wrong too, one of them is left with a backend.
THEOREM OneSurvives == Spec => []SurvivorRuns
<1>1. Spec => [](LauncherIInv /\ SurvivorIInv)
  BY LauncherInit, LauncherNext, SurvivorInit, SurvivorNext, PTL DEF Spec
<1>2. SurvivorIInv => SurvivorRuns
  BY DEF SurvivorIInv, SomeoneCarries, SurvivorRuns, Settled, Carries
<1> QED
  BY <1>1, <1>2, PTL

===================================================================================
