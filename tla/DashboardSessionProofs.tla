--------------------------- MODULE DashboardSessionProofs ---------------------------
(***************************************************************************)
(* Proofs about DashboardSession, for every set of accounts, e-mails and tabs and    *)
(* any number of logins and saves: IInv is inductive, and with it the e-mails stay    *)
(* unique, the cookies belong together, and a save changes another account than its    *)
(* page showed only when somebody signed in meanwhile.                              *)
(***************************************************************************)
EXTENDS DashboardSession, TLAPS

LEMMA InitIInv == Init => IInv
<1> SUFFICES ASSUME Init PROVE IInv
  OBVIOUS
<1> USE DEF Init, NoCookies, NoCall, NoSave
<1>1. TypeOK
  BY BoundsAssumption DEF TypeOK, Call, Profile, Save, Ids
<1>2. Known
  BY DEF Known
<1>3. \A t \in Tabs : ProfileExplained(t) /\ SaveExplained(t)
  BY DEF ProfileExplained, SaveExplained
<1>4. OneOwner
  BY DEF OneOwner
<1>5. CookiesTogether
  BY IdsAssumption DEF CookiesTogether
<1> QED
  BY <1>1, <1>2, <1>3, <1>4, <1>5 DEF IInv

-----------------------------------------------------------------------------------
(* What one step does to one tab. *)

\* A page that is shown is a page, with no message yet.
LEMMA ShowTyped ==
    ASSUME TypeOK, NEW t \in Tabs, NEW p \in {"login", "shell", "profile"}, Show(t, p)
    PROVE  /\ page' \in [Tabs -> {"login", "shell", "profile"}]
           /\ notice' \in [Tabs -> {"none", "name", "both"}]
           /\ \A v \in Tabs : notice'[v] \in {notice[v], "none"}
BY DEF TypeOK, Show

Cookies == [token : Users \cup {None}, role : BOOLEAN, merchant : Ids \cup {None}]

LEMMA NoCookiesTyped == NoCookies \in Cookies
BY DEF NoCookies, Cookies

\* A step that changes the login or logout call of one tab and no account, profile or
\* save, where the cookies stay or go.
LEMMA CallChanged ==
    ASSUME IInv, NEW t \in Tabs, NEW c \in Call, call' = [call EXCEPT ![t] = c],
           c.pc = "granted" => c.user # None /\ users[c.user] # None,
           UNCHANGED <<users, profile, save, wrote>>,
           cookies'.token \in {None, cookies.token}
    PROVE  call' \in [Tabs -> Call] /\ Known'
<1>1. call \in [Tabs -> Call] /\ Known
  BY DEF IInv, TypeOK
<1>2. call' \in [Tabs -> Call] /\ \A v \in Tabs : call'[v] = IF v = t THEN c ELSE call[v]
  BY <1>1
<1>3. \A v \in Tabs : call'[v].pc = "granted" =>
        call'[v].user # None /\ users[call'[v].user] # None
  BY <1>1, <1>2 DEF Known
<1> QED
  BY <1>1, <1>2, <1>3 DEF Known

\* What the invariant says of one save, here of the value q of save[t].
Kept(t, q) ==
    /\ q \in Save
    /\ q.pc # "idle" =>
           /\ q.email # None /\ q.shown # None /\ users[q.shown.user] # None
           /\ cookies.token \notin {None, q.shown.user} => "switch" \in q.overtaken
           /\ q.user \notin {None, q.shown.user} => "switch" \in q.overtaken
           /\ q.pc \in {"name", "put", "check", "write"}
                  /\ users[q.shown.user] # q.shown.email => q.overtaken # {}
           /\ q.pc = "done" /\ users[q.user] # q.email => q.overtaken # {}
    /\ q.pc \in {"check", "write", "done"} => q.user # None /\ users[q.user] # None
    /\ q.pc = "done" => wrote[t] # None

LEMMA SavesKept ==
    ASSUME IInv, NEW t \in Tabs
    PROVE  Kept(t, save[t])
BY DEF IInv, TypeOK, Known, SaveExplained, Kept

\* A step that changes the save of one tab and no account or profile.
LEMMA SaveChanged ==
    ASSUME IInv, NEW t \in Tabs, NEW q, Kept(t, q), save' = [save EXCEPT ![t] = q],
           UNCHANGED <<users, profile, call, wrote, overtaken>>,
           cookies'.token = cookies.token
    PROVE  /\ save' \in [Tabs -> Save] /\ Known'
           /\ \A v \in Tabs : ProfileExplained(v)' /\ SaveExplained(v)'
<1>1. save \in [Tabs -> Save] /\ Known /\ q \in Save
  BY DEF IInv, TypeOK, Kept
<1>2. /\ save' \in [Tabs -> Save]
      /\ \A v \in Tabs : save'[v] = IF v = t THEN q ELSE save[v]
  BY <1>1
<1>3. \A v \in Tabs : Kept(v, save'[v])
  BY <1>2, SavesKept
<1>4. Known'
  BY <1>1, <1>3 DEF Known, Kept
<1>5. ASSUME NEW v \in Tabs PROVE ProfileExplained(v)' /\ SaveExplained(v)'
  <2>1. ProfileExplained(v)'
    BY DEF IInv, ProfileExplained
  <2>2. SaveExplained(v)'
    BY <1>3 DEF SaveExplained, Kept
  <2> QED
    BY <2>1, <2>2
<1> QED
  BY <1>2, <1>4, <1>5

-----------------------------------------------------------------------------------
(* Pages, login and logout. *)

\* A step that leaves accounts, profiles and saves alone keeps what is said of them, as
\* long as the token stays or goes.
LEMMA SameAccounts ==
    ASSUME IInv,
           UNCHANGED <<users, profile, save, wrote, overtaken>>,
           cookies'.token \in {None, cookies.token}
    PROVE  \A t \in Tabs : ProfileExplained(t)' /\ SaveExplained(t)'
BY DEF IInv, ProfileExplained, SaveExplained

LEMMA ProxyStep ==
    ASSUME IInv, NEW t \in Tabs, NEW p \in {"login", "shell", "profile"}, proxy(t, p)
    PROVE  IInv'
<1>1. /\ TypeOK /\ Known /\ OneOwner /\ CookiesTogether
      /\ UNCHANGED <<users, profile, call, save, logins, saves, wrote, overtaken>>
  BY DEF IInv, proxy
<1>2. \/ cookies' = cookies \/ cookies' = NoCookies
  BY DEF proxy
<1>3. PICK q \in {"login", "shell", "profile"} : Show(t, q)
  BY DEF proxy
<1>4. cookies' \in Cookies
  BY <1>1, <1>2, NoCookiesTyped DEF TypeOK, Cookies
<1>5. TypeOK'
  BY <1>1, <1>3, <1>4, ShowTyped DEF TypeOK, Cookies
<1>6. Known'
  BY <1>1, <1>2 DEF Known, NoCookies
<1>7. \A v \in Tabs : ProfileExplained(v)' /\ SaveExplained(v)'
  BY <1>1, <1>2, SameAccounts DEF NoCookies
<1>8. OneOwner'
  BY <1>1, <1>3, ShowTyped DEF OneOwner
<1>9. CookiesTogether'
  BY <1>1, <1>2, IdsAssumption DEF CookiesTogether, NoCookies
<1> QED
  BY <1>5, <1>6, <1>7, <1>8, <1>9 DEF IInv

LEMMA ExpireStep ==
    ASSUME IInv, Expire
    PROVE  IInv'
<1> USE DEF IInv, Expire, NoCookies
<1>1. TypeOK'
  BY DEF TypeOK, Ids
<1>2. Known'
  BY DEF Known
<1>3. \A v \in Tabs : ProfileExplained(v)' /\ SaveExplained(v)'
  BY SameAccounts
<1>4. OneOwner'
  BY DEF OneOwner
<1>5. CookiesTogether'
  BY IdsAssumption DEF CookiesTogether
<1> QED
  BY <1>1, <1>2, <1>3, <1>4, <1>5

LEMMA LoginStep ==
    ASSUME IInv, NEW t \in Tabs, NEW e \in Emails, Login(t, e)
    PROVE  IInv'
<1>1. /\ TypeOK /\ Known /\ OneOwner /\ CookiesTogether
      /\ logins < MaxLogins /\ logins' = logins + 1
      /\ UNCHANGED <<users, cookies, page, profile, save, notice, saves, wrote, overtaken>>
  BY DEF IInv, Login
<1>2. PICK c \in Call : /\ call' = [call EXCEPT ![t] = c]
                        /\ c.pc = "granted" => c.user # None /\ users[c.user] # None
  <2>1. call[t] \in Call
    BY <1>1 DEF TypeOK
  <2>2. CASE call' = [call EXCEPT ![t].pc = "denied"]
    <3> DEFINE c == [call[t] EXCEPT !.pc = "denied"]
    <3>1. c \in Call /\ c.pc = "denied"
      BY <2>1 DEF Call
    <3>2. call' = [call EXCEPT ![t] = c]
      BY <2>2
    <3> QED
      BY <3>1, <3>2
  <2>3. CASE \E u \in Owners(e) : call' = [call EXCEPT ![t] = [pc |-> "granted", user |-> u]]
    <3>1. PICK u \in Owners(e) : call' = [call EXCEPT ![t] = [pc |-> "granted", user |-> u]]
      BY <2>3
    <3>2. u \in Users /\ users[u] # None /\ u # None
      BY IdsAssumption DEF Owners
    <3>3. [pc |-> "granted", user |-> u] \in Call
      BY <3>2 DEF Call
    <3> QED
      BY <3>1, <3>2, <3>3
  <2> QED
    BY <2>2, <2>3 DEF Login
<1>3. call' \in [Tabs -> Call] /\ Known'
  <2>1. cookies'.token \in {None, cookies.token} /\ UNCHANGED <<users, profile, save, wrote>>
    BY <1>1
  <2>2. c.pc = "granted" => c.user # None /\ users[c.user] # None
    BY <1>2
  <2>3. call' = [call EXCEPT ![t] = c]
    BY <1>2
  <2> QED
    BY <2>1, <2>2, <2>3, CallChanged
<1>4. logins' \in 0 .. MaxLogins
  BY <1>1, BoundsAssumption DEF TypeOK
<1>5. TypeOK'
  BY <1>1, <1>3, <1>4 DEF TypeOK
<1>6. \A v \in Tabs : ProfileExplained(v)' /\ SaveExplained(v)'
  BY <1>1, SameAccounts
<1>7. OneOwner' /\ CookiesTogether'
  BY <1>1 DEF OneOwner, CookiesTogether
<1> QED
  BY <1>3, <1>5, <1>6, <1>7 DEF IInv

LEMMA LoggedInStep ==
    ASSUME IInv, NEW t \in Tabs, LoggedIn(t)
    PROVE  IInv'
<1> DEFINE u == call[t].user
<1>1. /\ u \in Users /\ users[u] # None /\ call[t].pc = "granted"
      /\ call' = [call EXCEPT ![t] = NoCall]
      /\ cookies' = [token |-> u, role |-> TRUE, merchant |-> u]
      /\ Show(t, "shell")
      /\ UNCHANGED <<users, profile, logins, saves, wrote>>
  BY DEF IInv, LoggedIn, Known, TypeOK, Call
<1>2. \A v \in Tabs :
         /\ overtaken'[v] \in {overtaken[v], overtaken[v] \cup {"switch"}}
         /\ profile[v] # None /\ profile[v].user # u => "switch" \in overtaken'[v]
  BY DEF LoggedIn
<1>3. \A v \in Tabs :
         /\ save'[v] \in {save[v], [save[v] EXCEPT !.overtaken = @ \cup {"switch"}]}
         /\ save[v].shown # None /\ save[v].shown.user # u => "switch" \in save'[v].overtaken
  BY DEF LoggedIn, IInv, TypeOK, Save
<1>4. /\ overtaken' = [v \in Tabs |-> overtaken'[v]]
      /\ save' = [v \in Tabs |-> save'[v]]
  BY DEF LoggedIn
<1>5. \A v \in Tabs :
         /\ save'[v] \in Save
         /\ save'[v].pc = save[v].pc /\ save'[v].shown = save[v].shown
         /\ save'[v].email = save[v].email /\ save'[v].user = save[v].user
         /\ save[v].overtaken \subseteq save'[v].overtaken
  BY <1>3 DEF IInv, TypeOK, Save
<1>6. TypeOK'
  <2>1. save' \in [Tabs -> Save] /\ overtaken' \in [Tabs -> SUBSET {"switch", "rename"}]
    BY <1>2, <1>4, <1>5 DEF IInv, TypeOK
  <2> QED
    BY <1>1, <2>1 DEF IInv, TypeOK, Show, NoCall, Call, Ids
<1>7. Known'
  BY <1>1, <1>5 DEF IInv, Known, NoCall, TypeOK
<1>8. ASSUME NEW v \in Tabs PROVE ProfileExplained(v)' /\ SaveExplained(v)'
  <2>1. ProfileExplained(v)'
    BY <1>1, <1>2 DEF IInv, ProfileExplained
  <2>2. SaveExplained(v)'
    BY <1>1, <1>3, <1>5 DEF IInv, SaveExplained, Known
  <2> QED
    BY <2>1, <2>2
<1>9. OneOwner'
  BY <1>1 DEF IInv, OneOwner, Show, TypeOK
<1>10. CookiesTogether'
  BY <1>1, IdsAssumption DEF CookiesTogether
<1> QED
  BY <1>6, <1>7, <1>8, <1>9, <1>10 DEF IInv

LEMMA NotLoggedInStep ==
    ASSUME IInv, NEW t \in Tabs, NotLoggedIn(t) \/ Logout(t)
    PROVE  IInv'
<1>1. /\ TypeOK /\ OneOwner /\ CookiesTogether
      /\ UNCHANGED <<users, cookies, page, profile, save, notice, logins, saves,
                     wrote, overtaken>>
  BY DEF IInv, NotLoggedIn, Logout
<1>2. PICK c \in Call : call' = [call EXCEPT ![t] = c] /\ c.pc # "granted"
  <2>1. CASE NotLoggedIn(t)
    <3>1. NoCall \in Call /\ NoCall.pc # "granted"
      BY DEF NoCall, Call
    <3>2. call' = [call EXCEPT ![t] = NoCall]
      BY <2>1 DEF NotLoggedIn
    <3> QED
      BY <3>1, <3>2
  <2>2. CASE Logout(t)
    <3> DEFINE c == [call[t] EXCEPT !.pc = "logout"]
    <3>1. c \in Call /\ c.pc = "logout"
      BY <1>1 DEF TypeOK, Call
    <3>2. call' = [call EXCEPT ![t] = c]
      BY <2>2 DEF Logout
    <3> QED
      BY <3>1, <3>2
  <2> QED
    BY <2>1, <2>2
<1>3. call' \in [Tabs -> Call] /\ Known'
  BY <1>1, <1>2, CallChanged
<1>4. TypeOK'
  BY <1>1, <1>3 DEF TypeOK
<1>5. \A v \in Tabs : ProfileExplained(v)' /\ SaveExplained(v)'
  BY <1>1, SameAccounts
<1>6. OneOwner' /\ CookiesTogether'
  BY <1>1 DEF OneOwner, CookiesTogether
<1> QED
  BY <1>3, <1>4, <1>5, <1>6 DEF IInv

LEMMA LoggedOutStep ==
    ASSUME IInv, NEW t \in Tabs, LoggedOut(t)
    PROVE  IInv'
<1>1. /\ TypeOK /\ OneOwner /\ CookiesTogether
      /\ call' = [call EXCEPT ![t] = NoCall]
      /\ UNCHANGED <<users, profile, save, logins, saves, wrote, overtaken>>
  BY DEF IInv, LoggedOut
<1>2. \/ cookies' = NoCookies /\ Show(t, "login")
      \/ UNCHANGED <<cookies, page, notice>>
  BY DEF LoggedOut
<1>3. cookies'.token \in {None, cookies.token}
  BY <1>2 DEF NoCookies
<1>4. NoCall \in Call /\ NoCall.pc # "granted"
  BY DEF Call, NoCall
<1>5. call' \in [Tabs -> Call] /\ Known'
  BY <1>1, <1>3, <1>4, CallChanged
<1>6. /\ page' \in [Tabs -> {"login", "shell", "profile"}]
      /\ notice' \in [Tabs -> {"none", "name", "both"}]
      /\ \A v \in Tabs : notice'[v] \in {notice[v], "none"}
  BY <1>1, <1>2, ShowTyped DEF TypeOK
<1>7. cookies' \in Cookies
  BY <1>1, <1>2, NoCookiesTyped DEF TypeOK, Cookies
<1>8. TypeOK'
  BY <1>1, <1>5, <1>6, <1>7 DEF TypeOK, Cookies
<1>9. \A v \in Tabs : ProfileExplained(v)' /\ SaveExplained(v)'
  BY <1>1, <1>3, SameAccounts
<1>10. OneOwner'
  BY <1>1, <1>6 DEF OneOwner
<1>11. CookiesTogether'
  BY <1>1, <1>2, IdsAssumption DEF CookiesTogether, NoCookies
<1> QED
  BY <1>5, <1>8, <1>9, <1>10, <1>11 DEF IInv

-----------------------------------------------------------------------------------
(* The profile page. *)

\* Nothing but the saves changes, or also the merchant's cookies and the messages.
LEMMA SaveStep ==
    ASSUME IInv, NEW t \in Tabs, NEW q, Kept(t, q), save' = [save EXCEPT ![t] = q],
           UNCHANGED <<users, page, profile, call, logins, saves, wrote, overtaken>>,
           \/ cookies' = cookies
           \/ cookies' = [cookies EXCEPT !.merchant = "merchant"],
           notice' \in [Tabs -> {"none", "name", "both"}],
           \A v \in Tabs : notice'[v] = "both" => notice[v] = "both"
    PROVE  IInv'
<1>1. TypeOK /\ OneOwner /\ CookiesTogether
  BY DEF IInv
<1>2. /\ cookies' \in Cookies
      /\ cookies'.token = cookies.token /\ cookies'.role = cookies.role
      /\ cookies'.merchant \in {cookies.merchant, "merchant"}
  BY <1>1 DEF TypeOK, Cookies, Ids
<1>3. /\ save' \in [Tabs -> Save] /\ Known'
      /\ \A v \in Tabs : ProfileExplained(v)' /\ SaveExplained(v)'
  BY <1>2, SaveChanged
<1>4. TypeOK'
  BY <1>1, <1>2, <1>3 DEF TypeOK, Cookies
<1>5. OneOwner'
  BY <1>1 DEF OneOwner
<1>6. CookiesTogether'
  BY <1>1, <1>2, IdsAssumption DEF CookiesTogether
<1> QED
  BY <1>3, <1>4, <1>5, <1>6 DEF IInv

LEMMA NoSaveKept == \A t \in Tabs : Kept(t, NoSave)
BY DEF Kept, NoSave, Save

LEMMA LoadProfileStep ==
    ASSUME IInv, NEW t \in Tabs, LoadProfile(t)
    PROVE  IInv'
<1> DEFINE u == cookies.token
           p == [user |-> u, email |-> users[u]]
<1>1. /\ TypeOK /\ Known /\ OneOwner /\ CookiesTogether
      /\ u # None
      /\ profile' = [profile EXCEPT ![t] = p] /\ overtaken' = [overtaken EXCEPT ![t] = {}]
      /\ UNCHANGED <<users, cookies, page, call, save, notice, logins, saves, wrote>>
  BY DEF IInv, LoadProfile
<1>2. u \in Users /\ users[u] \in Emails /\ users[u] # None
  BY <1>1 DEF TypeOK, Known
<1>3. p \in Profile /\ p.user = u /\ p.email = users[u]
  BY <1>2 DEF Profile
<1>4. /\ profile' \in [Tabs -> Profile \cup {None}]
      /\ \A v \in Tabs : profile'[v] = IF v = t THEN p ELSE profile[v]
  BY <1>1, <1>3 DEF TypeOK
<1>5. /\ overtaken' \in [Tabs -> SUBSET {"switch", "rename"}]
      /\ \A v \in Tabs : overtaken'[v] = IF v = t THEN {} ELSE overtaken[v]
  BY <1>1 DEF TypeOK
<1>6. TypeOK'
  BY <1>1, <1>4, <1>5 DEF TypeOK
<1>7. Known'
  BY <1>1, <1>2, <1>3, <1>4 DEF Known
<1>8. ASSUME NEW v \in Tabs PROVE ProfileExplained(v)' /\ SaveExplained(v)'
  <2>1. ProfileExplained(v)'
    BY <1>1, <1>2, <1>3, <1>4, <1>5 DEF IInv, ProfileExplained
  <2>2. SaveExplained(v)'
    BY <1>1 DEF IInv, SaveExplained
  <2> QED
    BY <2>1, <2>2
<1>9. OneOwner' /\ CookiesTogether'
  BY <1>1 DEF OneOwner, CookiesTogether
<1> QED
  BY <1>6, <1>7, <1>8, <1>9 DEF IInv

LEMMA SubmitStep ==
    ASSUME IInv, NEW t \in Tabs, NEW e \in Emails, Submit(t, e)
    PROVE  IInv'
<1> DEFINE q == [pc |-> "name", shown |-> profile[t], email |-> e, user |-> None,
                 overtaken |-> overtaken[t]]
<1>1. /\ TypeOK /\ Known /\ OneOwner /\ CookiesTogether
      /\ profile[t] # None
      /\ saves < MaxSaves /\ saves' = saves + 1
      /\ save' = [save EXCEPT ![t] = q]
      /\ notice' = [notice EXCEPT ![t] = "none"] /\ wrote' = [wrote EXCEPT ![t] = None]
      /\ UNCHANGED <<users, cookies, page, profile, call, logins, overtaken>>
  BY DEF IInv, Submit
<1>2. /\ q \in Save /\ q.pc = "name" /\ q.shown = profile[t] /\ q.email = e
      /\ q.user = None /\ q.overtaken = overtaken[t]
  BY <1>1 DEF TypeOK, Save
<1>3. ProfileExplained(t) /\ e # None /\ users[profile[t].user] # None
  BY <1>1, IdsAssumption DEF IInv, Known
<1>4. /\ save' \in [Tabs -> Save]
      /\ \A v \in Tabs : save'[v] = IF v = t THEN q ELSE save[v]
  BY <1>1, <1>2 DEF TypeOK
<1>5. /\ notice' \in [Tabs -> {"none", "name", "both"}]
      /\ wrote' \in [Tabs -> Profile \cup {None}]
      /\ \A v \in Tabs : notice'[v] = IF v = t THEN "none" ELSE notice[v]
      /\ \A v \in Tabs : wrote'[v] = IF v = t THEN None ELSE wrote[v]
  BY <1>1 DEF TypeOK
<1>6. saves' \in 0 .. MaxSaves
  BY <1>1, BoundsAssumption DEF TypeOK
<1>7. TypeOK'
  BY <1>1, <1>4, <1>5, <1>6 DEF TypeOK
<1>8. Known'
  BY <1>1, <1>2, <1>3, <1>4, <1>5 DEF Known
<1>9. ASSUME NEW v \in Tabs PROVE ProfileExplained(v)' /\ SaveExplained(v)'
  <2>1. ProfileExplained(v)'
    BY <1>1 DEF IInv, ProfileExplained
  <2>2. CASE v = t
    BY <1>1, <1>2, <1>3, <1>4, <2>2 DEF ProfileExplained, SaveExplained
  <2>3. CASE v # t
    <3>1. save'[v] = save[v] /\ UNCHANGED <<users, cookies>> /\ SaveExplained(v)
      BY <1>1, <1>4, <2>3 DEF IInv
    <3> QED
      BY <1>1, <2>1, <3>1 DEF SaveExplained
  <2> QED
    BY <2>1, <2>2, <2>3
<1>10. OneOwner' /\ CookiesTogether'
  BY <1>1, <1>5 DEF OneOwner, CookiesTogether
<1> QED
  BY <1>7, <1>8, <1>9, <1>10 DEF IInv

LEMMA NotifyTyped ==
    ASSUME TypeOK, NEW t \in Tabs, NEW n \in {"name", "both"}, Notify(t, n)
    PROVE  /\ notice' \in [Tabs -> {"none", "name", "both"}]
           /\ \A v \in Tabs : notice'[v] = notice[v] \/ (v = t /\ notice'[v] = n)
BY DEF TypeOK, Notify

LEMMA NameSavedStep ==
    ASSUME IInv, NEW t \in Tabs, NameSaved(t)
    PROVE  IInv'
<1>1. /\ TypeOK /\ save[t].pc = "name" /\ Kept(t, save[t])
      /\ UNCHANGED <<users, page, profile, call, logins, saves, wrote, overtaken>>
  BY SavesKept DEF IInv, NameSaved
<1>2. CASE /\ save' = [save EXCEPT ![t].pc = "put"]
           /\ cookies' = [cookies EXCEPT !.merchant = "merchant"]
           /\ Notify(t, "name")
  <2> DEFINE q == [save[t] EXCEPT !.pc = "put"]
  <2>1. /\ q \in Save /\ q.pc = "put" /\ q.shown = save[t].shown
        /\ q.email = save[t].email /\ q.user = save[t].user
        /\ q.overtaken = save[t].overtaken
    BY <1>1 DEF Kept, Save
  <2>2. Kept(t, q)
    BY <1>1, <2>1 DEF Kept
  <2>3. save' = [save EXCEPT ![t] = q]
    BY <1>2
  <2>4. /\ notice' \in [Tabs -> {"none", "name", "both"}]
        /\ \A v \in Tabs : notice'[v] = "both" => notice[v] = "both"
    BY <1>1, <1>2, NotifyTyped
  <2> HIDE DEF q
  <2> QED
    BY <1>1, <1>2, <2>2, <2>3, <2>4, SaveStep
<1>3. CASE save' = [save EXCEPT ![t] = NoSave] /\ UNCHANGED <<cookies, notice>>
  <2>1. notice' \in [Tabs -> {"none", "name", "both"}]
    BY <1>1, <1>3 DEF TypeOK
  <2> QED
    BY <1>1, <1>3, <2>1, SaveStep, NoSaveKept
<1> QED
  BY <1>2, <1>3 DEF NameSaved

LEMMA PutStep ==
    ASSUME IInv, NEW t \in Tabs, Put(t)
    PROVE  IInv'
<1>1. /\ TypeOK /\ Known /\ save[t].pc = "put" /\ Kept(t, save[t])
      /\ UNCHANGED <<users, cookies, page, profile, call, notice, logins, saves,
                     wrote, overtaken>>
  BY SavesKept DEF IInv, Put
<1>2. /\ notice' \in [Tabs -> {"none", "name", "both"}]
      /\ \A v \in Tabs : notice'[v] = "both" => notice[v] = "both"
  BY <1>1 DEF TypeOK
<1>3. PICK q : Kept(t, q) /\ save' = [save EXCEPT ![t] = q]
  <2>1. CASE /\ cookies.token # None
             /\ save' = [save EXCEPT ![t].pc = "check", ![t].user = cookies.token]
    <3> DEFINE q == [save[t] EXCEPT !.pc = "check", !.user = cookies.token]
    <3>1. cookies.token \in Users /\ users[cookies.token] # None
      BY <1>1, <2>1 DEF TypeOK, Known
    <3>2. /\ q \in Save /\ q.pc = "check" /\ q.shown = save[t].shown
          /\ q.email = save[t].email /\ q.user = cookies.token
          /\ q.overtaken = save[t].overtaken
      BY <1>1, <3>1 DEF Kept, Save
    <3>3. Kept(t, q)
      BY <1>1, <2>1, <3>1, <3>2 DEF Kept
    <3>4. save' = [save EXCEPT ![t] = q]
      BY <1>1, <2>1 DEF TypeOK, Save
    <3> QED
      BY <3>3, <3>4
  <2>2. CASE save' = [save EXCEPT ![t].pc = "refused"]
    <3> DEFINE q == [save[t] EXCEPT !.pc = "refused"]
    <3>1. /\ q \in Save /\ q.pc = "refused" /\ q.shown = save[t].shown
          /\ q.email = save[t].email /\ q.user = save[t].user
          /\ q.overtaken = save[t].overtaken
      BY <1>1 DEF Kept, Save
    <3>2. Kept(t, q)
      BY <1>1, <3>1 DEF Kept
    <3>3. save' = [save EXCEPT ![t] = q]
      BY <2>2
    <3> QED
      BY <3>2, <3>3
  <2> QED
    BY <2>1, <2>2 DEF Put
<1> QED
  BY <1>1, <1>2, <1>3, SaveStep

\* A save that is refused, whichever way, keeps what is said of it.
LEMMA RefusedKept ==
    ASSUME IInv, NEW t \in Tabs, save[t].pc # "idle", NEW pc \in {"write", "refused"},
           pc = "write" => save[t].pc = "check"
    PROVE  Kept(t, [save[t] EXCEPT !.pc = pc])
<1> DEFINE q == [save[t] EXCEPT !.pc = pc]
<1>1. Kept(t, save[t])
  BY SavesKept
<1>2. /\ q \in Save /\ q.pc = pc /\ q.shown = save[t].shown
      /\ q.email = save[t].email /\ q.user = save[t].user
      /\ q.overtaken = save[t].overtaken
  BY <1>1 DEF Kept, Save
<1> QED
  BY <1>1, <1>2 DEF Kept

LEMMA CheckStep ==
    ASSUME IInv, NEW t \in Tabs, Check(t)
    PROVE  IInv'
<1>1. /\ TypeOK /\ save[t].pc = "check"
      /\ UNCHANGED <<users, cookies, page, profile, call, notice, logins, saves,
                     wrote, overtaken>>
  BY DEF IInv, Check
<1>2. /\ notice' \in [Tabs -> {"none", "name", "both"}]
      /\ \A v \in Tabs : notice'[v] = "both" => notice[v] = "both"
  BY <1>1 DEF TypeOK
<1>3. PICK pc \in {"write", "refused"} : save' = [save EXCEPT ![t].pc = pc]
  BY DEF Check
<1>4. save' = [save EXCEPT ![t] = [save[t] EXCEPT !.pc = pc]]
  BY <1>3
<1>5. Kept(t, [save[t] EXCEPT !.pc = pc])
  BY <1>1, RefusedKept
<1> QED
  BY <1>1, <1>2, <1>4, <1>5, SaveStep

LEMMA NotSavedStep ==
    ASSUME IInv, NEW t \in Tabs, NotSaved(t)
    PROVE  IInv'
<1>1. /\ TypeOK /\ save' = [save EXCEPT ![t] = NoSave]
      /\ UNCHANGED <<users, cookies, page, profile, call, notice, logins, saves,
                     wrote, overtaken>>
  BY DEF IInv, NotSaved
<1>2. /\ notice' \in [Tabs -> {"none", "name", "both"}]
      /\ \A v \in Tabs : notice'[v] = "both" => notice[v] = "both"
  BY <1>1 DEF TypeOK
<1> QED
  BY <1>1, <1>2, NoSaveKept, SaveStep

\* The row that is written is there, no other row has the e-mail, and what was loaded of
\* the row before is overtaken.
LEMMA StoreStep ==
    ASSUME IInv, NEW t \in Tabs, save[t].pc = "write",
           Owners(save[t].email) \subseteq {save[t].user},
           Store(t, save[t].user, save[t].email),
           UNCHANGED <<cookies, page, profile, call, notice, logins, saves>>
    PROVE  IInv'
<1> DEFINE u == save[t].user
           e == save[t].email
           Outdated(p) == users[u] # e /\ p # None /\ p.user = u
<1>1. /\ TypeOK /\ Known /\ OneOwner /\ CookiesTogether /\ Kept(t, save[t])
      /\ \A v \in Tabs : Kept(v, save[v]) /\ ProfileExplained(v)
  BY SavesKept DEF IInv
<1>2. /\ u \in Users /\ e \in Emails /\ u # None /\ e # None /\ users[u] # None
      /\ \A w \in Users : users[w] = e => w = u
  BY <1>1 DEF Kept, Save, Owners
<1>3. /\ users' \in [Users -> Emails \cup {None}]
      /\ \A w \in Users : users'[w] = IF w = u THEN e ELSE users[w]
  BY <1>1, <1>2 DEF Store, TypeOK
<1>4. /\ wrote' \in [Tabs -> Profile \cup {None}]
      /\ wrote'[t] # None /\ \A v \in Tabs : v # t => wrote'[v] = wrote[v]
  <2>1. [user |-> u, email |-> e] \in Profile /\ [user |-> u, email |-> e] # None
    BY <1>2, ProfileAssumption DEF Profile
  <2> QED
    BY <1>1, <2>1 DEF Store, TypeOK
<1>5. /\ overtaken' \in [Tabs -> SUBSET {"switch", "rename"}]
      /\ \A v \in Tabs : overtaken[v] \subseteq overtaken'[v]
      /\ \A v \in Tabs : Outdated(profile[v]) => "rename" \in overtaken'[v]
  BY <1>1 DEF Store, TypeOK
<1>6. \A v \in Tabs :
         /\ save'[v] \in Save
         /\ save'[v].pc = IF v = t THEN "done" ELSE save[v].pc
         /\ save'[v].shown = save[v].shown
         /\ save'[v].email = save[v].email /\ save'[v].user = save[v].user
         /\ save[v].overtaken \subseteq save'[v].overtaken
         /\ v # t /\ Outdated(save[v].shown) => "rename" \in save'[v].overtaken
  BY <1>1 DEF Store, Kept, Save
<1>7. save' \in [Tabs -> Save]
  BY <1>6 DEF Store
<1>8. TypeOK'
  BY <1>1, <1>3, <1>4, <1>5, <1>7 DEF TypeOK
<1>9. Known'
  <2>1. \A w \in Users : users[w] # None => users'[w] # None
    BY <1>2, <1>3
  <2>2. cookies.token # None => users'[cookies.token] # None
    BY <1>1, <2>1 DEF Known, TypeOK
  <2>3. ASSUME NEW v \in Tabs
        PROVE  /\ call[v].pc = "granted" => call[v].user # None /\ users'[call[v].user] # None
               /\ profile[v] # None => users'[profile[v].user] # None
    BY <1>1, <2>1 DEF Known, TypeOK, Call, Profile
  <2>4. ASSUME NEW v \in Tabs
        PROVE  /\ save'[v].pc # "idle" =>
                     /\ save'[v].email # None /\ save'[v].shown # None
                     /\ users'[save'[v].shown.user] # None
               /\ save'[v].pc \in {"check", "write", "done"} =>
                     save'[v].user # None /\ users'[save'[v].user] # None
               /\ save'[v].pc = "done" => wrote'[v] # None
    <3>1. save'[v].shown # None => save'[v].shown.user \in Users
      BY <1>6 DEF Save, Profile
    <3>2. save'[v].user # None => save'[v].user \in Users
      BY <1>6 DEF Save
    <3> QED
      BY <1>1, <1>4, <1>6, <2>1, <3>1, <3>2 DEF Kept
  <2> QED
    BY <1>1, <2>2, <2>3, <2>4 DEF Known
<1>10. ASSUME NEW v \in Tabs PROVE ProfileExplained(v)' /\ SaveExplained(v)'
  <2>1. ProfileExplained(v)'
    <3>1. profile[v] # None => profile[v].user \in Users
      BY <1>1 DEF TypeOK, Profile
    <3>2. profile[v] # None /\ users'[profile[v].user] # profile[v].email
            => overtaken'[v] # {}
      BY <1>1, <1>2, <1>3, <1>5, <3>1 DEF ProfileExplained
    <3> QED
      BY <1>1, <1>5, <3>2 DEF ProfileExplained
  <2>2. SaveExplained(v)'
    <3> DEFINE q == save'[v]
    <3> SUFFICES ASSUME q.pc # "idle" PROVE SaveExplained(v)'
      BY DEF SaveExplained
    <3>1. save[v].pc # "idle" /\ Kept(v, save[v])
      BY <1>1, <1>6
    <3>2. /\ q.shown # None /\ q.shown.user \in Users
          /\ q.user # None => q.user \in Users
      BY <1>6, <3>1 DEF Kept, Save, Profile
    <3>3. /\ cookies.token \notin {None, q.shown.user} => "switch" \in q.overtaken
          /\ q.user \notin {None, q.shown.user} => "switch" \in q.overtaken
      BY <1>6, <3>1 DEF Kept
    <3>4. q.pc \in {"name", "put", "check", "write"}
              /\ users'[q.shown.user] # q.shown.email => q.overtaken # {}
      BY <1>2, <1>3, <1>6, <3>1, <3>2 DEF Kept
    <3>5. q.pc = "done" /\ users'[q.user] # q.email => q.overtaken # {}
      <4>1. CASE v = t
        BY <1>2, <1>3, <1>6, <4>1
      <4>2. CASE v # t
        BY <1>2, <1>3, <1>6, <3>1, <3>2, <4>2 DEF Kept
      <4> QED
        BY <4>1, <4>2
    <3> QED
      BY <1>1, <3>3, <3>4, <3>5 DEF SaveExplained
  <2> QED
    BY <2>1, <2>2
<1>11. OneOwner'
  BY <1>1, <1>2, <1>3, <1>4 DEF OneOwner
<1>12. CookiesTogether'
  BY <1>1 DEF CookiesTogether
<1> QED
  BY <1>8, <1>9, <1>10, <1>11, <1>12 DEF IInv

LEMMA WriteStep ==
    ASSUME IInv, NEW t \in Tabs, Write(t)
    PROVE  IInv'
<1>1. /\ TypeOK /\ save[t].pc = "write"
      /\ UNCHANGED <<cookies, page, profile, call, notice, logins, saves>>
  BY DEF IInv, Write
<1>2. CASE /\ Owners(save[t].email) \subseteq {save[t].user}
           /\ Store(t, save[t].user, save[t].email)
  BY <1>1, <1>2, StoreStep
<1>3. CASE /\ save' = [save EXCEPT ![t].pc = "refused"]
           /\ UNCHANGED <<users, wrote, overtaken>>
  <2>1. save' = [save EXCEPT ![t] = [save[t] EXCEPT !.pc = "refused"]]
    BY <1>3
  <2>2. Kept(t, [save[t] EXCEPT !.pc = "refused"])
    BY <1>1, RefusedKept
  <2>3. /\ notice' \in [Tabs -> {"none", "name", "both"}]
        /\ \A v \in Tabs : notice'[v] = "both" => notice[v] = "both"
    BY <1>1 DEF TypeOK
  <2> QED
    BY <1>1, <1>3, <2>1, <2>2, <2>3, SaveStep
<1> QED
  BY <1>2, <1>3 DEF Write

LEMMA SavedStep ==
    ASSUME IInv, NEW t \in Tabs, Saved(t)
    PROVE  IInv'
<1> DEFINE p == [user |-> save[t].user, email |-> save[t].email]
<1>1. /\ TypeOK /\ Known /\ OneOwner /\ CookiesTogether /\ Kept(t, save[t])
      /\ save[t].pc = "done"
      /\ profile' = [profile EXCEPT ![t] = p]
      /\ overtaken' = [overtaken EXCEPT ![t] = @ \cup save[t].overtaken]
      /\ Notify(t, "both")
      /\ save' = [save EXCEPT ![t] = NoSave]
      /\ UNCHANGED <<users, cookies, page, call, logins, saves, wrote>>
  BY SavesKept DEF IInv, Saved
<1>2. /\ p \in Profile /\ p.user = save[t].user /\ p.email = save[t].email
      /\ users[p.user] # None /\ save[t].overtaken \subseteq {"switch", "rename"}
      /\ wrote[t] # None
  BY <1>1 DEF Kept, Save, Profile
<1>3. /\ profile' \in [Tabs -> Profile \cup {None}]
      /\ \A v \in Tabs : profile'[v] = IF v = t THEN p ELSE profile[v]
  BY <1>1, <1>2 DEF TypeOK
<1>4. /\ overtaken' \in [Tabs -> SUBSET {"switch", "rename"}]
      /\ \A v \in Tabs : overtaken'[v] =
            IF v = t THEN overtaken[t] \cup save[t].overtaken ELSE overtaken[v]
  BY <1>1, <1>2 DEF TypeOK
<1>5. /\ notice' \in [Tabs -> {"none", "name", "both"}]
      /\ \A v \in Tabs : notice'[v] = notice[v] \/ v = t
  BY <1>1, NotifyTyped
<1>6. /\ NoSave \in Save /\ NoSave.pc = "idle"
      /\ save' \in [Tabs -> Save]
      /\ \A v \in Tabs : save'[v] = IF v = t THEN NoSave ELSE save[v]
  <2>1. NoSave \in Save /\ NoSave.pc = "idle"
    BY DEF NoSave, Save
  <2> QED
    BY <1>1, <2>1 DEF TypeOK
<1>7. TypeOK'
  BY <1>1, <1>3, <1>4, <1>5, <1>6 DEF TypeOK
<1>8. Known'
  BY <1>1, <1>2, <1>3, <1>6 DEF Known
<1>9. ASSUME NEW v \in Tabs PROVE ProfileExplained(v)' /\ SaveExplained(v)'
  <2>1. CASE v = t
    <3>1. /\ cookies.token \notin {None, p.user} => "switch" \in save[t].overtaken
          /\ users[p.user] # p.email => save[t].overtaken # {}
      BY <1>1, <1>2 DEF Kept
    <3>2. ProfileExplained(v)'
      BY <1>1, <1>3, <1>4, <2>1, <3>1 DEF ProfileExplained
    <3> QED
      BY <1>6, <2>1, <3>2 DEF SaveExplained
  <2>2. CASE v # t
    <3>1. /\ save'[v] = save[v] /\ profile'[v] = profile[v] /\ overtaken'[v] = overtaken[v]
          /\ ProfileExplained(v) /\ SaveExplained(v)
      BY <1>3, <1>4, <1>6, <2>2 DEF IInv
    <3> QED
      BY <1>1, <3>1 DEF ProfileExplained, SaveExplained
  <2> QED
    BY <2>1, <2>2
<1>10. OneOwner' /\ CookiesTogether'
  BY <1>1, <1>2, <1>5 DEF OneOwner, CookiesTogether
<1> QED
  BY <1>7, <1>8, <1>9, <1>10 DEF IInv

-----------------------------------------------------------------------------------
(* The seed, and the whole. *)

LEMMA SeedStep ==
    ASSUME IInv, Seed
    PROVE  IInv'
<1>1. /\ TypeOK /\ Known /\ OneOwner /\ CookiesTogether /\ Owners(SeedEmail) = {}
      /\ UNCHANGED <<cookies, page, profile, call, save, notice, logins, saves,
                     wrote, overtaken>>
  BY DEF IInv, Seed
<1>2. PICK u \in Owners(None) : users' = [users EXCEPT ![u] = SeedEmail]
  BY DEF Seed
<1>3. /\ u \in Users /\ users[u] = None /\ SeedEmail \in Emails /\ SeedEmail # None
      /\ users' \in [Users -> Emails \cup {None}]
      /\ \A w \in Users : users'[w] = IF w = u THEN SeedEmail ELSE users[w]
  BY <1>1, <1>2, SeedAssumption, IdsAssumption DEF TypeOK, Owners
<1>4. \A w \in Users : users[w] # None => users'[w] = users[w]
  BY <1>3
<1>5. TypeOK'
  BY <1>1, <1>3 DEF TypeOK
<1>6. Known'
  BY <1>1, <1>4 DEF Known, TypeOK, Call, Profile, Save
<1>7. ASSUME NEW v \in Tabs PROVE ProfileExplained(v)' /\ SaveExplained(v)'
  <2>1. /\ Kept(v, save[v]) /\ ProfileExplained(v) /\ profile[v] \in Profile \cup {None}
        /\ profile[v] # None => users[profile[v].user] # None
    BY <1>1, SavesKept DEF IInv, Known, TypeOK
  <2>2. ProfileExplained(v)'
    BY <1>1, <1>4, <2>1 DEF ProfileExplained, Profile
  <2>3. SaveExplained(v)'
    BY <1>1, <1>4, <2>1 DEF SaveExplained, Kept, Save, Profile
  <2> QED
    BY <2>2, <2>3
<1>8. OneOwner'
  BY <1>1, <1>3 DEF OneOwner, Owners
<1>9. CookiesTogether'
  BY <1>1 DEF CookiesTogether
<1> QED
  BY <1>5, <1>6, <1>7, <1>8, <1>9 DEF IInv

LEMMA NextIInv ==
    ASSUME IInv, [Next]_vars
    PROVE  IInv'
<1>1. ASSUME NEW t \in Tabs, Session(t)
      PROVE  IInv'
  BY <1>1, ProxyStep, LoginStep, LoggedInStep, NotLoggedInStep, LoggedOutStep DEF Session
<1>2. ASSUME NEW t \in Tabs, ProfilePage(t)
      PROVE  IInv'
  BY <1>2, LoadProfileStep, SubmitStep, NameSavedStep, PutStep, CheckStep, WriteStep,
     SavedStep, NotSavedStep DEF ProfilePage
<1>3. CASE UNCHANGED vars
  BY <1>3 DEF vars, IInv, TypeOK, Known, ProfileExplained, SaveExplained, OneOwner,
              CookiesTogether
<1> QED
  BY <1>1, <1>2, <1>3, ExpireStep, SeedStep DEF Next

\* Every reachable state of the accounts, the cookies and the tabs satisfies IInv.
THEOREM Inductive == Spec => []IInv
<1>1. Init => IInv
  BY InitIInv
<1>2. IInv /\ [Next]_vars => IInv'
  BY NextIInv
<1> QED
  BY <1>1, <1>2, PTL DEF Spec

\* Every variable of the session keeps its type, however many tabs and saves there are.
THEOREM TypeCorrect == Spec => []TypeOK
BY Inductive, PTL DEF IInv

\* updateCurrentUser's check and the unique index leave every e-mail with one account, and
\* a final message with a written save.
THEOREM EmailsUnique == Spec => []OneOwner
BY Inductive, PTL DEF IInv

\* A role goes with a token, and a user's id among the cookies with that user's token.
THEOREM CookiesAgree == Spec => []CookiesTogether
BY Inductive, PTL DEF IInv

Explained(u) ==
    users[u] \notin {None, users'[u]} =>
        \E t \in Tabs :
            LET q == save[t]
            IN  /\ q.pc = "write" /\ q.user = u /\ save'[t].pc = "done"
                /\ q.shown.user # u => "switch" \in q.overtaken
                /\ q.email = q.shown.email => q.overtaken # {}

LEMMA WriteExplained ==
    ASSUME IInv, NEW t \in Tabs, Write(t), NEW u \in Users
    PROVE  Explained(u)
<1> SUFFICES ASSUME users[u] \notin {None, users'[u]}
             PROVE  /\ save[t].pc = "write" /\ save[t].user = u /\ save'[t].pc = "done"
                    /\ save[t].shown.user # u => "switch" \in save[t].overtaken
                    /\ save[t].email = save[t].shown.email => save[t].overtaken # {}
  BY DEF Explained
<1>1. /\ TypeOK /\ Kept(t, save[t]) /\ save[t].pc = "write"
      /\ Store(t, save[t].user, save[t].email)
  BY SavesKept DEF IInv, Write
<1>2. /\ users' = [users EXCEPT ![save[t].user] = save[t].email]
      /\ save'[t] = [save[t] EXCEPT !.pc = "done"]
  BY <1>1 DEF Store
<1>3. save[t].user = u /\ users'[u] = save[t].email
  BY <1>1, <1>2 DEF TypeOK, Kept, Save
<1>4. save'[t].pc = "done"
  BY <1>1, <1>2 DEF Kept, Save
<1>5. save[t].shown.user # u => "switch" \in save[t].overtaken
  BY <1>1, <1>3 DEF Kept
<1>6. save[t].email = save[t].shown.email => save[t].overtaken # {}
  BY <1>1, <1>3, <1>5 DEF Kept
<1> QED
  BY <1>1, <1>3, <1>4, <1>5, <1>6

LEMMA StepExplained ==
    ASSUME IInv, [Next]_vars, NEW u \in Users
    PROVE  Explained(u)
<1>1. CASE \E t \in Tabs : Write(t)
  BY <1>1, WriteExplained
<1>2. CASE Seed
  <2>1. users[u] # None => users'[u] = users[u]
    BY <1>2 DEF Seed, Owners, IInv, TypeOK
  <2> QED
    BY <2>1 DEF Explained
<1>3. CASE users' = users
  BY <1>3 DEF Explained
<1>4. ASSUME NEW t \in Tabs, Session(t)
      PROVE  users' = users
  BY <1>4 DEF Session, proxy, Login, LoggedIn, NotLoggedIn, Logout, LoggedOut
<1>5. ASSUME NEW t \in Tabs, ProfilePage(t)
      PROVE  Write(t) \/ users' = users
  BY <1>5 DEF ProfilePage, LoadProfile, Submit, NameSaved, Put, Check, Saved, NotSaved
<1>6. Expire => users' = users
  BY DEF Expire
<1> QED
  BY <1>1, <1>2, <1>3, <1>4, <1>5, <1>6 DEF Next, vars

\* Only a save renames an account, and one that its page did not show, or back to the
\* e-mail shown, only after somebody signed in or the account was renamed.
THEOREM ChangesExplained == Spec => AccountChanges
<1>1. IInv /\ [Next]_vars => [\A u \in Users : Explained(u)]_vars
  BY StepExplained
<1>2. [\A u \in Users : Explained(u)]_vars
        => [\A u \in Users : users[u] \notin {None, users'[u]} =>
              \E t \in Tabs :
                  LET q == save[t]
                  IN  /\ q.pc = "write" /\ q.user = u /\ save'[t].pc = "done"
                      /\ q.shown.user # u => "switch" \in q.overtaken
                      /\ q.email = q.shown.email => q.overtaken # {}]_vars
  BY DEF Explained
<1> QED
  BY Inductive, <1>1, <1>2, PTL DEF Spec, AccountChanges

===================================================================================
