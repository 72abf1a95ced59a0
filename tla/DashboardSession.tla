------------------------------- MODULE DashboardSession ------------------------------
(***************************************************************************)
(* Accounts and sessions: the users table, login and the update of one's account   *)
(* (auth.service.ts), the Next.js routes and the proxy between browser and backend,  *)
(* the cookies that all tabs of a browser share, and in every tab the login page and   *)
(* the profile page with its cached login profile.                                *)
(*                                                                         *)
(* Saving the profile is two calls one after the other, the first with the API key,   *)
(* the second with whatever session the cookies hold by then.                        *)
(***************************************************************************)
EXTENDS Naturals

CONSTANTS
    Users,         \* ids of rows of the users table
    Emails,        \* e-mail addresses
    SeedEmail,     \* the administrator's in seed-admin.js
    Tabs,          \* tabs of one browser
    MaxLogins,     \* logins and
    MaxSaves,      \* saves ever made (bounds of the model)
    None           \* no row, no cookie, nothing cached

ASSUME SeedAssumption == SeedEmail \in Emails
ASSUME IdsAssumption == /\ None \notin Users \cup Emails \cup {"merchant"}
                        /\ "merchant" \notin Users
ASSUME BoundsAssumption == MaxLogins \in Nat /\ MaxSaves \in Nat

VARIABLES
    users,         \* the e-mail of every row
    cookies,       \* auth_token's user, user_role, merchant_id with merchant_name
    page,          \* the page of each tab; "shell" is any other protected one
    profile,       \* the cached ["login-profile"]
    call,          \* the login or logout call of each tab
    save,          \* the handleSubmit of the profile page, which outlives it
    notice,        \* successMessage
    logins, saves, \* how many were made
    wrote,         \* auxiliary: what the save wrote
    overtaken      \* auxiliary: what happened since a tab's profile was loaded

vars == <<users, cookies, page, profile, call, save, notice, logins, saves,
          wrote, overtaken>>

Ids == Users \cup {"merchant"}         \* a user's id, or the merchant's
Call == [pc : {"idle", "granted", "denied", "logout"}, user : Users \cup {None}]
Profile == [user : Users, email : Emails]
ASSUME ProfileAssumption == None \notin Profile
Save == [pc : {"idle", "name", "put", "check", "write", "done", "refused"},
         shown : Profile \cup {None}, email : Emails \cup {None},
         user : Users \cup {None}, overtaken : SUBSET {"switch", "rename"}]

NoCookies == [token |-> None, role |-> FALSE, merchant |-> None]
NoCall == [pc |-> "idle", user |-> None]
NoSave == [pc |-> "idle", shown |-> None, email |-> None, user |-> None, overtaken |-> {}]

Owners(e) == {u \in Users : users[u] = e}

TypeOK ==
    /\ users \in [Users -> Emails \cup {None}]
    /\ cookies \in [token : Users \cup {None}, role : BOOLEAN, merchant : Ids \cup {None}]
    /\ page \in [Tabs -> {"login", "shell", "profile"}]
    /\ profile \in [Tabs -> Profile \cup {None}]
    /\ call \in [Tabs -> Call] /\ save \in [Tabs -> Save]
    /\ notice \in [Tabs -> {"none", "name", "both"}]
    /\ logins \in 0 .. MaxLogins /\ saves \in 0 .. MaxSaves
    /\ wrote \in [Tabs -> Profile \cup {None}]
    /\ overtaken \in [Tabs -> SUBSET {"switch", "rename"}]

-----------------------------------------------------------------------------------
(* Pages. *)

\* A page is left: its state goes, its calls go on.  (A reload is a new tab, and the
\* end of an old one.)
Show(t, p) ==
    /\ page' = [page EXCEPT ![t] = p]
    /\ notice' = [notice EXCEPT ![t] = "none"]

\* proxy: without a token every protected page is the login page, and all cookies
\* go; with one the login page is the dashboard.
proxy(t, p) ==
    /\ page[t] # p
    /\ \/ /\ cookies.token # None
          /\ Show(t, IF p = "login" THEN "shell" ELSE p)
          /\ UNCHANGED cookies
       \/ /\ cookies.token = None
          /\ Show(t, "login")
          /\ cookies' = IF p = "login" THEN cookies ELSE NoCookies
    /\ UNCHANGED <<users, profile, call, save, logins, saves, wrote, overtaken>>

\* The access token and what login set with it are an hour old; a save may have
\* renewed the merchant's cookies, which go later.
Expire ==
    /\ cookies # NoCookies
    /\ cookies' = IF cookies.token # None /\ cookies.merchant = "merchant"
                    THEN [NoCookies EXCEPT !.merchant = "merchant"] ELSE NoCookies
    /\ UNCHANGED <<users, page, profile, call, save, notice, logins, saves,
                   wrote, overtaken>>

-----------------------------------------------------------------------------------
(* Login and logout. *)

\* AuthService.login behind the login route: the row by its e-mail, and the password is
\* its own or is not; or the backend is away.
Login(t, e) ==
    /\ page[t] = "login" /\ call[t].pc = "idle"
    /\ logins < MaxLogins /\ logins' = logins + 1
    /\ \/ \E u \in Owners(e) : call' = [call EXCEPT ![t] = [pc |-> "granted", user |-> u]]
       \/ call' = [call EXCEPT ![t].pc = "denied"]
    /\ UNCHANGED <<users, cookies, page, profile, save, notice, saves, wrote, overtaken>>

\* The answer: cookies, and the dashboard.  It says nothing of a merchant, so that
\* merchantId is the user's id.
LoggedIn(t) ==
    LET u == call[t].user
    IN  /\ call[t].pc = "granted"
        /\ call' = [call EXCEPT ![t] = NoCall]
        /\ cookies' = [token |-> u, role |-> TRUE, merchant |-> u]
        /\ Show(t, "shell")
        /\ overtaken' = [v \in Tabs |->
               IF profile[v] # None /\ profile[v].user # u
                 THEN overtaken[v] \cup {"switch"} ELSE overtaken[v]]
        /\ save' = [v \in Tabs |->
               IF save[v].shown # None /\ save[v].shown.user # u
                 THEN [save[v] EXCEPT !.overtaken = @ \cup {"switch"}] ELSE save[v]]
        /\ UNCHANGED <<users, profile, logins, saves, wrote>>

\* A refusal, or no answer: the page shows an error.
NotLoggedIn(t) ==
    /\ call[t].pc \in {"granted", "denied"}
    /\ call' = [call EXCEPT ![t] = NoCall]
    /\ UNCHANGED <<users, cookies, page, profile, save, notice, logins, saves,
                   wrote, overtaken>>

\* handleLogout.
Logout(t) ==
    /\ page[t] # "login" /\ call[t].pc = "idle"
    /\ call' = [call EXCEPT ![t].pc = "logout"]
    /\ UNCHANGED <<users, cookies, page, profile, save, notice, logins, saves,
                   wrote, overtaken>>

\* Mutant of LoggedOut: the merchant's cookies are forgotten.
LoggedOutPartly(t) ==
    /\ call[t].pc = "logout"
    /\ call' = [call EXCEPT ![t] = NoCall]
    /\ cookies' = [NoCookies EXCEPT !.merchant = cookies.merchant]
    /\ Show(t, "login")
    /\ UNCHANGED <<users, profile, save, logins, saves, wrote, overtaken>>

\* The logout route's answer clears the cookies; when the call is rejected, nothing is
\* cleared.  The query cache stays.
LoggedOut(t) ==
    /\ call[t].pc = "logout"
    /\ call' = [call EXCEPT ![t] = NoCall]
    /\ \/ cookies' = NoCookies /\ Show(t, "login")
       \/ UNCHANGED <<cookies, page, notice>>
    /\ UNCHANGED <<users, profile, save, logins, saves, wrote, overtaken>>

-----------------------------------------------------------------------------------
(* The profile page. *)

\* Mutant of LoadProfile: Next.js caches the fetch of the account route.
LoadProfileFromCache(t) ==
    /\ page[t] = "profile" /\ cookies.token # None
    /\ \E u \in Users :
           /\ users[u] # None
           /\ profile' = [profile EXCEPT ![t] = [user |-> u, email |-> users[u]]]
    /\ overtaken' = [overtaken EXCEPT ![t] = {}]
    /\ UNCHANGED <<users, cookies, page, call, save, notice, logins, saves, wrote>>

\* getLoginProfile, through the account route with the cookie's token, when nothing is
\* cached or it is older than 30 seconds.  One step: a profile counts as loaded when the
\* server reads the row, and an answer that arrives late, over a newer profile, is not
\* modelled.
LoadProfile(t) ==
    LET u == cookies.token
    IN  /\ page[t] = "profile" /\ u # None
        /\ profile' = [profile EXCEPT ![t] = [user |-> u, email |-> users[u]]]
        /\ overtaken' = [overtaken EXCEPT ![t] = {}]
        /\ UNCHANGED <<users, cookies, page, call, save, notice, logins, saves, wrote>>

\* handleSubmit with the e-mail of the form, the cached one or another; the button
\* waits for the save before (of its page: one at a time here).  Passwords that
\* differ go no further.
Submit(t, e) ==
    /\ page[t] = "profile" /\ profile[t] # None /\ save[t].pc = "idle"
    /\ saves < MaxSaves /\ saves' = saves + 1
    /\ save' = [save EXCEPT ![t] = [pc |-> "name", shown |-> profile[t], email |-> e,
                                    user |-> None, overtaken |-> overtaken[t]]]
    /\ notice' = [notice EXCEPT ![t] = "none"]
    /\ wrote' = [wrote EXCEPT ![t] = None]
    /\ UNCHANGED <<users, cookies, page, profile, call, logins, overtaken>>

Notify(t, n) ==
    notice' = IF page[t] = "profile" THEN [notice EXCEPT ![t] = n] ELSE notice

\* updateMerchantProfile, with the API key (MerchantSettings).  Its onSuccess writes
\* the cookies wherever the tab is by now; its failure ends the save.
NameSaved(t) ==
    /\ save[t].pc = "name"
    /\ \/ /\ save' = [save EXCEPT ![t].pc = "put"]
          /\ cookies' = [cookies EXCEPT !.merchant = "merchant"]
          /\ Notify(t, "name")
       \/ /\ save' = [save EXCEPT ![t] = NoSave]
          /\ UNCHANGED <<cookies, notice>>
    /\ UNCHANGED <<users, page, profile, call, logins, saves, wrote, overtaken>>

\* The account route takes the token from the cookies as they are now.
Put(t) ==
    /\ save[t].pc = "put"
    /\ \/ /\ cookies.token # None
          /\ save' = [save EXCEPT ![t].pc = "check", ![t].user = cookies.token]
       \/ save' = [save EXCEPT ![t].pc = "refused"]      \* 401, or no backend
    /\ UNCHANGED <<users, cookies, page, profile, call, notice, logins, saves,
                   wrote, overtaken>>

\* updateCurrentUser: the e-mail must not be another row's ...
Check(t) ==
    /\ save[t].pc = "check"
    /\ save' = [save EXCEPT ![t].pc =
           IF Owners(save[t].email) \subseteq {save[t].user} THEN "write" ELSE "refused"]
    /\ UNCHANGED <<users, cookies, page, profile, call, notice, logins, saves,
                   wrote, overtaken>>

\* The row is updated; what other tabs loaded of it may be out of date now.
Store(t, u, e) ==
    LET Outdated(p) == users[u] # e /\ p # None /\ p.user = u
    IN  /\ users' = [users EXCEPT ![u] = e]
        /\ wrote' = [wrote EXCEPT ![t] = [user |-> u, email |-> e]]
        /\ overtaken' = [v \in Tabs |->
               IF Outdated(profile[v]) THEN overtaken[v] \cup {"rename"} ELSE overtaken[v]]
        /\ save' = [v \in Tabs |->
               IF v = t THEN [save[t] EXCEPT !.pc = "done"]
               ELSE IF Outdated(save[v].shown)
                      THEN [save[v] EXCEPT !.overtaken = @ \cup {"rename"}]
                      ELSE save[v]]

\* Mutant of Write: no unique index on the e-mail.
WriteUnindexed(t) ==
    /\ save[t].pc = "write"
    /\ Store(t, save[t].user, save[t].email)
    /\ UNCHANGED <<cookies, page, profile, call, notice, logins, saves>>

\* ... and after the hashing of the password it is written.  The unique index makes
\* the write fail (500) when another row has the e-mail by now.
Write(t) ==
    LET u == save[t].user
        e == save[t].email
    IN  /\ save[t].pc = "write"
        /\ \/ Owners(e) \subseteq {u} /\ Store(t, u, e)
           \/ /\ ~(Owners(e) \subseteq {u})
              /\ save' = [save EXCEPT ![t].pc = "refused"]
              /\ UNCHANGED <<users, wrote, overtaken>>
        /\ UNCHANGED <<cookies, page, profile, call, notice, logins, saves>>

\* The answer of the second call becomes the cached profile, even if the page has loaded
\* a newer one meanwhile.
Saved(t) ==
    /\ save[t].pc = "done"
    /\ profile' = [profile EXCEPT ![t] = [user |-> save[t].user, email |-> save[t].email]]
    /\ overtaken' = [overtaken EXCEPT ![t] = @ \cup save[t].overtaken]
    /\ Notify(t, "both")
    /\ save' = [save EXCEPT ![t] = NoSave]
    /\ UNCHANGED <<users, cookies, page, call, logins, saves, wrote>>

\* A refusal, or no answer: an error appears beside the first call's success.
NotSaved(t) ==
    /\ save[t].pc \in {"done", "refused"}
    /\ save' = [save EXCEPT ![t] = NoSave]
    /\ UNCHANGED <<users, cookies, page, profile, call, notice, logins, saves,
                   wrote, overtaken>>

\* seed-admin.js, at every start of the launcher: the row with its e-mail, or a new one.
Seed ==
    /\ Owners(SeedEmail) = {}
    /\ \E u \in Owners(None) : users' = [users EXCEPT ![u] = SeedEmail]
    /\ UNCHANGED <<cookies, page, profile, call, save, notice, logins, saves,
                   wrote, overtaken>>

-----------------------------------------------------------------------------------
\* The seed has run once, or again after its account was renamed; nobody has signed in.
Init ==
    /\ users \in [Users -> Emails \cup {None}]
    /\ \E u \in Users : users[u] = SeedEmail
    /\ \A u, v \in Users : users[u] # None /\ users[u] = users[v] => u = v
    /\ cookies = NoCookies
    /\ page = [t \in Tabs |-> "login"]
    /\ profile = [t \in Tabs |-> None]
    /\ call = [t \in Tabs |-> NoCall]
    /\ save = [t \in Tabs |-> NoSave]
    /\ notice = [t \in Tabs |-> "none"]
    /\ logins = 0 /\ saves = 0
    /\ wrote = [t \in Tabs |-> None]
    /\ overtaken = [t \in Tabs |-> {}]

Session(t) ==
    \/ \E p \in {"login", "shell", "profile"} : proxy(t, p)
    \/ \E e \in Emails : Login(t, e)
    \/ LoggedIn(t) \/ NotLoggedIn(t) \/ Logout(t) \/ LoggedOut(t)

ProfilePage(t) ==
    \/ LoadProfile(t) \/ (\E e \in Emails : Submit(t, e))
    \/ NameSaved(t) \/ Put(t) \/ Check(t) \/ Write(t) \/ Saved(t) \/ NotSaved(t)

Next ==
    \/ \E t \in Tabs : Session(t) \/ ProfilePage(t)
    \/ Expire \/ Seed

Spec == Init /\ [][Next]_vars

-----------------------------------------------------------------------------------
(* Safety. *)

\* No two accounts share an e-mail, whichever requests passed the check together, and
\* the final message is shown only for a save that wrote the account.
OneOwner ==
    /\ \A u, v \in Users : users[u] # None /\ users[u] = users[v] => u = v
    /\ \A t \in Tabs : notice[t] = "both" => wrote[t] # None

\* What a login set together goes together: there is a role with a token and only then,
\* and an id of a user only with that user's token.  What survives a logout or the
\* hour is the merchant's id that a save wrote late.
CookiesTogether ==
    /\ cookies.role <=> cookies.token # None
    /\ cookies.merchant \in Users => cookies.token = cookies.merchant

\* An account's e-mail is changed by a save only, and a save changes another account
\* than its page showed, or puts back an e-mail its user left alone, only when
\* somebody signed in, or the account was renamed, after the server had read the profile
\* that the page shows, or while the save was under way that left it there.
AccountChanges ==
    [][\A u \in Users : users[u] \notin {None, users'[u]} =>
          \E t \in Tabs :
              LET q == save[t]
              IN  /\ q.pc = "write" /\ q.user = u /\ save'[t].pc = "done"
                  /\ q.shown.user # u => "switch" \in q.overtaken
                  /\ q.email = q.shown.email => q.overtaken # {}]_vars

-----------------------------------------------------------------------------------
(* The inductive invariant behind the three properties above. *)

\* Rows are never deleted, so that whoever is signed in, shown or written is there.
Known ==
    /\ cookies.token # None => users[cookies.token] # None
    /\ \A t \in Tabs :
        /\ call[t].pc = "granted" => call[t].user # None /\ users[call[t].user] # None
        /\ profile[t] # None => users[profile[t].user] # None
        /\ save[t].pc # "idle" =>
               /\ save[t].email # None /\ save[t].shown # None
               /\ users[save[t].shown.user] # None
        /\ save[t].pc \in {"check", "write", "done"} =>
               save[t].user # None /\ users[save[t].user] # None
        /\ save[t].pc = "done" => wrote[t] # None

\* A profile that is not the one of whoever is signed in, or not what its row holds,
\* has been overtaken.
ProfileExplained(t) ==
    profile[t] # None =>
        /\ cookies.token \notin {None, profile[t].user} => "switch" \in overtaken[t]
        /\ users[profile[t].user] # profile[t].email => overtaken[t] # {}

\* The same of a save, of the account it writes, and of what it has written.
SaveExplained(t) ==
    LET q == save[t]
    IN  q.pc # "idle" =>
            /\ cookies.token \notin {None, q.shown.user} => "switch" \in q.overtaken
            /\ q.user \notin {None, q.shown.user} => "switch" \in q.overtaken
            /\ q.pc \in {"name", "put", "check", "write"}
                   /\ users[q.shown.user] # q.shown.email => q.overtaken # {}
            /\ q.pc = "done" /\ users[q.user] # q.email => q.overtaken # {}

IInv ==
    /\ TypeOK /\ Known
    /\ \A t \in Tabs : ProfileExplained(t) /\ SaveExplained(t)
    /\ OneOwner /\ CookiesTogether

===================================================================================
