\* Two accounts, two tabs that share the cookies, two e-mails besides the seed's; two
\* logins and two saves can overlap in every way.
SPECIFICATION Spec
CONSTANTS
    Users = {u1, u2}
    Emails = {e1, e2, e3}
    SeedEmail = e1
    Tabs = {t1, t2}
    MaxLogins = 2
    MaxSaves = 2
    None = None
SYMMETRY Symmetry
INVARIANTS
    OneOwner
    CookiesTogether
PROPERTY AccountChanges
CHECK_DEADLOCK FALSE
