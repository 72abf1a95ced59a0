------------------------------ MODULE MCDashboardSession ----------------------------
(* DashboardSession with its identifiers as model values, for TLC. *)
EXTENDS DashboardSession, TLC

\* Users and tabs are interchangeable, and e-mails other than the seed's.
Symmetry == Permutations(Users) \cup Permutations(Tabs)
                \cup Permutations(Emails \ {SeedEmail})
===================================================================================
