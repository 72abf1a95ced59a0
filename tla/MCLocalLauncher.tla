------------------------------ MODULE MCLocalLauncher -------------------------------
(* LocalLauncher with its identifiers as model values, for TLC. *)
EXTENDS LocalLauncher, TLC

\* Merchants, keys, browsers, requests and scripts are interchangeable.
Symmetry ==
    Permutations(Merchants) \cup Permutations(NewKeys) \cup Permutations(Browsers)
        \cup Permutations(Requests) \cup Permutations(Starts)
===================================================================================
