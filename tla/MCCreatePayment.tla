---------------------------- MODULE MCCreatePayment ----------------------------
(* CreatePayment with model values for TLC: no symmetry, for the liveness property. *)
EXTENDS CreatePayment
================================================================================
