--------------------------- MODULE MCPaymentGenerator ---------------------------
(* PaymentGenerator with model values for TLC: no symmetry, for the liveness property. *)
EXTENDS PaymentGenerator
=================================================================================
