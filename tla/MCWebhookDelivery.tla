--------------------------- MODULE MCWebhookDelivery ---------------------------
(* WebhookDelivery with its identifiers as model values, for TLC. *)
EXTENDS WebhookDelivery, TLC

CONSTANT m1

\* All webhooks go to one merchant.
OneMerchant == [d \in Deliveries |-> m1]

Symmetry ==
    Permutations(Deliveries) \cup Permutations(JobIds) \cup Permutations(Operators)
================================================================================
