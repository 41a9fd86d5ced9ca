-------------------------- MODULE MCWebhookDelivery --------------------------
(***************************************************************************)
(* Instances of WebhookDelivery for TLC: e1 and e2 report on one payment.  *)
(***************************************************************************)
EXTENDS WebhookDelivery

CONSTANTS e1, e2, p

MCPaymentOf == [e \in Events |-> p]
=============================================================================
