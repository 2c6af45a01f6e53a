-------------------------- MODULE MCWebhookDelivery --------------------------
(* Four events, one of which a filter holds back. *)
EXTENDS WebhookDelivery

MCWanted == {1, 2, 4}
=============================================================================
