--------------------------- MODULE MCWebhookDelivery ---------------------------
(* Small instances of WebhookDelivery for TLC. *)
EXTENDS WebhookDelivery, TLC

CONSTANTS d1, d2, w1, w2
=============================================================================
