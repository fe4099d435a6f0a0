-------------------------- MODULE MCWebhookDelivery --------------------------
(* Instances of WebhookDelivery for TLC. *)
EXTENDS WebhookDelivery, TLC

TaskEndpointSymmetry == Permutations(Workers) \cup Permutations(Endpoints)
=============================================================================
