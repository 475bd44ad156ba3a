------------------------ MODULE MCWebhookDeliveries ------------------------
(* The delivery of an event to a webhook and a test of it.                 *)
EXTENDS WebhookDeliveries

CONSTANTS h1

MCHooks == {h1}
MCEventRows == {1}
MCTestRows == {2}
MCHookOf == [d \in Rows |-> h1]
=============================================================================
