-------------------------- MODULE MCWebhookBridge --------------------------
(* The small instance of WebhookBridge; its constants are in the           *)
(* configuration.                                                          *)
EXTENDS WebhookBridge, TLC

=============================================================================
