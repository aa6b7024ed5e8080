--------------------------- MODULE MCWebhookRoute ---------------------------
(* Instances of WebhookRoute for TLC.                                       *)
EXTENDS WebhookRoute

CONSTANTS j1, j2, j3

=============================================================================
