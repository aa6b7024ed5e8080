------------------------- MODULE MCWebhookDelivery -------------------------
(* Instances of WebhookDelivery for TLC: interchangeable jobs.              *)
EXTENDS WebhookDelivery, TLC

CONSTANTS j1, j2, j3

JobSymmetry == Permutations(Jobs)

=============================================================================
