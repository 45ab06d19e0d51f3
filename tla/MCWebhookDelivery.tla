------------------------- MODULE MCWebhookDelivery -------------------------
(***************************************************************************)
(* Instances of WebhookDelivery for TLC.  One unit of time is 30 s in      *)
(* wh_single and 15 s in wh_faults, where a POST is to be shorter than the *)
(* first backoff.                                                          *)
(***************************************************************************)
EXTENDS WebhookDelivery, TLC

\* WEBHOOK_BACKOFF = 30, 60, 120, 240, 480 s
BackoffUnits == <<1, 2, 4, 8, 16>>
ShortBackoff == <<2, 4, 8>>

JobSymmetry == Permutations(Jobs)

=============================================================================
