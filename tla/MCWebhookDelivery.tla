-------------------------- MODULE MCWebhookDelivery --------------------------
(* A processor of two webhooks, one of them with the repository's receiver *)
(* at the other end and the other with one whose answer may have no end,   *)
(* two dispatches one after the other, and three edits of the list.        *)
EXTENDS WebhookDelivery

CONSTANTS w1, w2, listener

TwoWebhooks == {w1, w2}
FirstWebhook == {w1}
SecondWebhook == {w2}
TwoRanks == {1, 2}
OneTask == {listener}
=============================================================================
