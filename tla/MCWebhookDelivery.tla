------------------------- MODULE MCWebhookDelivery -------------------------
(* Two tasks: a render may announce two events, and the worker that dies    *)
(* takes both with it.                                                      *)
EXTENDS WebhookDelivery, TLC

CONSTANTS d1, d2

TwoDeliveries == {d1, d2}

\* Two delays for up to three retries: the last one may serve again.
ShortDelays == <<1, 10>>

=============================================================================
