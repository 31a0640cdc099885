--------------------------- MODULE MCWebhookQueue ---------------------------
(* Three events that pass the filter and batches of two rows: the third    *)
(* has to wait for its turn.  With three attempts a row fails, is retried  *)
(* and is given up; one loss is a failed update or a crash at any point.   *)
EXTENDS WebhookQueue, TLC

CONSTANTS e1, e2, e3

ThreeEvents == {e1, e2, e3}
=============================================================================
