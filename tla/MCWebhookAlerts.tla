--------------------------- MODULE MCWebhookAlerts ---------------------------
(***************************************************************************)
(* TLC instance of WebhookAlerts: four findings for a queue of two, and    *)
(* room for one error.                                                     *)
(***************************************************************************)
EXTENDS WebhookAlerts
=============================================================================
