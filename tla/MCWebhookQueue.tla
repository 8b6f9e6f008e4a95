--------------------------- MODULE MCWebhookQueue ---------------------------
(***************************************************************************)
(* WebhookQueue for TLC, in units of ten seconds: windows and leases of    *)
(* thirty, retries after ten and sixty, a call of at most ten.             *)
(***************************************************************************)
EXTENDS WebhookQueue

MCRetryDelays == <<1, 6>>
=============================================================================
