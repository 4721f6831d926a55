------------------------ MODULE MCWebhookDispatcher ------------------------
(* WebhookDispatcher with small sets, for TLC; without symmetry, which does *)
(* not go with liveness.                                                   *)
EXTENDS WebhookDispatcher, TLC
=============================================================================
