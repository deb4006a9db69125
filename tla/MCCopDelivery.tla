---------------------------- MODULE MCCopDelivery ----------------------------
(* Instances of CopDelivery for TLC. *)
EXTENDS CopDelivery

CONSTANTS agent, cli

HandledAndRefused == <<"snapshot", "refused">>
OneRefused == <<"refused">>
=============================================================================
