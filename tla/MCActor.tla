------------------------------ MODULE MCActor -------------------------------
(* One sender that tells and one that asks, two messages each; the actor   *)
(* is started at most twice.                                               *)
EXTENDS Actor
=============================================================================
