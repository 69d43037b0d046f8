---------------------------- MODULE MCPotManager ----------------------------
(***************************************************************************)
(* Every small hand that can come to a showdown: four players, so that a   *)
(* layer of three can lie above a short stack and below dead money.        *)
(***************************************************************************)
EXTENDS Showdown
=============================================================================
