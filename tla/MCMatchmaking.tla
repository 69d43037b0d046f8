--------------------------- MODULE MCMatchmaking ----------------------------
(* Instances of the matchmaking queue; players are interchangeable.        *)
EXTENDS Matchmaking, TLC

Anybody == Permutations(Players)
=============================================================================
