-------------------------- MODULE MCTournamentDesk --------------------------
(* The tournament run: four players of whom three fit at a table.          *)
EXTENDS TournamentDesk

Anybody == Permutations(Players)
=============================================================================
