---------------------------- MODULE MCGameState ----------------------------
EXTENDS GameState

CONSTANTS a, b, c, d

Setup(stacks, hand) ==
  [stacks |-> [s \in 0 .. Len(stacks) - 1 |-> stacks[s + 1]], hand |-> hand]

(* One hand of three uneven stacks (three orders of the side pots) or of a *)
(* pair, and two hands of three short stacks, who may leave between them.  *)
MCHands == {Setup(<<5, 3, 8>>, 1), Setup(<<3, 8, 5>>, 1), Setup(<<5, 8>>, 1),
            Setup(<<3, 3, 3>>, 0)}

(* One hand of three short stacks.                                         *)
MCShort == {Setup(<<3, 4, 3>>, 1)}

(* Two hands of a pair, at a table with room for more.                     *)
MCPair == {Setup(<<4, 4>>, 0)}

(* One hand of three at a table of six, the seats of the blinds far from   *)
(* the button.                                                             *)
MCGaps == {[stacks |-> [s \in {1, 4, 5} |-> 4], hand |-> 1]}
=============================================================================
