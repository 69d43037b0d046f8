------------------------------ MODULE Showdown ------------------------------
(***************************************************************************)
(* A hand that comes to a showdown, its pots built and paid: PotManager    *)
(* against a definition of side pots that knows no layers.                 *)
(***************************************************************************)
EXTENDS PotManager

CONSTANTS
  Contestants,
  MaxInvested,     \* bound: chips a player put in
  MaxRanked        \* bound: hands rank 1 .. MaxRanked

ASSUME ShowdownAssumption ==
  /\ IsFiniteSet(Contestants) /\ Cardinality(Contestants) > 1
  /\ MaxInvested \in Nat /\ MaxRanked \in Nat

VARIABLES
  invested,   \* what everybody put in during the hand
  mucked,     \* who folded
  ranked,     \* the strength of every hand
  won         \* what the pots paid

showdown == <<invested, mucked, ranked, won>>

Nothing == [p \in Contestants |-> 0]

(* Somebody is left in the hand, with chips in it.                         *)
ShowdownInit ==
  /\ invested \in [Contestants -> 0 .. MaxInvested]
  /\ mucked \in SUBSET Contributors(invested)
  /\ Contributors(invested) \ mucked # {}
  /\ ranked \in [Contestants -> 1 .. MaxRanked]
  /\ \A p \in Contestants : p \in mucked \/ invested[p] = 0 => ranked[p] = 1
  /\ won = Nothing

ShowdownNext ==
  /\ won = Nothing
  /\ won' \in Payouts(invested, mucked, Contestants, ranked)
  /\ UNCHANGED <<invested, mucked, ranked>>

ShowdownSpec == ShowdownInit /\ [][ShowdownNext]_showdown

-----------------------------------------------------------------------------
Living == Contributors(invested) \ mucked

(* What p can win from u: as much as he put in against him; the excess of  *)
(* a folded player over everyone living goes to those who put in most.     *)
Stake(p, u) ==
  IF u \in mucked /\ \A q \in Living : invested[q] <= invested[p]
    THEN invested[u]
    ELSE Min({invested[p], invested[u]})

(* Together the pots a living player may win hold what he can win from     *)
(* each opponent, and a folded player may win none (BuildPots).            *)
SidePots ==
  \A p \in Contributors(invested) :
    LET pots == BuildPots(invested, mucked)
        mine == {i \in DOMAIN pots : p \in pots[i].eligible}
    IN  Total([i \in mine |-> pots[i].amount]) =
          IF p \in mucked THEN 0 ELSE Total([u \in Contestants |-> Stake(p, u)])

(* Who put in more than anybody else gets back what nobody called; a hand  *)
(* that is beaten by one with as much at stake wins nothing; two hands     *)
(* that tie with equal stakes differ by an odd chip of each pot at most.   *)
(* Every chip is paid out, odd ones included.                              *)
FairlyPaid ==
  won # Nothing =>
    /\ Total(won) = Total(invested)
    /\ \A p, q \in Living :
      LET pots == Len(BuildPots(invested, mucked))
      IN  /\ ranked[p] > ranked[q] /\ invested[p] >= invested[q] => won[q] = 0
          /\ ranked[p] = ranked[q] /\ invested[p] = invested[q] => won[p] - won[q] <= pots
          /\ invested[p] - Max({invested[u] : u \in Contestants \ {p}}) <= won[p]
=============================================================================
