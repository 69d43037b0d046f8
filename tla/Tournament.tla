----------------------------- MODULE Tournament -----------------------------
(***************************************************************************)
(* One multi-table tournament: class TournamentManager of phase15.  Every  *)
(* operation holds the manager's mutex from its first line to its last, so *)
(* it is one step.  A hand is what the manager sees of it: the table it    *)
(* was played at and what it did to the stacks of the players there.       *)
(*                                                                         *)
(* A player is active exactly when he is not eliminated (both flags are    *)
(* always written together), so one of them is kept.  Bounties have no     *)
(* caller in the repository and late registration is never opened: both    *)
(* are left out.                                                           *)
(***************************************************************************)
EXTENDS Integers, Sequences, FiniteSets, FiniteSetsExt, Functions, SequencesExt

CONSTANTS
  Players,         \* player ids
  MaxPlayers, PerTable, StartingStack, Levels,
  MaxRebuys,       \* 0: has_rebuys is false
  RebuyStack, RebuyThrough,
  AddonStack,      \* 0: has_addon is false
  BuyIn, Fee, RebuyCost, AddonCost,
  PaidPlaces       \* payout_percentages.size()

ASSUME TournamentAssumption ==
  /\ IsFiniteSet(Players)
  /\ {MaxPlayers, PerTable, StartingStack, Levels, PaidPlaces} \subseteq Nat \ {0}
  /\ {MaxRebuys, RebuyThrough, AddonStack, BuyIn, Fee, RebuyCost, AddonCost} \subseteq Nat
  /\ RebuyStack \in Nat \ {0}

VARIABLES
  status,   \* status_
  entry,    \* players_: a record for every registered player
  list,     \* player_ids of every table of tables_
  level,    \* current_blind_level_
  paid      \* the players of payouts_, in order

manager == <<status, entry, list, level, paid>>

Entry == [chips: Nat, table: Int, out: BOOLEAN, rebuys: Nat, addon: BOOLEAN, place: Nat]

Registered == DOMAIN entry

In(e) == {p \in DOMAIN e : ~e[p].out}

NewEntry == [chips |-> StartingStack, table |-> -1, out |-> FALSE, rebuys |-> 0,
             addon |-> FALSE, place |-> 0]

ManagerInit ==
  /\ status = "registration"
  /\ entry = << >>
  /\ list = << >>
  /\ level = 0
  /\ paid = << >>

-----------------------------------------------------------------------------
MayRegister(p) ==
  /\ status = "registration"
  /\ Cardinality(Registered) < MaxPlayers
  /\ p \notin Registered

RegisterPlayer(p) ==
  /\ MayRegister(p)
  /\ entry' = [q \in Registered \cup {p} |-> IF q = p THEN NewEntry ELSE entry[q]]
  /\ UNCHANGED <<status, list, level, paid>>

UnregisterPlayer(p) ==
  /\ status = "registration"
  /\ p \in Registered
  /\ entry' = [q \in Registered \ {p} |-> entry[q]]
  /\ UNCHANGED <<status, list, level, paid>>

(* One table more than the division says whenever it leaves a remainder.   *)
TableCount(n) == Max({1, n \div PerTable}) + (IF n % PerTable > 0 THEN 1 ELSE 0)

(* AssignPlayersToTables deals the shuffled players out one table after    *)
(* the other: no two tables differ by more than one player.                *)
Dealt(n) ==
  LET T == TableCount(n) IN
  {at \in [Registered -> 0 .. T - 1] : \A t \in 0 .. T - 1 :
     Cardinality({p \in Registered : at[p] = t}) \in {n \div T, (n + T - 1) \div T}}

Start ==
  LET n == Cardinality(Registered) IN
  /\ status = "registration"
  /\ n > 1
  /\ \E at \in Dealt(n) :
       /\ entry' = [p \in Registered |-> [entry[p] EXCEPT !.table = at[p]]]
       /\ list' = [t \in 0 .. TableCount(n) - 1 |-> {p \in Registered : at[p] = t}]
  /\ status' = "running"
  /\ UNCHANGED <<level, paid>>

(* Mutant of Payouts: the comparison is the other way round.               *)
PayoutsUpsideDown(e) ==
  {SubSeq(s, 1, Min({PaidPlaces, Len(s)})) : s \in
     {s \in SetToSeqs(DOMAIN e) : \A i \in 1 .. Len(s) - 1 : e[s[i]].chips <= e[s[i + 1]].chips}}

(* ComputePayouts: by chips alone, whoever has gone out when.  The sort    *)
(* may leave equal stacks in any order.                                    *)
Payouts(e) ==
  {SubSeq(s, 1, Min({PaidPlaces, Len(s)})) : s \in
     {s \in SetToSeqs(DOMAIN e) : \A i \in 1 .. Len(s) - 1 : e[s[i]].chips >= e[s[i + 1]].chips}}

Busted(t, stacks) == {p \in DOMAIN stacks : stacks[p] = 0 /\ ~entry[p].out}

(* Mutant of Place: everybody a hand busts gets the same place.            *)
SharedPlace(left, order, p) == left - Len(order)

(* EliminatePlayer, called for the busted players in the order of the map: *)
(* the place of a player is the number of those still in after him.        *)
Place(left, order, p) == left - CHOOSE i \in 1 .. Len(order) : order[i] = p

(* Mutant of Vacated: who is busted keeps his chair.                       *)
VacatedNobody(t, busted) == list

(* RemovePlayerFromTable.                                                  *)
Vacated(t, busted) == [list EXCEPT ![t] = @ \ busted]

(* ProcessHandComplete: stacks is what the players of the hand have now.   *)
(* The final table is noticed when somebody goes out, and only then.       *)
HandComplete(t, stacks) ==
  LET busted == Busted(t, stacks)
      left   == Cardinality(In(entry))
      still  == left - Cardinality(busted)
  IN
  /\ status \in {"running", "final"}
  /\ \E order \in SetToSeqs(busted) :
       entry' = [p \in Registered |->
                   IF p \in busted
                     THEN [entry[p] EXCEPT !.chips = 0, !.out = TRUE,
                                           !.place = Place(left, order, p)]
                   ELSE IF p \in DOMAIN stacks THEN [entry[p] EXCEPT !.chips = stacks[p]]
                   ELSE entry[p]]
  /\ list' = Vacated(t, busted)
  /\ status' = IF still <= 1 THEN "completed"
               ELSE IF busted # {} /\ still <= PerTable THEN "final" ELSE status
  /\ paid' \in IF still <= 1 THEN Payouts(entry') ELSE {paid}
  /\ UNCHANGED level

AdvanceBlindLevel ==
  /\ level' = Min({level + 1, Levels - 1})
  /\ UNCHANGED <<status, entry, list, paid>>

(* ProcessRebuy tests neither the status nor whether a chair is left: a    *)
(* player who is out comes back without one, and a tournament that is over *)
(* takes his rebuy.                                                        *)
MayRebuy(p) ==
  /\ MaxRebuys > 0
  /\ level < RebuyThrough
  /\ p \in Registered
  /\ entry[p].rebuys < MaxRebuys
  /\ entry[p].out \/ entry[p].chips = 0

Rebuy(p) ==
  /\ MayRebuy(p)
  /\ entry' = [entry EXCEPT ![p].chips = RebuyStack, ![p].rebuys = @ + 1, ![p].out = FALSE]
  /\ UNCHANGED <<status, list, level, paid>>

(* ProcessAddon: once per player, in any status, whether he is in or out.  *)
Addon(p) ==
  /\ AddonStack > 0
  /\ p \in Registered
  /\ ~entry[p].addon
  /\ entry' = [entry EXCEPT ![p].chips = @ + AddonStack, ![p].addon = TRUE]
  /\ UNCHANGED <<status, list, level, paid>>

(* PrizePool, without a guarantee.                                         *)
PrizePool(e) ==
  SumFunction([p \in DOMAIN e |->
                 BuyIn + e[p].rebuys * RebuyCost + (IF e[p].addon THEN AddonCost ELSE 0)])

(* The hands a director can deal: two or more players of one table who     *)
(* have chips play some of them to each other.                             *)
Hands(t) ==
  LET deal == {p \in list[t] : entry[p].chips > 0}
      sum  == SumFunction([p \in deal |-> entry[p].chips])
  IN  IF Cardinality(deal) < 2 THEN {}
      ELSE {f \in [deal -> 0 .. sum] :
              SumFunction(f) = sum /\ \E p \in deal : f[p] # entry[p].chips}

(* What the tournament director does: in the repository, the tests.        *)
Direct ==
  \/ Start
  \/ \E t \in DOMAIN list : \E stacks \in Hands(t) : HandComplete(t, stacks)
  \/ AdvanceBlindLevel
  \/ \E p \in Players : Addon(p)

-----------------------------------------------------------------------------
ManagerTypeOK ==
  /\ status \in {"registration", "running", "final", "completed"}
  /\ Registered \subseteq Players
  /\ \A p \in Registered : entry[p] \in Entry
  /\ \A t \in DOMAIN list : list[t] \subseteq Players
  /\ level \in 0 .. Levels - 1
  /\ paid \in Seq(Players)

Sold(e) == SumFunction([p \in DOMAIN e |-> StartingStack + e[p].rebuys * RebuyStack
                                             + (IF e[p].addon THEN AddonStack ELSE 0)])

(* The chips in play are the chips sold.  (Less, once somebody who took an *)
(* add-on rebuys: the rebuy overwrites what he has.)                       *)
ChipsSold ==
  LET chips == SumFunction([p \in Registered |-> entry[p].chips]) IN
  /\ chips <= Sold(entry)
  /\ (\A p \in Registered : ~(entry[p].addon /\ entry[p].rebuys > 0)) => chips = Sold(entry)

Began == status # "registration"

(* Once it has begun, everybody who is still in and never bought in again  *)
(* sits at the table he was told, nobody else sits anywhere, and no table  *)
(* is over its size.                                                       *)
Seated ==
  Began =>
    /\ \A t \in DOMAIN list :
         /\ \A p \in list[t] : p \in In(entry) /\ entry[p].table = t
         /\ Cardinality(list[t]) <= PerTable
    /\ \A p \in In(entry) : entry[p].rebuys = 0 => p \in list[entry[p].table]

(* As long as nobody bought in again, those who are out hold the places    *)
(* from the number of players left up to one less than the field, each     *)
(* once, however many a hand has busted.                                   *)
Places ==
  (\A p \in Registered : entry[p].rebuys = 0) =>
    LET gone == Registered \ In(entry) IN
    {entry[p].place : p \in gone} = Cardinality(In(entry)) .. Cardinality(Registered) - 1

(* The winner is paid first: who is the only one in when the last hand     *)
(* ends, provided no add-on gave chips to somebody who was out.  What is   *)
(* paid, and to whom, is settled then for good.                            *)
WinnerPaid ==
  [][/\ status = "completed" => paid' = paid \/ entry' = << >>
     /\ status' = "completed" /\ status # "completed" =>
          LET e == entry' IN
          (\A p \in DOMAIN e : e[p].out => e[p].chips = 0)
            => /\ paid'[1] \in In(e)
               /\ \A i, j \in DOMAIN paid' : i # j => paid'[i] # paid'[j]
    ]_manager
=============================================================================
