----------------------------- MODULE PotManager -----------------------------
(***************************************************************************)
(* The pots of a hand: PotManager::BuildPots, and the split of a pot by    *)
(* ShowdownEvaluator::EvaluatePot.  in[p] is what player p put in during   *)
(* the hand, folded the players who folded, dealt those with hole cards,   *)
(* rank[p] the strength of the hand of p at the showdown.                  *)
(***************************************************************************)
EXTENDS Integers, Sequences, FiniteSets, FiniteSetsExt, SequencesExt

Total(f) == SumFunction(f)

Contributors(in) == {p \in DOMAIN in : in[p] > 0}

(* The thresholds of the layers.                                           *)
Levels(in) == {in[p] : p \in Contributors(in)}

(* Mutant of Layer: only the players who have not folded feed the layer.   *)
LayerOfTheLiving(in, folded, low, high) ==
  LET reach == {p \in Contributors(in) : in[p] >= high}
  IN  [amount |-> (high - low) * Cardinality(reach \ folded),
       eligible |-> reach \ folded]

(* Mutant of Layer: an all-in player competes for the layers above him.    *)
LayerForAll(in, folded, low, high) ==
  LET reach == {p \in Contributors(in) : in[p] >= high}
  IN  [amount |-> (high - low) * Cardinality(reach),
       eligible |-> Contributors(in) \ folded]

(* What everyone who invested up to high put in above low, and who of them *)
(* can win it.                                                             *)
Layer(in, folded, low, high) ==
  LET reach == {p \in Contributors(in) : in[p] >= high}
  IN  [amount |-> (high - low) * Cardinality(reach), eligible |-> reach \ folded]

(* One round of the loop of BuildPots: acc is the pots so far, the dead    *)
(* money of layers that nobody can win, and the level reached.             *)
Peel(in, folded, acc, high) ==
  LET layer == Layer(in, folded, acc.level, high)
  IN  IF layer.eligible = {}
        THEN [acc EXCEPT !.dead = @ + layer.amount, !.level = high]
        ELSE [pots  |-> Append(acc.pots, [layer EXCEPT !.amount = @ + acc.dead]),
              dead  |-> 0,
              level |-> high]

(* The loop over the thresholds, ascending: the highest is peeled last.    *)
Layers(in, folded) ==
  MapThenFoldSet(LAMBDA high, acc : Peel(in, folded, acc, high),
                 [pots |-> << >>, dead |-> 0, level |-> 0],
                 LAMBDA high : high, LAMBDA S : Max(S), Levels(in))

(* Dead money on top of the last live layer goes to the last pot, if any.  *)
BuildPots(in, folded) ==
  LET end == Layers(in, folded)
  IN  IF end.pots = << >>
        THEN << >>
        ELSE [end.pots EXCEPT ![Len(end.pots)].amount = @ + end.dead]

(* The players with the best hand among those of the pot who have cards.   *)
Winners(pot, dealt, rank) ==
  LET hands == pot.eligible \cap dealt
  IN  {p \in hands : \A q \in hands : rank[q] <= rank[p]}

(* Mutant of PotPayouts: the odd chips are dropped.                        *)
PotPayoutsRounded(pot, dealt, rank) ==
  LET winners == Winners(pot, dealt, rank)
  IN  {[p \in DOMAIN rank |->
          IF p \in winners THEN pot.amount \div Cardinality(winners) ELSE 0]}

(* What EvaluatePot may pay: equal shares, and one odd chip each to as     *)
(* many winners as there are odd chips; which ones is up to std::sort.     *)
PotPayouts(pot, dealt, rank) ==
  LET winners == Winners(pot, dealt, rank)
      n       == Cardinality(winners)
  IN  IF winners = {}
        THEN {[p \in DOMAIN rank |-> 0]}
        ELSE {[p \in DOMAIN rank |->
                 IF p \in winners
                   THEN pot.amount \div n + (IF p \in lucky THEN 1 ELSE 0)
                   ELSE 0] : lucky \in kSubset(pot.amount % n, winners)}

(* The loop of DoShowdown over the pots: every total it may pay.           *)
Payouts(in, folded, dealt, rank) ==
  FoldLeft(LAMBDA acc, pot :
             {[p \in DOMAIN rank |-> a[p] + b[p]] :
                a \in acc, b \in PotPayouts(pot, dealt, rank)},
           {[p \in DOMAIN rank |-> 0]}, BuildPots(in, folded))
=============================================================================
