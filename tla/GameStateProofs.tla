-------------------------- MODULE GameStateProofs ---------------------------
(***************************************************************************)
(* Proofs about GameState, PotManager and Showdown, for any seats,         *)
(* players, stacks, bets and outcomes.                                     *)
(*                                                                         *)
(*  1. The leavers: where a seat that waits to be swept may be (Swept).    *)
(*  2. The pots: what BuildPots builds and Payouts pays, for anything put  *)
(*     in by any finite set of players, of whom any have folded; from it   *)
(*     what Showdown says of them (SidePots, FairlyPaid).                  *)
(*  3. What each operation of a table does, as lemmas ...Is, and from them *)
(*     that a table stays in order (TableOK): no winnings beyond the cap.  *)
(*  4. Somebody is to act (Ready), and streets are matched before the next.*)
(*  5. Turns are passed on in order (Passed).                              *)
(*  6. Chips are conserved (Funded).                                       *)
(***************************************************************************)
EXTENDS GameState, Showdown, Sums, FunctionTheorems, SequenceTheorems, WellFoundedInduction, TLAPS

TableFields == {"seat", "phase", "hand", "dealer", "action", "bet", "raise", "live",
                "gone", "settled", "bank"}

SeatFields == {"id", "state", "chips", "bet", "in", "acted", "leaving", "cards"}

Shape(t) ==
  /\ DOMAIN t = TableFields
  /\ DOMAIN t.seat = Seats
  /\ \A s \in Seats : DOMAIN t.seat[s] = SeatFields

(* Who is to be swept has no action left in the hand.                      *)
OutOfPlay(t) ==
  \A s \in Seats : t.seat[s].leaving => t.seat[s].state \in {"folded", "allin"}

NobodyLeaving(t) == \A s \in Seats : ~t.seat[s].leaving

(* A hand in progress is on some street.                                   *)
OnStreet(t) == t.live => t.phase \in {"preflop", "flop", "turn", "river"}

(* Leavers are out of play, and there are none between hands.              *)
Swept(t) == /\ Shape(t) /\ OutOfPlay(t) /\ OnStreet(t)
            /\ ~t.live => NobodyLeaving(t)

IInv == Swept(table)

-----------------------------------------------------------------------------
(* An empty seat has a seat's fields.                                      *)
LEMMA EmptySeatFields == DOMAIN EmptySeat = SeatFields /\ ~EmptySeat.leaving
  BY DEF EmptySeat, SeatFields

(* Sweeping leaves no leaver.                                              *)
LEMMA VacateSweeps ==
  ASSUME NEW t, Shape(t), OutOfPlay(t)
  PROVE  Shape(Vacate(t)) /\ NobodyLeaving(Vacate(t)) /\ Vacate(t).live = t.live
<1> DEFINE S == {s \in Taken(t) : t.seat[s].leaving}
<1> DEFINE v == Vacate(t)
<1>1. /\ DOMAIN v = TableFields /\ v.live = t.live
      /\ v.seat = [s \in Seats |-> IF s \in S THEN EmptySeat ELSE t.seat[s]]
  BY DEF Vacate, Shape, TableFields
<1>2. \A s \in Seats : t.seat[s].leaving => s \in S
  BY DEF OutOfPlay, Taken
<1> HIDE DEF v, S
<1>3. Shape(v)
  BY <1>1, EmptySeatFields DEF Shape
<1>4. NobodyLeaving(v)
  BY <1>1, <1>2, EmptySeatFields DEF NobodyLeaving
<1> QED
  BY <1>1, <1>3, <1>4 DEF v

(* Pay changes neither the fields nor the flag.                            *)
LEMMA PayKeeps ==
  ASSUME NEW seat, NEW amount, DOMAIN seat = SeatFields
  PROVE  DOMAIN Pay(seat, amount) = SeatFields /\ Pay(seat, amount).leaving = seat.leaving
  BY DEF Pay, SeatFields

(* Dealing makes nobody a leaver.                                          *)
LEMMA DealKeeps ==
  ASSUME NEW t, Shape(t), NobodyLeaving(t)
  PROVE  Shape(Deal(t)) /\ NobodyLeaving(Deal(t)) /\ Deal(t).phase = "preflop"
<1> DEFINE reset  == [s \in Seats |->
                   [t.seat[s] EXCEPT !.bet = 0, !.in = 0, !.acted = FALSE, !.cards = FALSE,
                      !.state = IF @ = "empty" THEN @ ELSE "sitting"]]
<1> DEFINE pos    == Positions(t)
<1> DEFINE sb     == pos.sb
<1> DEFINE bb     == pos.bb
<1> DEFINE posted == [reset EXCEPT ![sb] = Pay(@, SmallBlind), ![bb] = Pay(@, BigBlind)]
<1> DEFINE dealt  == [s \in Seats |-> IF posted[s].state = "sitting"
                                       THEN [posted[s] EXCEPT !.state = "playing", !.cards = TRUE]
                                       ELSE posted[s]]
<1> DEFINE d == Deal(t)
<1>1. d = [t EXCEPT !.seat = dealt, !.hand = @ + 1, !.dealer = pos.dealer, !.bet = posted[bb].bet,
                    !.raise = BigBlind, !.live = TRUE, !.phase = "preflop",
                    !.settled = NothingSettled]
  BY DEF Deal
<1>2. \A s \in Seats : DOMAIN reset[s] = SeatFields /\ ~reset[s].leaving
  BY DEF Shape, NobodyLeaving, SeatFields
<1> HIDE DEF d, reset, pos, sb, bb
<1>3. \A s \in Seats : DOMAIN posted[s] = SeatFields /\ ~posted[s].leaving
  <2>1. DOMAIN reset = Seats
    BY DEF reset
  <2>2. \A s \in Seats : posted[s] \in {reset[s], Pay(reset[s], SmallBlind), Pay(reset[s], BigBlind),
                                        Pay(Pay(reset[s], SmallBlind), BigBlind)}
    BY <2>1
  <2>3. ASSUME NEW s \in Seats PROVE DOMAIN posted[s] = SeatFields /\ ~posted[s].leaving
    <3> DEFINE p == Pay(reset[s], SmallBlind)
    <3>1. DOMAIN p = SeatFields /\ ~p.leaving
      BY <1>2, PayKeeps
    <3> HIDE DEF p
    <3>2. DOMAIN Pay(p, BigBlind) = SeatFields /\ ~Pay(p, BigBlind).leaving
      BY <3>1, PayKeeps
    <3>3. DOMAIN Pay(reset[s], BigBlind) = SeatFields /\ ~Pay(reset[s], BigBlind).leaving
      BY <1>2, PayKeeps
    <3> QED
      BY <1>2, <2>2, <3>1, <3>2, <3>3 DEF p
  <2> QED
    BY <2>3
<1> HIDE DEF posted
<1>4. \A s \in Seats : DOMAIN dealt[s] = SeatFields /\ ~dealt[s].leaving
  BY <1>3 DEF SeatFields
<1>5. DOMAIN dealt = Seats
  OBVIOUS
<1> HIDE DEF dealt
<1>6. DOMAIN d = TableFields /\ d.seat = dealt /\ d.phase = "preflop"
  BY <1>1 DEF Shape, TableFields
<1> QED
  BY <1>4, <1>5, <1>6 DEF d, Shape, NobodyLeaving

(* OpenRound says who acts and nothing else.                               *)
LEMMA OpenRoundKeeps ==
  ASSUME NEW t, Shape(t)
  PROVE  /\ Shape(OpenRound(t))
         /\ OpenRound(t).seat = t.seat /\ OpenRound(t).live = t.live
         /\ OpenRound(t).phase = t.phase
  BY DEF OpenRound, Shape, TableFields

(* After HAND_COMPLETE nobody waits to be swept, also in a hand that the   *)
(* event handler started.                                                  *)
LEMMA HandCompleteSweeps ==
  ASSUME NEW t, Shape(t), OutOfPlay(t), ~t.live
  PROVE  /\ Shape(HandComplete(t)) /\ NobodyLeaving(HandComplete(t))
         /\ OnStreet(HandComplete(t))
<1> DEFINE v == Vacate(t)
<1> DEFINE d == Deal(v)
<1>1. Shape(v) /\ NobodyLeaving(v) /\ ~v.live
  BY VacateSweeps
<1> HIDE DEF v
<1>2. Shape(d) /\ NobodyLeaving(d) /\ d.phase = "preflop"
  BY <1>1, DealKeeps
<1> HIDE DEF d
<1>3. /\ Shape(OpenRound(d)) /\ NobodyLeaving(OpenRound(d))
      /\ OpenRound(d).phase = "preflop"
  BY <1>2, OpenRoundKeeps DEF NobodyLeaving
<1>4. HandComplete(t) = v \/ HandComplete(t) = OpenRound(d)
  BY DEF HandComplete, v, d
<1> QED
  BY <1>1, <1>3, <1>4 DEF OnStreet

(* ResetPlayers leaves nobody leaving who was not.                         *)
LEMMA ResetPlayersKeeps ==
  ASSUME NEW t, Shape(t), NobodyLeaving(t)
  PROVE  /\ Shape(ResetPlayers(t)) /\ NobodyLeaving(ResetPlayers(t))
         /\ ResetPlayers(t).live = t.live /\ ResetPlayers(t).phase = t.phase
<1>1. /\ DOMAIN ResetPlayers(t) = TableFields
      /\ ResetPlayers(t).live = t.live /\ ResetPlayers(t).phase = t.phase
      /\ DOMAIN ResetPlayers(t).seat = Seats
      /\ \A s \in Seats : DOMAIN ResetPlayers(t).seat[s] = SeatFields
  BY DEF ResetPlayers, Shape, TableFields, SeatFields
<1>2. \A s \in Seats : ResetPlayers(t).seat[s].leaving = t.seat[s].leaving
  BY DEF ResetPlayers, Shape, TableFields, SeatFields
<1> QED
  BY <1>1, <1>2 DEF Shape, NobodyLeaving

(* A table at which nobody is leaving is swept.                            *)
LEMMA NobodyLeavingIsSwept ==
  ASSUME NEW t, Shape(t), NobodyLeaving(t), OnStreet(t)
  PROVE  Swept(t)
  BY DEF Swept, OutOfPlay, NobodyLeaving

(* A settled hand leaves no leaver.                                        *)
LEMMA SettledSweeps ==
  ASSUME NEW t, Shape(t), OutOfPlay(t), NEW in, NEW folded, NEW out
  PROVE  Swept(Settled(t, in, folded, out))
<1> DEFINE paid == [t EXCEPT !.seat = [s \in Seats |-> [t.seat[s] EXCEPT !.chips = @ + out[s]]],
                        !.phase = "complete", !.live = FALSE,
                        !.settled = [s \in Seats |-> [in |-> in[s], out |-> out[s],
                                                      folded |-> s \in folded]]]
<1>1. /\ DOMAIN paid = TableFields /\ ~paid.live
      /\ DOMAIN paid.seat = Seats
      /\ \A s \in Seats : DOMAIN paid.seat[s] = SeatFields
  BY DEF Shape, TableFields, SeatFields
<1>2. Settled(t, in, folded, out) = ResetPlayers(HandComplete(paid))
  BY DEF Settled
<1>3. \A s \in Seats : /\ paid.seat[s].leaving = t.seat[s].leaving
                       /\ paid.seat[s].state = t.seat[s].state
  BY DEF Shape, TableFields, SeatFields
<1> HIDE DEF paid
<1>4. Shape(paid) /\ OutOfPlay(paid)
  BY <1>1, <1>3 DEF Shape, OutOfPlay
<1> DEFINE done == HandComplete(paid)
<1>5. Shape(done) /\ NobodyLeaving(done) /\ OnStreet(done)
  BY <1>1, <1>4, HandCompleteSweeps
<1> HIDE DEF done
<1>6. /\ Shape(ResetPlayers(done)) /\ NobodyLeaving(ResetPlayers(done))
      /\ OnStreet(ResetPlayers(done))
  BY <1>5, ResetPlayersKeeps DEF OnStreet
<1> QED
  BY <1>2, <1>6, NobodyLeavingIsSwept DEF done

(* Nor does a showdown.                                                    *)
LEMMA DoShowdownSweeps ==
  ASSUME NEW t, Shape(t), OutOfPlay(t), NEW u \in DoShowdown(t)
  PROVE  Swept(u)
<1>1. \E in, folded, out : u = Settled(t, in, folded, out)
  BY DEF DoShowdown
<1> QED
  BY <1>1, SettledSweeps

(* A further street, or the showdown after the last.                       *)
LEMMA AdvanceStreetSweeps ==
  ASSUME NEW t, Swept(t), NEW u \in AdvanceStreet(t)
  PROVE  Swept(u)
<1>1. CASE u \in DoShowdown(t)
  BY <1>1, DoShowdownSweeps DEF Swept
<1>2. CASE u \notin DoShowdown(t)
  <2> DEFINE next == CHOOSE i \in 1 .. 3 : Streets[i] = t.phase
  <2> DEFINE phase == Streets[next + 1]
  <2> DEFINE w == [t EXCEPT !.phase = phase, !.bet = 0,
                            !.seat = [s \in Seats |-> [@[s] EXCEPT !.acted = FALSE, !.bet = 0]]]
  <2>1. u = OpenRound(w) /\ t.phase # "river"
    BY <1>2 DEF AdvanceStreet
  <2>2. t.live => phase \in {"preflop", "flop", "turn", "river"}
    <3>1. t.live => t.phase \in {"preflop", "flop", "turn"}
      BY <2>1 DEF Swept, OnStreet
    <3>2. t.live => \E i \in 1 .. 3 : Streets[i] = t.phase
      BY <3>1 DEF Streets
    <3>3. t.live => next \in 1 .. 3
      BY <3>2
    <3>4. \A i \in 1 .. 3 : Streets[i + 1] \in {"preflop", "flop", "turn", "river"}
      BY DEF Streets
    <3> QED
      BY <3>3, <3>4
  <2> HIDE DEF phase, next
  <2>3. /\ DOMAIN w = TableFields /\ w.live = t.live /\ w.phase = phase
        /\ DOMAIN w.seat = Seats
        /\ \A s \in Seats : DOMAIN w.seat[s] = SeatFields
    BY DEF Swept, Shape, TableFields, SeatFields
  <2>4. \A s \in Seats : /\ w.seat[s].leaving = t.seat[s].leaving
                         /\ w.seat[s].state = t.seat[s].state
    BY DEF Swept, Shape, TableFields, SeatFields
  <2> HIDE DEF w
  <2>5. Shape(w)
    BY <2>3 DEF Shape
  <2>6. Shape(u) /\ u.seat = w.seat /\ u.live = t.live /\ u.phase = phase
    BY <2>1, <2>3, <2>5, OpenRoundKeeps
  <2> QED
    BY <2>2, <2>4, <2>6 DEF Swept, OutOfPlay, OnStreet, NobodyLeaving
<1> QED
  BY <1>1, <1>2

(* Whatever follows an action.                                             *)
LEMMA ProceedSweeps ==
  ASSUME NEW t, Swept(t), NEW u \in Proceed(t)
  PROVE  Swept(u)
<1>1. CASE u \in AdvanceStreet(t)
  BY <1>1, AdvanceStreetSweeps
<1>2. CASE u = NextActionSeat(t)
  <2>1. Shape(u) /\ u.seat = t.seat /\ u.live = t.live /\ u.phase = t.phase
    BY <1>2 DEF NextActionSeat, Swept, Shape, TableFields
  <2> QED
    BY <2>1 DEF Swept, OutOfPlay, OnStreet, NobodyLeaving
<1> QED
  BY <1>1, <1>2 DEF Proceed

-----------------------------------------------------------------------------
(* A set of seats has a first one.                                         *)
LEMMA MinOfSeats ==
  ASSUME NEW S \in SUBSET Seats, S # {}
  PROVE  Min(S) \in S
<1>1. S \subseteq Nat
  BY TableAssumption DEF Seats
<1>2. PICK y \in S : \A z \in S : ~(<<z, y>> \in OpToRel(<, Nat))
  BY <1>1, NatLessThanWellFounded, WFMin
<1>3. \A z \in S : ~(z < y)
  BY <1>1, <1>2 DEF OpToRel
<1>4. \A z \in S : y <= z
  BY <1>1, <1>3
<1> QED
  BY <1>4 DEF Min

(* Who is to act is playing, so he is no leaver.                           *)
LEMMA CurrentIsPlaying ==
  ASSUME NEW t, Swept(t), Current(t) # NoSeat
  PROVE  Current(t) \in Seats /\ t.seat[Current(t)].state = "playing" /\ ~t.seat[Current(t)].leaving
<1>1. Unacted(t) \subseteq Active(t) /\ Active(t) \subseteq Seats
  BY DEF Unacted, Active
<1>2. Current(t) \in Unacted(t)
  <2>1. CASE t.action \in Unacted(t)
    BY <2>1 DEF Current
  <2>2. CASE t.action \notin Unacted(t)
    <3>1. Unacted(t) # {} /\ Current(t) = Min(Unacted(t))
      BY <2>2 DEF Current
    <3> QED
      BY <1>1, <3>1, MinOfSeats
  <2> QED
    BY <2>1, <2>2
<1>3. Current(t) \in Active(t)
  BY <1>1, <1>2
<1> QED
  BY <1>3 DEF Active, Swept, OutOfPlay

(* Changing a seat to one that is not leaving.                             *)
LEMMA SeatChanged ==
  ASSUME NEW t, Swept(t), NEW s \in Seats, NEW c, DOMAIN c = SeatFields, ~c.leaving
  PROVE  /\ Swept([t EXCEPT !.seat[s] = c])
         /\ [t EXCEPT !.seat[s] = c].live = t.live
<1> DEFINE w == [t EXCEPT !.seat[s] = c]
<1>1. /\ DOMAIN w = TableFields /\ w.live = t.live /\ w.phase = t.phase
      /\ w.seat = [t.seat EXCEPT ![s] = c]
  BY DEF Swept, Shape, TableFields
<1> HIDE DEF w
<1>2. /\ DOMAIN w.seat = Seats /\ w.seat[s] = c
      /\ \A u \in Seats \ {s} : w.seat[u] = t.seat[u]
  BY <1>1 DEF Swept, Shape
<1>3. Swept(w)
  BY <1>1, <1>2 DEF Swept, Shape, OutOfPlay, OnStreet, NobodyLeaving
<1> QED
  BY <1>1, <1>3 DEF w

(* A raise gives seats another turn, and moves nobody in or out.           *)
LEMMA RaisedSweeps ==
  ASSUME NEW t, Swept(t), NEW s
  PROVE  Swept(Raised(t, s))
<1> DEFINE bet == t.seat[s].bet
<1> DEFINE w == [t EXCEPT !.bet = bet, !.raise = IF bet - t.bet >= @ THEN bet - t.bet ELSE @]
<1> DEFINE v == Reopen(w, s)
<1>1. /\ DOMAIN w = TableFields /\ w.live = t.live /\ w.phase = t.phase
      /\ w.seat = t.seat
  BY DEF Swept, Shape, TableFields
<1>2. Raised(t, s) = v
  BY DEF Raised
<1> HIDE DEF w
<1>3. /\ DOMAIN v = TableFields /\ v.live = t.live /\ v.phase = t.phase
      /\ v.seat = [u \in Seats |-> IF u \in Active(w) \ {s}
                                     THEN [t.seat[u] EXCEPT !.acted = FALSE] ELSE t.seat[u]]
  BY <1>1 DEF Reopen, TableFields
<1> HIDE DEF v
<1>4. \A u \in Seats : /\ DOMAIN v.seat[u] = SeatFields
                       /\ v.seat[u].leaving = t.seat[u].leaving
                       /\ v.seat[u].state = t.seat[u].state
  BY <1>3 DEF Swept, Shape, SeatFields
<1>5. Swept(v)
  BY <1>3, <1>4 DEF Swept, Shape, OutOfPlay, OnStreet, NobodyLeaving
<1> QED
  BY <1>2, <1>5

(* One action of one seat.                                                 *)
LEMMA ApplySweeps ==
  ASSUME NEW t, Swept(t), NEW s \in Seats, t.seat[s].state = "playing", NEW a \in Bids
  PROVE  Swept(Apply(t, s, a))
<1> DEFINE seat == [t.seat[s] EXCEPT !.acted = TRUE]
<1> DEFINE after(c) == [t EXCEPT !.seat[s] = c]
<1> DEFINE paid == Pay(seat, ToCall(t, s))
<1> DEFINE bid == Pay(seat, a.amount)
<1> DEFINE total == Min({a.amount, seat.bet + seat.chips})
<1> DEFINE raise == Pay(seat, Max({0, total - seat.bet}))
<1> DEFINE all == Pay(seat, seat.chips)
<1> DEFINE shoved == [all EXCEPT !.state = "allin"]
<1>1. DOMAIN seat = SeatFields /\ ~seat.leaving
  BY DEF Swept, Shape, OutOfPlay, SeatFields
<1>2. \A c : DOMAIN c = SeatFields /\ ~c.leaving => Swept(after(c)) /\ Swept(Raised(after(c), s))
  BY SeatChanged, RaisedSweeps
<1>3. CASE a.type = "fold"
  <2> DEFINE c == [seat EXCEPT !.state = "folded"]
  <2>1. DOMAIN c = SeatFields /\ ~c.leaving
    BY <1>1 DEF SeatFields
  <2>2. Apply(t, s, a) = after(c)
    BY <1>3 DEF Apply
  <2> HIDE DEF c, seat
  <2> QED
    BY <1>2, <2>1, <2>2
<1>4. CASE a.type = "check"
  <2>1. Apply(t, s, a) = after(seat)
    BY <1>4 DEF Apply
  <2> HIDE DEF seat
  <2> QED
    BY <1>1, <1>2, <2>1
<1>5. CASE a.type = "call"
  <2> DEFINE c == [paid EXCEPT !.state = IF paid.chips = 0 THEN "allin" ELSE @]
  <2>1. Apply(t, s, a) = after(c)
    BY <1>5 DEF Apply
  <2> HIDE DEF seat
  <2>2. DOMAIN paid = SeatFields /\ ~paid.leaving
    BY <1>1, PayKeeps
  <2> HIDE DEF paid
  <2>3. DOMAIN c = SeatFields /\ ~c.leaving
    BY <2>2 DEF SeatFields
  <2> HIDE DEF c
  <2> QED
    BY <1>2, <2>1, <2>3
<1>6. CASE a.type = "bet"
  <2>1. Apply(t, s, a) = Raised(after(bid), s)
    BY <1>6 DEF Apply
  <2> HIDE DEF seat
  <2>2. DOMAIN bid = SeatFields /\ ~bid.leaving
    BY <1>1, PayKeeps
  <2> HIDE DEF bid
  <2> QED
    BY <1>2, <2>1, <2>2
<1>7. CASE a.type = "raise"
  <2>1. Apply(t, s, a) = Raised(after(raise), s)
    BY <1>7 DEF Apply
  <2> HIDE DEF seat, total
  <2>2. DOMAIN raise = SeatFields /\ ~raise.leaving
    BY <1>1, PayKeeps
  <2> HIDE DEF raise
  <2> QED
    BY <1>2, <2>1, <2>2
<1>8. CASE a.type = "allin"
  <2>1. Apply(t, s, a) = Raised(after(shoved), s) \/ Apply(t, s, a) = after(shoved)
    BY <1>8 DEF Apply
  <2> HIDE DEF seat
  <2>2. DOMAIN all = SeatFields /\ ~all.leaving
    BY <1>1, PayKeeps
  <2> HIDE DEF all
  <2>3. DOMAIN shoved = SeatFields /\ ~shoved.leaving
    BY <2>2 DEF SeatFields
  <2> HIDE DEF shoved
  <2> QED
    BY <1>2, <2>1, <2>3
<1>9. a.type \in {"fold", "check", "call", "bet", "raise", "allin"}
  BY DEF Bids
<1> QED
  BY <1>3, <1>4, <1>5, <1>6, <1>7, <1>8, <1>9

(* A client's action with all that follows.                                *)
LEMMA RespondSweeps ==
  ASSUME NEW t, Swept(t), NEW p, NEW a \in Bids, NEW u \in Respond(t, p, a)
  PROVE  Swept(u)
<1>1. CASE u = t
  BY <1>1
<1>2. CASE Current(t) # NoSeat /\ u \in Proceed(Apply(t, Current(t), a))
  <2>1. Swept(Apply(t, Current(t), a))
    BY <1>2, CurrentIsPlaying, ApplySweeps
  <2> QED
    BY <1>2, <2>1, ProceedSweeps
<1> QED
  BY <1>1, <1>2 DEF Respond

(* The clock's action with all that follows.                               *)
LEMMA CheckTimeoutSweeps ==
  ASSUME NEW t, Swept(t), NEW u \in CheckTimeout(t)
  PROVE  Swept(u)
<1> DEFINE s == Current(t)
<1>1. CASE u = t
  BY <1>1
<1>2. CASE s # NoSeat /\ u \in Proceed([t EXCEPT !.seat[s].acted = TRUE])
  <2> DEFINE c == [t.seat[s] EXCEPT !.acted = TRUE]
  <2>1. s \in Seats /\ DOMAIN c = SeatFields /\ ~c.leaving
    BY <1>2, CurrentIsPlaying DEF Swept, Shape, SeatFields
  <2>2. [t EXCEPT !.seat[s].acted = TRUE] = [t EXCEPT !.seat[s] = c]
    BY DEF Swept, Shape
  <2> HIDE DEF c, s
  <2> QED
    BY <1>2, <2>1, <2>2, SeatChanged, ProceedSweeps
<1>3. CASE s # NoSeat /\ u \in Proceed([t EXCEPT !.seat[s].state = "folded"])
  <2> DEFINE c == [t.seat[s] EXCEPT !.state = "folded"]
  <2>1. s \in Seats /\ DOMAIN c = SeatFields /\ ~c.leaving
    BY <1>3, CurrentIsPlaying DEF Swept, Shape, SeatFields
  <2>2. [t EXCEPT !.seat[s].state = "folded"] = [t EXCEPT !.seat[s] = c]
    BY DEF Swept, Shape
  <2> HIDE DEF c, s
  <2> QED
    BY <1>3, <2>1, <2>2, SeatChanged, ProceedSweeps
<1> QED
  BY <1>1, <1>2, <1>3 DEF CheckTimeout

(* A player becomes a leaver in a hand, and folded.                        *)
LEMMA LapseSweeps ==
  ASSUME NEW t, Swept(t), t.live, NEW p, NEW u \in Lapse(t, p)
  PROVE  Swept(u)
<1> DEFINE S == {s \in Active(t) : t.seat[s].id = p}
<1> DEFINE w == [t EXCEPT !.gone = @ \ {p},
                          !.seat = [s \in Seats |->
                                      IF s \in S THEN [@[s] EXCEPT !.state = "folded", !.leaving = TRUE]
                                                 ELSE @[s]]]
<1>1. u \in Proceed(w)
  BY DEF Lapse
<1>2. /\ DOMAIN w = TableFields /\ w.live = t.live /\ w.phase = t.phase
      /\ w.seat = [s \in Seats |-> IF s \in S
                                     THEN [t.seat[s] EXCEPT !.state = "folded", !.leaving = TRUE]
                                     ELSE t.seat[s]]
  BY DEF Swept, Shape, TableFields
<1> HIDE DEF w, S
<1>3. ASSUME NEW s \in Seats
      PROVE  /\ DOMAIN w.seat[s] = SeatFields
             /\ w.seat[s].leaving => w.seat[s].state \in {"folded", "allin"}
  <2>1. CASE s \in S
    <3>1. w.seat[s] = [t.seat[s] EXCEPT !.state = "folded", !.leaving = TRUE]
      BY <1>2, <2>1
    <3>2. DOMAIN t.seat[s] = SeatFields
      BY DEF Swept, Shape
    <3> QED
      BY <3>1, <3>2 DEF SeatFields
  <2>2. CASE s \notin S
    <3>1. w.seat[s] = t.seat[s]
      BY <1>2, <2>2
    <3> QED
      BY <3>1 DEF Swept, Shape, OutOfPlay
  <2> QED
    BY <2>1, <2>2
<1>4. Swept(w)
  BY <1>2, <1>3 DEF Swept, Shape, OutOfPlay, OnStreet
<1> QED
  BY <1>1, <1>4, ProceedSweeps

(* The operations of a table, one by one.                                  *)
LEMMA ProcessActionSweeps ==
  ASSUME IInv, NEW p, NEW a \in Bids, NEW late \in BOOLEAN, NEW lapsed,
         ProcessAction(p, a, late, lapsed)
  PROVE  IInv'
<1> DEFINE clock  == IF late THEN CheckTimeout(table) ELSE {table}
<1> DEFINE grace(t) == IF lapsed = {} THEN {t} ELSE UNION {Lapse(t, q) : q \in lapsed}
<1> DEFINE act(t) == Respond(t, p, a)
<1> DEFINE middle == Then(clock, grace)
<1>1. table' \in Then(middle, act)
  BY DEF ProcessAction
<1>2. \A t \in clock : Swept(t)
  BY CheckTimeoutSweeps DEF IInv
<1>3. \A t \in middle : Swept(t)
  <2> SUFFICES ASSUME NEW u \in middle PROVE Swept(u)
    OBVIOUS
  <2>1. PICK t \in clock : u \in IF t.live THEN grace(t) ELSE {t}
    BY DEF Then
  <2>2. CASE u = t
    BY <1>2, <2>2
  <2>3. CASE t.live /\ \E q \in lapsed : u \in Lapse(t, q)
    BY <1>2, <2>3, LapseSweeps
  <2> QED
    BY <2>1, <2>2, <2>3
<1> HIDE DEF middle
<1>4. PICK t \in middle : table' \in IF t.live THEN act(t) ELSE {t}
  BY <1>1 DEF Then
<1>5. Swept(table')
  BY <1>3, <1>4, RespondSweeps
<1> QED
  BY <1>5 DEF IInv

(* A hand starts without leavers.                                          *)
LEMMA StartHandSweeps ==
  ASSUME IInv, StartHand
  PROVE  IInv'
<1> DEFINE d == Deal(table)
<1>1. Swept(table) /\ NobodyLeaving(table)
  BY DEF IInv, Swept, OnStreet, StartHand, MayStart
<1>2. Shape(d) /\ NobodyLeaving(d) /\ d.phase = "preflop"
  BY <1>1, DealKeeps DEF Swept
<1>3. table' \in DoShowdown(d) \/ table' = OpenRound(d)
  BY DEF StartHand
<1> HIDE DEF d
<1>4. CASE table' \in DoShowdown(d)
  <2>1. OutOfPlay(d)
    BY <1>2 DEF NobodyLeaving, OutOfPlay
  <2> QED
    BY <1>2, <1>4, <2>1, DoShowdownSweeps DEF IInv
<1>5. CASE table' = OpenRound(d)
  <2>1. Shape(table') /\ NobodyLeaving(table') /\ OnStreet(table')
    BY <1>2, <1>5, OpenRoundKeeps DEF NobodyLeaving, OnStreet
  <2> QED
    BY <2>1, NobodyLeavingIsSwept DEF IInv
<1> QED
  BY <1>3, <1>4, <1>5

(* A change of one seat, the bank and who is away.                         *)
LEMMA SeatReplaced ==
  ASSUME NEW t, Swept(t), NEW u, NEW s \in Seats,
         DOMAIN u = TableFields, u.live = t.live, u.phase = t.phase,
         DOMAIN u.seat = Seats, \A v \in Seats \ {s} : u.seat[v] = t.seat[v],
         DOMAIN u.seat[s] = SeatFields, ~u.seat[s].leaving
  PROVE  Swept(u)
<1>1. Shape(u)
  BY DEF Swept, Shape
<1> QED
  BY <1>1 DEF Swept, OutOfPlay, OnStreet, NobodyLeaving

(* Who joins is not leaving.                                               *)
LEMMA JoinTableSweeps ==
  ASSUME IInv, NEW p, NEW s \in Seats, JoinTable(p, s)
  PROVE  IInv'
<1> USE DEF IInv
<1>1. Swept(table) /\ ~table.seat[s].leaving
  BY DEF JoinTable, Swept, OutOfPlay
<1>2. DOMAIN table = TableFields /\ DOMAIN table.seat = Seats /\ DOMAIN table.seat[s] = SeatFields
  BY <1>1 DEF Swept, Shape
<1>3. table' = [table EXCEPT !.seat[s] = [@ EXCEPT !.id = p, !.chips = BuyIn, !.state = "sitting"],
                             !.bank = @ + BuyIn]
  BY DEF JoinTable
<1>4. /\ DOMAIN table' = TableFields /\ table'.live = table.live /\ table'.phase = table.phase
      /\ DOMAIN table'.seat = Seats /\ \A v \in Seats \ {s} : table'.seat[v] = table.seat[v]
  BY <1>2, <1>3 DEF TableFields
<1>5. DOMAIN table'.seat[s] = SeatFields /\ ~table'.seat[s].leaving
  BY <1>1, <1>2, <1>3 DEF TableFields, SeatFields
<1> HIDE DEF IInv
<1>6. Swept(table')
  BY <1>1, <1>4, <1>5, SeatReplaced
<1> QED
  BY <1>6 DEF IInv

(* Who loses his connection folds later, or leaves at once.                *)
LEMMA DisconnectSweeps ==
  ASSUME "folded" \notin Events, IInv, NEW p, Disconnect(p)
  PROVE  IInv'
<1>1. Swept(table)
  BY DEF IInv
<1>2. PICK s \in SeatOf(table, p) :
        IF s \in InHand(table)
          THEN table' = [table EXCEPT !.gone = @ \cup {p}]
          ELSE /\ ~table.live
               /\ table' = [table EXCEPT !.bank = @ - table.seat[s].chips,
                              !.seat[s] = [@ EXCEPT !.id = Nobody, !.state = "empty",
                                                    !.cards = FALSE, !.bet = 0, !.in = 0]]
  BY DEF Disconnect
<1>3. /\ s \in Seats /\ DOMAIN table = TableFields
      /\ DOMAIN table.seat = Seats /\ DOMAIN table.seat[s] = SeatFields
  BY <1>1 DEF SeatOf, Taken, Swept, Shape
<1>4. CASE s \in InHand(table)
  <2>1. /\ DOMAIN table' = TableFields /\ table'.seat = table.seat
        /\ table'.live = table.live /\ table'.phase = table.phase
    BY <1>2, <1>3, <1>4 DEF TableFields
  <2> QED
    BY <1>1, <2>1 DEF IInv, Swept, Shape, OutOfPlay, OnStreet, NobodyLeaving
<1>5. CASE s \notin InHand(table)
  <2> DEFINE c == [table.seat[s] EXCEPT !.id = Nobody, !.state = "empty",
                                         !.cards = FALSE, !.bet = 0, !.in = 0]
  <2> DEFINE rest == table.bank - table.seat[s].chips
  <2>1. DOMAIN c = SeatFields /\ ~c.leaving
    BY <1>1, <1>2, <1>3, <1>5 DEF Swept, NobodyLeaving, SeatFields
  <2>2. table' = [table EXCEPT !.bank = rest, !.seat[s] = c]
    BY <1>2, <1>5
  <2> HIDE DEF c, rest
  <2>3. /\ DOMAIN table' = TableFields /\ table'.live = table.live /\ table'.phase = table.phase
        /\ DOMAIN table'.seat = Seats /\ \A v \in Seats \ {s} : table'.seat[v] = table.seat[v]
        /\ table'.seat[s] = c
    BY <1>3, <2>2 DEF TableFields
  <2>4. Swept(table')
    BY <1>1, <1>3, <2>1, <2>3, SeatReplaced
  <2> QED
    BY <2>4 DEF IInv
<1> QED
  BY <1>4, <1>5

(* Who asks for his chips folds at once and is marked.                     *)
LEMMA RequestCashOutSweeps ==
  ASSUME IInv, NEW p, RequestCashOut(p)
  PROVE  IInv'
<1>1. Swept(table)
  BY DEF IInv
<1> DEFINE folds(s) == [table EXCEPT !.seat[s].leaving = TRUE, !.seat[s].state = "folded",
                                     !.seat[s].acted = TRUE]
<1>2. PICK s \in SeatOf(table, p) :
        \/ table.live /\ s \in Active(table) /\ table' \in Proceed(folds(s))
        \/ table.live /\ s \in InHand(table) \ Active(table)
             /\ table' = [table EXCEPT !.seat[s].leaving = TRUE]
        \/ table' = [table EXCEPT !.bank = @ - table.seat[s].chips,
                                  !.seat[s] = [EmptySeat EXCEPT !.acted = table.seat[s].acted]]
  BY DEF RequestCashOut
<1>3. /\ s \in Seats /\ DOMAIN table = TableFields
      /\ DOMAIN table.seat = Seats /\ DOMAIN table.seat[s] = SeatFields
  BY <1>1 DEF SeatOf, Taken, Swept, Shape
<1>4. CASE table.live /\ s \in Active(table) /\ table' \in Proceed(folds(s))
  <2> DEFINE w == folds(s)
  <2>1. /\ DOMAIN w = TableFields /\ w.live = table.live /\ w.phase = table.phase
        /\ DOMAIN w.seat = Seats /\ \A v \in Seats \ {s} : w.seat[v] = table.seat[v]
    BY <1>3 DEF TableFields
  <2>2. DOMAIN w.seat[s] = SeatFields /\ w.seat[s].state = "folded"
    BY <1>3 DEF TableFields, SeatFields
  <2> HIDE DEF w
  <2>3. Swept(w)
    BY <1>1, <1>4, <2>1, <2>2 DEF Swept, Shape, OutOfPlay, OnStreet
  <2> QED
    BY <1>4, <2>3, ProceedSweeps DEF w, IInv
<1>5. CASE table.live /\ s \in InHand(table) \ Active(table)
             /\ table' = [table EXCEPT !.seat[s].leaving = TRUE]
  <2>1. table.seat[s].state = "allin"
    BY <1>3, <1>5 DEF InHand, Active
  <2>2. /\ DOMAIN table' = TableFields /\ table'.live = table.live /\ table'.phase = table.phase
        /\ DOMAIN table'.seat = Seats /\ \A v \in Seats \ {s} : table'.seat[v] = table.seat[v]
    BY <1>3, <1>5 DEF TableFields
  <2>3. DOMAIN table'.seat[s] = SeatFields /\ table'.seat[s].state = "allin"
    BY <1>3, <1>5, <2>1 DEF TableFields, SeatFields
  <2>4. Swept(table')
    BY <1>1, <1>5, <2>2, <2>3 DEF Swept, Shape, OutOfPlay, OnStreet
  <2> QED
    BY <2>4 DEF IInv
<1>6. CASE table' = [table EXCEPT !.bank = @ - table.seat[s].chips,
                                  !.seat[s] = [EmptySeat EXCEPT !.acted = table.seat[s].acted]]
  <2> DEFINE e == [EmptySeat EXCEPT !.acted = table.seat[s].acted]
  <2>1. DOMAIN e = SeatFields /\ ~e.leaving
    BY DEF EmptySeat, SeatFields
  <2>2. /\ DOMAIN table' = TableFields /\ table'.live = table.live /\ table'.phase = table.phase
        /\ DOMAIN table'.seat = Seats /\ \A v \in Seats \ {s} : table'.seat[v] = table.seat[v]
    BY <1>3, <1>6 DEF TableFields
  <2>3. DOMAIN table'.seat[s] = SeatFields /\ ~table'.seat[s].leaving
    BY <1>3, <1>6, <2>1 DEF TableFields, EmptySeat, SeatFields
  <2>4. Swept(table')
    BY <1>1, <1>3, <2>2, <2>3, SeatReplaced
  <2> QED
    BY <2>4 DEF IInv
<1> QED
  BY <1>2, <1>4, <1>5, <1>6

(* The first state.                                                        *)
LEMMA InitSweeps == Init => IInv
<1> SUFFICES ASSUME Init PROVE IInv
  OBVIOUS
<1> DEFINE ids(stacks) == CHOOSE f \in [DOMAIN stacks -> Players] :
                             \A s, u \in DOMAIN stacks : s # u => f[s] # f[u]
<1>1. PICK setup \in InitialTables :
        table = [seat |-> [s \in Seats |->
                             IF s \in DOMAIN setup.stacks
                               THEN [EmptySeat EXCEPT !.id = ids(setup.stacks)[s],
                                                      !.state = "sitting",
                                                      !.chips = setup.stacks[s]]
                               ELSE EmptySeat],
                 phase |-> "waiting", hand |-> setup.hand, dealer |-> 0, action |-> 0, bet |-> 0,
                 raise |-> 0, live |-> FALSE, gone |-> {},
                 settled |-> NothingSettled, bank |-> Total(setup.stacks)]
  BY DEF Init
<1> HIDE DEF ids
<1>2. DOMAIN table = TableFields /\ DOMAIN table.seat = Seats /\ ~table.live
  BY <1>1 DEF TableFields
<1>3. \A s \in Seats : DOMAIN table.seat[s] = SeatFields /\ ~table.seat[s].leaving
  BY <1>1 DEF EmptySeat, SeatFields
<1>4. Shape(table) /\ NobodyLeaving(table) /\ OnStreet(table)
  BY <1>2, <1>3 DEF Shape, NobodyLeaving, OnStreet
<1> QED
  BY <1>4, NobodyLeavingIsSwept DEF IInv

(* Every step.                                                             *)
LEMMA NextSweeps ==
  ASSUME "folded" \notin Events, IInv, [Next]_vars
  PROVE  IInv'
<1>1. CASE StartHand
  BY <1>1, StartHandSweeps
<1>2. ASSUME NEW p \in Players, NEW a \in Bids, NEW late \in BOOLEAN, NEW lapsed,
             ProcessAction(p, a, late, lapsed)
      PROVE  IInv'
  BY <1>2, ProcessActionSweeps
<1>3. ASSUME NEW p \in Players, NEW s \in Seats, JoinTable(p, s) PROVE IInv'
  BY <1>3, JoinTableSweeps
<1>4. ASSUME NEW p \in Players, Disconnect(p) PROVE IInv'
  BY <1>4, DisconnectSweeps
<1>5. ASSUME NEW p \in Players, RequestCashOut(p) PROVE IInv'
  BY <1>5, RequestCashOutSweeps
<1>6. CASE UNCHANGED table
  BY <1>6 DEF IInv
<1> QED
  BY <1>1, <1>2, <1>3, <1>4, <1>5, <1>6 DEF Next, Reconnect, vars

(* Unless a folded player leaves or disconnects before the end of his      *)
(* hand, which empties his seat under the hand (MCGameStateFoldedLeaver):  *)
(* a seat to be swept is in a hand in progress and has folded or is all-in. *)
(* So the sweep at HAND_COMPLETE (onTableGameEvent of                      *)
(* cli/poker_ws_server.cpp) leaves no ghost seat behind for the next hand. *)
THEOREM TableLeaversWereInHand ==
  ASSUME "folded" \notin Events
  PROVE  Spec => []LeaversWereInHand
<1>1. Init => IInv
  BY InitSweeps
<1>2. IInv /\ [Next]_vars => IInv'
  BY NextSweeps
<1>3. IInv => LeaversWereInHand
  BY DEF IInv, Swept, OutOfPlay, NobodyLeaving, Taken, LeaversWereInHand
<1> QED
  BY <1>1, <1>2, <1>3, PTL DEF Spec

-----------------------------------------------------------------------------
(* What everyone put in up to c.                                           *)
UpTo(in, c) == [u \in DOMAIN in |-> IF in[u] <= c THEN in[u] ELSE c]

Lesser(a, b) == IF a <= b THEN a ELSE b

Live(in, folded) == Contributors(in) \ folded

(* Who put in as much as somebody who may win it may win it too.           *)
Upward(in, folded, E) == \A p \in Live(in, folded), q \in E : in[q] <= in[p] => p \in E

Pot(D) == [amount: Nat, eligible: SUBSET D]

AmountsOf(pots) == [i \in DOMAIN pots |-> pots[i].amount]

(* What p may win of each pot.                                             *)
Mine(pots, p) == [i \in DOMAIN pots |-> IF p \in pots[i].eligible THEN pots[i].amount ELSE 0]

(* No living player put in more than p.                                    *)
Topped(in, folded, p) == \A v \in Live(in, folded) : in[v] <= in[p]

(* What p can win from each other player.                                  *)
Stakes(in, folded, p) ==
  [u \in DOMAIN in |-> IF u \in folded /\ Topped(in, folded, p) THEN in[u] ELSE Lesser(in[p], in[u])]

-----------------------------------------------------------------------------
(* A sum over one index more.                                              *)
LEMMA SumNextIndex ==
  ASSUME NEW n \in Nat, NEW f, NEW g, \A i \in 1 .. n : f[i] \in Int /\ g[i] = f[i],
         g[n + 1] \in Int
  PROVE  Sum(g, 1 .. n + 1) = Sum(f, 1 .. n) + g[n + 1]
<1>1. IsFiniteSet(1 .. n) /\ IsFiniteSet(1 .. n + 1)
  BY FS_Interval
<1>2. (1 .. n) \cup {n + 1} = 1 .. n + 1 /\ n + 1 \notin 1 .. n
  OBVIOUS
<1>3. \A i \in (1 .. n) \cup {n + 1} : g[i] \in Int
  OBVIOUS
<1>4. Sum(g, (1 .. n) \cup {n + 1}) = g[n + 1] + Sum(g, 1 .. n)
  BY <1>1, <1>2, <1>3, SumAdd
<1>5. Sum(g, 1 .. n) = Sum(f, 1 .. n)
  BY <1>1, SumEqual
<1>6. Sum(f, 1 .. n) \in Int
  BY <1>1, SumInt
<1>7. Sum(g, 1 .. n + 1) = g[n + 1] + Sum(f, 1 .. n)
  BY <1>2, <1>4, <1>5
<1> QED
  BY <1>6, <1>7

(* What a layer adds to what everyone put in.                              *)
LEMMA LayerAmount ==
  ASSUME NEW D, IsFiniteSet(D), NEW in \in [D -> Nat], NEW low \in Nat, NEW high \in Nat,
         low < high, \A u \in D : in[u] <= low \/ in[u] >= high, NEW folded
  PROVE  /\ Layer(in, folded, low, high).amount \in Nat
         /\ Sum(UpTo(in, high), D) = Sum(UpTo(in, low), D) + Layer(in, folded, low, high).amount
<1> DEFINE R == {p \in Contributors(in) : in[p] >= high}
<1> DEFINE f == UpTo(in, low)
<1> DEFINE h == UpTo(in, high)
<1> DEFINE g == [u \in D |-> IF u \in R THEN high - low ELSE 0]
<1>1. R \subseteq D /\ \A u \in D : u \in R <=> in[u] >= high
  BY DEF Contributors
<1>2. IsFiniteSet(R) /\ IsFiniteSet(D \ R) /\ R \cup (D \ R) = D /\ R \cap (D \ R) = {}
  BY <1>1, FS_Subset
<1>3. Layer(in, folded, low, high).amount = (high - low) * Cardinality(R)
  BY DEF Layer
<1> HIDE DEF R
<1>4. \A u \in D : f[u] \in Int /\ g[u] \in Int /\ h[u] = f[u] + g[u]
  BY <1>1 DEF UpTo
<1>5. /\ \A u \in D : g[u] \in Int
      /\ \A u \in R : g[u] = high - low
      /\ \A u \in D \ R : g[u] = 0
  BY <1>1
<1> HIDE DEF f, g, h
<1>6. Sum(h, D) = Sum(f, D) + Sum(g, D)
  BY <1>4, SumPlus
<1>7. Sum(g, D) = Sum(g, R) + Sum(g, D \ R)
  BY <1>2, <1>5, SumUnion
<1>8. Sum(g, D \ R) = 0
  BY <1>2, <1>5, SumZero
<1>9. high - low \in Nat
  OBVIOUS
<1>10. Sum(g, R) = (high - low) * Cardinality(R)
  BY <1>2, <1>5, <1>9, SumConst
<1>11. Cardinality(R) \in Nat
  BY <1>2, FS_CardinalityType
<1>12. (high - low) * Cardinality(R) \in Nat
  BY <1>9, <1>11
<1> QED
  BY <1>3, <1>6, <1>7, <1>8, <1>10, <1>12 DEF f, h

(* The loop of BuildPots: nothing is lost, and who is alive may win the    *)
(* layers up to what he put in.                                            *)
LayersOK(in, folded, acc) ==
  LET n == Len(acc.pots) IN
  /\ acc.pots \in Seq(Pot(DOMAIN in)) /\ acc.dead \in Nat /\ acc.level \in Nat
  /\ \A i \in 1 .. n : /\ acc.pots[i].eligible # {}
                       /\ acc.pots[i].eligible \subseteq Live(in, folded)
                       /\ Upward(in, folded, acc.pots[i].eligible)
                       /\ \A p \in Live(in, folded) :
                            Topped(in, folded, p) => p \in acc.pots[i].eligible
  /\ acc.dead # 0 => \A p \in Live(in, folded) : in[p] < acc.level
  /\ n = 0 => \A p \in Live(in, folded) : in[p] > acc.level
  /\ n > 0 => \A p \in acc.pots[n].eligible : in[p] >= acc.level \/ Topped(in, folded, p)
  /\ Sum(AmountsOf(acc.pots), 1 .. n) + acc.dead = Sum(UpTo(in, acc.level), DOMAIN in)
  /\ \A p \in Live(in, folded) :
       Sum(Mine(acc.pots, p), 1 .. n) = Sum(UpTo(in, Lesser(acc.level, in[p])), DOMAIN in)

NoLayers == [pots |-> << >>, dead |-> 0, level |-> 0]

(* Before the loop.                                                        *)
LEMMA NoLayersOK ==
  ASSUME NEW D, IsFiniteSet(D), NEW in \in [D -> Nat], NEW folded
  PROVE  LayersOK(in, folded, NoLayers)
<1>1. \A p \in Live(in, folded) : in[p] \in Nat /\ in[p] > 0 /\ Lesser(0, in[p]) = 0
  BY DEF Live, Contributors, Lesser
<1>2. \A u \in D : UpTo(in, 0)[u] = 0
  BY DEF UpTo
<1>3. Sum(UpTo(in, 0), D) = 0
  BY <1>2, SumZero
<1>4. 1 .. 0 = {} /\ Len(<< >>) = 0 /\ << >> \in Seq(Pot(DOMAIN in))
  OBVIOUS
<1>5. \A f : Sum(f, 1 .. 0) = 0
  BY <1>4, SumEmpty
<1>6. NoLayers.pots = << >> /\ NoLayers.dead = 0 /\ NoLayers.level = 0 /\ DOMAIN in = D
  BY DEF NoLayers
<1> QED
  BY <1>1, <1>3, <1>4, <1>5, <1>6 DEF LayersOK

(* One turn of the loop.                                                   *)
LEMMA PeelKeeps ==
  ASSUME NEW D, IsFiniteSet(D), NEW in \in [D -> Nat], NEW folded, NEW acc,
         DOMAIN acc = {"pots", "dead", "level"},
         LayersOK(in, folded, acc), NEW high \in Nat, acc.level < high,
         \A u \in D : in[u] <= acc.level \/ in[u] >= high
  PROVE  /\ LayersOK(in, folded, Peel(in, folded, acc, high))
         /\ Peel(in, folded, acc, high).level = high
         /\ DOMAIN Peel(in, folded, acc, high) = {"pots", "dead", "level"}
<1> DEFINE layer == Layer(in, folded, acc.level, high)
<1> DEFINE new == Peel(in, folded, acc, high)
<1> DEFINE live == Live(in, folded)
<1> DEFINE n == Len(acc.pots)
<1>0. /\ n \in Nat /\ acc.pots \in Seq(Pot(D)) /\ acc.dead \in Nat /\ acc.level \in Nat
      /\ DOMAIN acc.pots = 1 .. n
  BY DEF LayersOK
<1>pots. \A i \in 1 .. n : /\ acc.pots[i] \in Pot(D)
                          /\ acc.pots[i].amount \in Int
                          /\ AmountsOf(acc.pots)[i] = acc.pots[i].amount
                          /\ \A p : Mine(acc.pots, p)[i] = IF p \in acc.pots[i].eligible
                                                              THEN acc.pots[i].amount ELSE 0
  <2>1. \A i \in 1 .. n : acc.pots[i] \in Pot(D)
    BY <1>0
  <2>2. \A c \in Pot(D) : c.amount \in Int
    BY DEF Pot
  <2> QED
    BY <1>0, <2>1, <2>2 DEF AmountsOf, Mine
<1>1. layer.amount \in Nat /\ Sum(UpTo(in, high), D) = Sum(UpTo(in, acc.level), D) + layer.amount
  BY <1>0, LayerAmount
<1>2. /\ live \subseteq D /\ layer.eligible = {p \in live : in[p] >= high}
      /\ DOMAIN layer = {"amount", "eligible"}
  BY DEF Layer, Live, Contributors
<1>3. \A c \in Nat : Sum(UpTo(in, c), D) \in Int
  <2>1. \A c \in Nat : \A u \in D : UpTo(in, c)[u] \in Int
    BY DEF UpTo
  <2> QED
    BY <2>1, SumInt
<1> HIDE DEF layer
<1>4. CASE layer.eligible = {}
  <2>1. \A p \in live : in[p] <= acc.level
    BY <1>2, <1>4
  <2>2. new.pots = acc.pots /\ new.dead = acc.dead + layer.amount /\ new.level = high
        /\ DOMAIN new = {"pots", "dead", "level"}
    BY <1>4 DEF Peel, layer
  <2> HIDE DEF new
  <2>3. \A p \in live : in[p] < high /\ Lesser(high, in[p]) = Lesser(acc.level, in[p])
    BY <1>0, <1>2, <2>1 DEF Lesser
  <2>4. n = 0 => live = {}
    BY <1>0, <1>2, <2>1 DEF LayersOK
  <2>5. \A p \in live : in[p] >= acc.level => Topped(in, folded, p)
    BY <1>0, <1>2, <2>1 DEF Topped
  <2>6. Sum(AmountsOf(new.pots), 1 .. n) + new.dead = Sum(UpTo(in, high), D)
    <3>1. Sum(AmountsOf(acc.pots), 1 .. n) + acc.dead = Sum(UpTo(in, acc.level), D)
      BY DEF LayersOK
    <3>2. Sum(AmountsOf(acc.pots), 1 .. n) \in Int
      <4>1. \A i \in 1 .. n : AmountsOf(acc.pots)[i] \in Int
        BY <1>pots
      <4>2. IsFiniteSet(1 .. n)
        BY <1>0, FS_Interval
      <4> QED
        BY <4>1, <4>2, SumInt
    <3> QED
      BY <1>0, <1>1, <1>3, <2>2, <3>1, <3>2
  <2>7. n > 0 => acc.pots[n].eligible \subseteq live
    BY <1>0 DEF LayersOK
  <2>8. n > 0 => \A p \in acc.pots[n].eligible : Topped(in, folded, p)
    BY <2>5, <2>7 DEF LayersOK
  <2>9. \A p \in live :
          Sum(Mine(new.pots, p), 1 .. n) = Sum(UpTo(in, Lesser(high, in[p])), D)
    BY <2>2, <2>3 DEF LayersOK
  <2>10. /\ new.pots \in Seq(Pot(D)) /\ new.dead \in Nat /\ new.level \in Nat
         /\ \A i \in 1 .. n : /\ new.pots[i].eligible # {}
                              /\ new.pots[i].eligible \subseteq live
                              /\ Upward(in, folded, new.pots[i].eligible)
                              /\ \A p \in live : Topped(in, folded, p) => p \in new.pots[i].eligible
    BY <1>0, <1>1, <2>2 DEF LayersOK
  <2>11. LayersOK(in, folded, new)
    BY <1>0, <2>2, <2>3, <2>4, <2>6, <2>8, <2>9, <2>10 DEF LayersOK
  <2> QED
    BY <2>2, <2>11 DEF new
<1>5. CASE layer.eligible # {}
  <2>1. PICK q \in live : in[q] >= high
    BY <1>2, <1>5
  <2>2. acc.dead = 0
    <3>1. ~(in[q] < acc.level)
      BY <1>0, <1>2, <2>1
    <3> QED
      BY <2>1, <3>1 DEF LayersOK
  <2> DEFINE pot == [layer EXCEPT !.amount = @ + acc.dead]
  <2>3. pot.amount = layer.amount /\ pot.eligible = layer.eligible /\ pot \in Pot(D)
    <3>0. layer = [amount |-> layer.amount, eligible |-> layer.eligible]
      BY DEF layer, Layer
    <3>1. pot = [amount |-> layer.amount + acc.dead, eligible |-> layer.eligible]
      BY <3>0
    <3> HIDE DEF pot
    <3>2. layer.amount + acc.dead = layer.amount
      BY <1>1, <2>2
    <3>3. layer.eligible \in SUBSET D
      BY <1>2
    <3> QED
      BY <1>1, <3>1, <3>2, <3>3 DEF Pot
  <2>4. /\ new.pots = Append(acc.pots, pot) /\ new.dead = 0 /\ new.level = high
        /\ DOMAIN new = {"pots", "dead", "level"}
    BY <1>5 DEF Peel, layer
  <2> HIDE DEF new, pot
  <2>5. /\ new.pots \in Seq(Pot(D)) /\ Len(new.pots) = n + 1 /\ DOMAIN new.pots = 1 .. n + 1
        /\ new.pots[n + 1] = pot /\ \A i \in 1 .. n : new.pots[i] = acc.pots[i]
    BY <1>0, <2>3, <2>4
  <2>new. /\ \A i \in 1 .. n + 1 : AmountsOf(new.pots)[i] = new.pots[i].amount
          /\ \A i \in 1 .. n + 1 : \A p : Mine(new.pots, p)[i] = IF p \in new.pots[i].eligible
                                                                  THEN new.pots[i].amount ELSE 0
    BY <2>5 DEF AmountsOf, Mine
  <2>last. n + 1 \in 1 .. n + 1 /\ \A i \in 1 .. n : i \in 1 .. n + 1
    BY <1>0
  <2>6. Sum(AmountsOf(new.pots), 1 .. n + 1) = Sum(AmountsOf(acc.pots), 1 .. n) + layer.amount
    <3>1. \A i \in 1 .. n : /\ AmountsOf(acc.pots)[i] \in Int
                            /\ AmountsOf(new.pots)[i] = AmountsOf(acc.pots)[i]
      BY <1>pots, <2>5, <2>new, <2>last
    <3>2. AmountsOf(new.pots)[n + 1] = layer.amount /\ layer.amount \in Int
      BY <1>1, <2>3, <2>5, <2>new, <2>last, layer.amount \in Int
    <3> DEFINE f == AmountsOf(acc.pots)
    <3> DEFINE g == AmountsOf(new.pots)
    <3>3. g[n + 1] \in Int /\ \A i \in 1 .. n : f[i] \in Int /\ g[i] = f[i]
      BY <3>1, <3>2
    <3>4. n \in Nat
      BY <1>0
    <3> HIDE DEF f, g, n
    <3>5. Sum(g, 1 .. n + 1) = Sum(f, 1 .. n) + g[n + 1]
      BY <3>3, <3>4, SumNextIndex
    <3> QED
      BY <3>2, <3>5 DEF f, g
  <2>7. Sum(AmountsOf(new.pots), 1 .. n + 1) + new.dead = Sum(UpTo(in, high), D)
    <3>1. Sum(AmountsOf(acc.pots), 1 .. n) + 0 = Sum(UpTo(in, acc.level), D)
      BY <2>2 DEF LayersOK
    <3>2. Sum(AmountsOf(acc.pots), 1 .. n) \in Int
      <4>1. \A i \in 1 .. n : AmountsOf(acc.pots)[i] \in Int
        BY <1>pots
      <4>2. IsFiniteSet(1 .. n)
        BY <1>0, FS_Interval
      <4> QED
        BY <4>1, <4>2, SumInt
    <3> QED
      BY <1>1, <1>3, <2>4, <2>6, <3>1, <3>2
  <2>8. ASSUME NEW p \in live
        PROVE  Sum(Mine(new.pots, p), 1 .. n + 1) = Sum(UpTo(in, Lesser(high, in[p])), D)
    <3> DEFINE more == IF in[p] >= high THEN layer.amount ELSE 0
    <3>0. in[p] \in Nat /\ p \in D
      BY <1>2
    <3>1. \A i \in 1 .. n : /\ Mine(acc.pots, p)[i] \in Int
                            /\ Mine(new.pots, p)[i] = Mine(acc.pots, p)[i]
      BY <1>pots, <2>5, <2>new, <2>last
    <3>2. Mine(new.pots, p)[n + 1] = more /\ more \in Int
      <4>1. more \in Int
        BY <1>1
      <4>2. Mine(new.pots, p)[n + 1] = IF p \in pot.eligible THEN pot.amount ELSE 0
        BY <2>5, <2>new, <2>last
      <4> QED
        BY <1>2, <2>3, <4>1, <4>2
    <3>3. Sum(Mine(new.pots, p), 1 .. n + 1) = Sum(Mine(acc.pots, p), 1 .. n) + more
      <4> DEFINE f == Mine(acc.pots, p)
      <4> DEFINE g == Mine(new.pots, p)
      <4>1. g[n + 1] \in Int /\ \A i \in 1 .. n : f[i] \in Int /\ g[i] = f[i]
        BY <3>1, <3>2
      <4>2. n \in Nat
        BY <1>0
      <4> HIDE DEF f, g, n
      <4>3. Sum(g, 1 .. n + 1) = Sum(f, 1 .. n) + g[n + 1]
        BY <4>1, <4>2, SumNextIndex
      <4> QED
        BY <3>2, <4>3 DEF f, g
    <3>4. Sum(Mine(acc.pots, p), 1 .. n) = Sum(UpTo(in, Lesser(acc.level, in[p])), D)
      BY DEF LayersOK
    <3>5. CASE in[p] >= high
      <4>1. Lesser(high, in[p]) = high /\ Lesser(acc.level, in[p]) = acc.level
        BY <1>0, <3>0, <3>5 DEF Lesser
      <4> QED
        BY <1>1, <3>3, <3>4, <3>5, <4>1
    <3>6. CASE in[p] <= acc.level
      <4>1. Lesser(high, in[p]) = in[p] /\ Lesser(acc.level, in[p]) = in[p] /\ more = 0
        BY <1>0, <3>0, <3>6 DEF Lesser
      <4>2. Sum(UpTo(in, in[p]), D) \in Int
        BY <1>3, <3>0
      <4> QED
        BY <3>3, <3>4, <4>1, <4>2
    <3> QED
      BY <3>0, <3>5, <3>6
  <2>9. \A p \in live : Topped(in, folded, p) => p \in layer.eligible
    <3>1. \A p \in live : Topped(in, folded, p) => in[q] <= in[p]
      BY <2>1 DEF Topped
    <3>2. \A p \in live : in[p] \in Nat
      BY <1>2
    <3> QED
      BY <1>2, <2>1, <3>1, <3>2
  <2>10. ASSUME NEW i \in 1 .. n + 1
         PROVE  /\ new.pots[i].eligible # {} /\ new.pots[i].eligible \subseteq live
                /\ Upward(in, folded, new.pots[i].eligible)
                /\ \A p \in live : Topped(in, folded, p) => p \in new.pots[i].eligible
    <3>1. CASE i = n + 1
      <4>1. Upward(in, folded, layer.eligible)
        <5>1. \A p \in live : in[p] \in Nat
          BY <1>2
        <5> QED
          BY <1>2, <5>1 DEF Upward
      <4> QED
        BY <1>2, <1>5, <2>3, <2>5, <2>9, <3>1, <4>1
    <3>2. CASE i \in 1 .. n
      BY <2>5, <3>2 DEF LayersOK
    <3> QED
      BY <1>0, <3>1, <3>2
  <2>11. \A p \in new.pots[n + 1].eligible : in[p] >= high
    BY <1>2, <2>3, <2>5
  <2>12. n + 1 # 0 /\ DOMAIN in = D
    BY <1>0
  <2>13. LayersOK(in, folded, new)
    BY <2>4, <2>5, <2>7, <2>8, <2>10, <2>11, <2>12 DEF LayersOK
  <2> QED
    BY <2>4, <2>13 DEF new
<1> QED
  BY <1>4, <1>5

-----------------------------------------------------------------------------
(* The fold that Layers is.                                                *)
Peels(in, folded, S, g) ==
  g = [s \in SUBSET S |-> IF s = {} THEN NoLayers
                                    ELSE Peel(in, folded, g[s \ {Max(s)}], Max(s))]

Peeler(in, folded, S) == CHOOSE g : Peels(in, folded, S, g)

(* Layers is that fold.                                                    *)
LEMMA LayersArePeeled ==
  ASSUME NEW in, NEW folded
  PROVE  Layers(in, folded) = Peeler(in, folded, Levels(in))[Levels(in)]
BY DEF Layers, MapThenFoldSet, Peels, Peeler, NoLayers

AnyLayers(D) == [pots: Seq([amount: Int, eligible: SUBSET D]), dead: Int, level: Int]

(* A layer more is a sequence of layers.                                   *)
LEMMA PeelType ==
  ASSUME NEW D, IsFiniteSet(D), NEW in \in [D -> Nat], NEW folded, NEW acc \in AnyLayers(D),
         NEW high \in Nat
  PROVE  Peel(in, folded, acc, high) \in AnyLayers(D)
<1> DEFINE layer == Layer(in, folded, acc.level, high)
<1> DEFINE R == {p \in Contributors(in) : in[p] >= high}
<1>1. IsFiniteSet(R) /\ R \subseteq D
  <2>1. R \subseteq D
    BY DEF Contributors
  <2> QED
    BY <2>1, FS_Subset
<1>2. Cardinality(R) \in Int
  BY <1>1, FS_CardinalityType
<1>3. layer = [amount |-> (high - acc.level) * Cardinality(R), eligible |-> R \ folded]
  BY DEF Layer
<1>4. acc.level \in Int /\ acc.dead \in Int
      /\ acc.pots \in Seq([amount: Int, eligible: SUBSET D])
  BY DEF AnyLayers
<1>5. (high - acc.level) * Cardinality(R) \in Int
  BY <1>2, <1>4
<1>6. layer.amount \in Int /\ layer.eligible \in SUBSET D
  BY <1>1, <1>3, <1>5
<1>7. [layer EXCEPT !.amount = @ + acc.dead]
        = [amount |-> layer.amount + acc.dead, eligible |-> layer.eligible]
  <2>1. layer = [amount |-> layer.amount, eligible |-> layer.eligible]
    BY <1>3
  <2> HIDE DEF layer
  <2> QED
    BY <2>1
<1>8. acc = [pots |-> acc.pots, dead |-> acc.dead, level |-> acc.level]
  BY DEF AnyLayers
<1> HIDE DEF layer, R
<1> DEFINE pot == [amount |-> layer.amount + acc.dead, eligible |-> layer.eligible]
<1>9. pot \in [amount: Int, eligible: SUBSET D]
  BY <1>4, <1>6
<1>10. Peel(in, folded, acc, high) =
        IF layer.eligible = {} THEN [acc EXCEPT !.dead = @ + layer.amount, !.level = high]
        ELSE [pots |-> Append(acc.pots, pot), dead |-> 0, level |-> high]
  BY <1>7 DEF Peel, layer
<1>11. CASE layer.eligible = {}
  <2>1. Peel(in, folded, acc, high)
          = [pots |-> acc.pots, dead |-> acc.dead + layer.amount, level |-> high]
    BY <1>8, <1>10, <1>11
  <2> QED
    BY <1>4, <1>6, <2>1 DEF AnyLayers
<1>12. CASE layer.eligible # {}
  <2> HIDE DEF pot
  <2>1. Append(acc.pots, pot) \in Seq([amount: Int, eligible: SUBSET D])
    BY <1>4, <1>9
  <2> QED
    BY <1>10, <1>12, <2>1 DEF AnyLayers
<1> QED
  BY <1>11, <1>12

(* The levels are finitely many positive amounts.                          *)
LEMMA LevelsFinite ==
  ASSUME NEW D, IsFiniteSet(D), NEW in \in [D -> Nat]
  PROVE  IsFiniteSet(Levels(in)) /\ Levels(in) \subseteq Nat \ {0}
<1> DEFINE C == Contributors(in)
<1>1. C \subseteq D /\ IsFiniteSet(C) /\ \A p \in C : in[p] \in Nat \ {0}
  <2>1. C \subseteq D /\ \A p \in C : in[p] \in Nat \ {0}
    BY DEF Contributors
  <2> QED
    BY <2>1, FS_Subset
<1> HIDE DEF C
<1>2. IsFiniteSet({in[p] : p \in C})
  <2> DEFINE f == [p \in C |-> in[p]]
  <2>1. f \in Surjection(C, {in[p] : p \in C})
    BY DEF Surjection
  <2> HIDE DEF f
  <2> QED
    BY <1>1, <2>1, FS_Surjection
<1> QED
  BY <1>1, <1>2 DEF Levels, C

(* The fold satisfies its equation.                                        *)
LEMMA PeelerPeels ==
  ASSUME NEW D, IsFiniteSet(D), NEW in \in [D -> Nat], NEW folded
  PROVE  Peels(in, folded, Levels(in), Peeler(in, folded, Levels(in)))
<1> DEFINE S == Levels(in)
<1> DEFINE V == AnyLayers(D)
<1> DEFINE step == [s \in SUBSET S |-> [v \in V |->
                      IF s = {} THEN v ELSE Peel(in, folded, v, Max(s))]]
<1> DEFINE pick == [s \in SUBSET S |-> Max(s)]
<1>0. IsFiniteSet(S) /\ S \subseteq Nat
  BY LevelsFinite
<1>1. \A s \in SUBSET S : s # {} => Max(s) \in s
  <2> SUFFICES ASSUME NEW s \in SUBSET S, s # {} PROVE Max(s) \in s
    OBVIOUS
  <2>1. IsFiniteSet(s) /\ s \subseteq Int
    BY <1>0, FS_Subset
  <2> QED
    BY <2>1, MaxOfFinite
<1>2. \A s \in SUBSET S : s # {} => pick[s] \in s
  BY <1>1
<1>3. step \in [SUBSET S -> [V -> V]]
  <2> SUFFICES ASSUME NEW s \in SUBSET S, NEW v \in V, s # {}
               PROVE  Peel(in, folded, v, Max(s)) \in V
    OBVIOUS
  <2>1. Max(s) \in Nat
    BY <1>0, <1>1
  <2> QED
    BY <2>1, PeelType
<1>4. NoLayers \in V
  BY DEF NoLayers, AnyLayers
<1>5. \A s \in SUBSET S, v \in V : s # {} => step[s][v] = Peel(in, folded, v, Max(s))
  OBVIOUS
<1>6. \A s \in SUBSET S : pick[s] = Max(s)
  OBVIOUS
<1> HIDE DEF step, pick, S, V
<1>7. PICK g \in [SUBSET S -> V] : FoldsTo(g, S, NoLayers, step, pick)
  BY <1>0, <1>2, <1>3, <1>4, FoldExists
<1>8. \A s \in SUBSET S : g[s] = IF s = {} THEN NoLayers
                                           ELSE Peel(in, folded, g[s \ {Max(s)}], Max(s))
  <2> SUFFICES ASSUME NEW s \in SUBSET S, s # {}
               PROVE  g[s] = Peel(in, folded, g[s \ {Max(s)}], Max(s))
    BY <1>7 DEF FoldsTo
  <2>1. g[s] = step[s][g[s \ {Max(s)}]]
    BY <1>6, <1>7 DEF FoldsTo
  <2>2. g[s \ {Max(s)}] \in V
    BY <1>7
  <2> QED
    BY <1>5, <2>1, <2>2
<1>9. Peels(in, folded, S, g)
  BY <1>8 DEF Peels
<1> QED
  BY <1>9 DEF Peeler, S

(* After the loop, everything anybody put in is in some layer.             *)
LEMMA LayersRight ==
  ASSUME NEW D, IsFiniteSet(D), NEW in \in [D -> Nat], NEW folded
  PROVE  /\ LayersOK(in, folded, Layers(in, folded))
         /\ DOMAIN Layers(in, folded) = {"pots", "dead", "level"}
         /\ \A u \in D : in[u] <= Layers(in, folded).level
<1> DEFINE S == Levels(in)
<1> DEFINE g == Peeler(in, folded, S)
<1> DEFINE Down(s) == \A x \in s, y \in S \ s : x < y
<1> DEFINE Right(s) == /\ LayersOK(in, folded, g[s])
                       /\ DOMAIN g[s] = {"pots", "dead", "level"}
                       /\ g[s].level = IF s = {} THEN 0 ELSE Max(s)
<1> DEFINE G == {s \in SUBSET S : Down(s) => Right(s)}
<1>0. IsFiniteSet(S) /\ S \subseteq Nat \ {0} /\ \A u \in D : in[u] \in S \cup {0}
  <2>1. \A u \in D : in[u] \in S \cup {0}
    BY DEF Levels, Contributors
  <2> QED
    BY <2>1, LevelsFinite
<1>1. Layers(in, folded) = g[S]
  BY LayersArePeeled
<1>2. Peels(in, folded, S, g)
  BY PeelerPeels
<1> HIDE DEF g, S
<1>3. \A s \in SUBSET S : g[s] = IF s = {} THEN NoLayers
                                           ELSE Peel(in, folded, g[s \ {Max(s)}], Max(s))
  BY <1>2 DEF Peels
<1>4. {} \in G
  <2>1. g[{}] = NoLayers
    BY <1>3
  <2>2. LayersOK(in, folded, NoLayers)
    BY NoLayersOK
  <2>3. DOMAIN NoLayers = {"pots", "dead", "level"} /\ NoLayers.level = 0
    BY DEF NoLayers
  <2> QED
    BY <2>1, <2>2, <2>3
<1>max. \A s \in SUBSET S : s # {} => Max(s) \in s /\ \A y \in s : y <= Max(s)
  <2> SUFFICES ASSUME NEW s \in SUBSET S, s # {}
               PROVE  Max(s) \in s /\ \A y \in s : y <= Max(s)
    OBVIOUS
  <2>1. IsFiniteSet(s)
    BY <1>0, FS_Subset
  <2>2. s \subseteq Int
    BY <1>0
  <2> QED
    BY <2>1, <2>2, MaxOfFinite
<1>5. ASSUME NEW s \in SUBSET S, s # {}, \A x \in s : s \ {x} \in G
      PROVE  s \in G
  <2> SUFFICES ASSUME Down(s) PROVE Right(s)
    OBVIOUS
  <2> DEFINE m == Max(s)
  <2> DEFINE r == s \ {m}
  <2>1. m \in s /\ m \in Nat \ {0} /\ \A y \in s : y <= m
    BY <1>0, <1>5, <1>max
  <2>2. r \in SUBSET S /\ r \subseteq s /\ r \in G
    BY <1>5, <2>1
  <2>3. Down(r)
    <3> SUFFICES ASSUME NEW x \in r, NEW y \in S \ r PROVE x < y
      OBVIOUS
    <3>1. x \in s /\ x # m /\ x <= m /\ x \in Nat
      BY <1>0, <2>1, <2>2
    <3>2. CASE y = m
      BY <2>1, <3>1, <3>2
    <3>3. CASE y # m
      <4>1. y \in S \ s
        BY <3>3
      <4> QED
        BY <3>1, <4>1
    <3> QED
      BY <3>2, <3>3
  <2>4. Right(r)
    BY <2>2, <2>3
  <2>5. g[s] = Peel(in, folded, g[r], m)
    BY <1>3, <1>5
  <2>6. /\ g[r].level \in Nat /\ g[r].level < m
        /\ \A u \in D : in[u] <= g[r].level \/ in[u] >= m
    <3>1. CASE r = {}
      <4>1. g[r].level = 0
        BY <2>4, <3>1
      <4>2. \A y \in S : y >= m
        <5>1. \A y \in S : y = m \/ y \in S \ s
          BY <2>1, <3>1
        <5>2. \A y \in S \ s : m < y
          BY <2>1
        <5> QED
          BY <1>0, <2>1, <5>1, <5>2
      <4> HIDE DEF m, r
      <4>3. \A u \in D : in[u] <= 0 \/ in[u] >= m
        BY <1>0, <4>2
      <4> QED
        BY <2>1, <4>1, <4>3
    <3>2. CASE r # {}
      <4>1. g[r].level = Max(r) /\ Max(r) \in r /\ \A y \in r : y <= Max(r)
        BY <1>max, <2>2, <2>4, <3>2
      <4>2. Max(r) \in Nat /\ Max(r) < m
        <5>1. \A x \in r : x \in Nat /\ x \in s /\ x # m
          BY <1>0, <2>2
        <5> HIDE DEF m, r
        <5>2. Max(r) \in Nat /\ Max(r) <= m /\ Max(r) # m /\ m \in Nat
          BY <2>1, <4>1, <5>1
        <5> QED
          BY <5>2
      <4>3. \A y \in S : y <= Max(r) \/ y >= m
        <5>1. \A y \in S : y \in r \/ y = m \/ y \in S \ s
          OBVIOUS
        <5>2. \A y \in S \ s : m < y
          BY <2>1
        <5> QED
          BY <1>0, <2>1, <4>1, <5>1, <5>2
      <4> HIDE DEF m, r
      <4>4. \A u \in D : in[u] <= Max(r) \/ in[u] >= m
        BY <1>0, <4>2, <4>3
      <4> QED
        BY <4>1, <4>2, <4>4
    <3> QED
      BY <3>1, <3>2
  <2>7. m \in Nat
    BY <2>1
  <2>8. LayersOK(in, folded, g[r]) /\ DOMAIN g[r] = {"pots", "dead", "level"}
    BY <2>4
  <2> HIDE DEF m, r
  <2>9. /\ LayersOK(in, folded, g[s]) /\ g[s].level = m
        /\ DOMAIN g[s] = {"pots", "dead", "level"}
    BY <2>5, <2>6, <2>7, <2>8, PeelKeeps
  <2> QED
    BY <1>5, <2>9 DEF m
<1>6. S \in G
  <2> HIDE DEF G
  <2> QED
    BY <1>0, <1>4, <1>5, SetsReached
<1>7. Right(S)
  BY <1>6
<1>8. \A u \in D : in[u] <= g[S].level
  <2>1. CASE S = {}
    BY <1>0, <1>7, <2>1
  <2>2. CASE S # {}
    <3>1. g[S].level = Max(S) /\ Max(S) \in S /\ \A y \in S : y <= Max(S)
      BY <1>7, <1>max, <2>2
    <3>2. Max(S) \in Nat
      BY <1>0, <3>1
    <3> QED
      BY <1>0, <3>1, <3>2
  <2> QED
    BY <2>1, <2>2
<1> QED
  BY <1>1, <1>7, <1>8

-----------------------------------------------------------------------------
(* What BuildPots promises: pots that somebody living may win, holding all *)
(* that was put in, of which each living player may win his stakes.        *)
PotsRight(in, folded, pots) ==
  LET n == Len(pots) IN
  /\ pots \in Seq(Pot(DOMAIN in))
  /\ \A i \in 1 .. n : /\ pots[i].eligible # {}
                       /\ pots[i].eligible \subseteq Live(in, folded)
                       /\ Upward(in, folded, pots[i].eligible)
  /\ Live(in, folded) # {} => Sum(AmountsOf(pots), 1 .. n) = Sum(in, DOMAIN in)
  /\ \A p \in Live(in, folded) :
       Sum(Mine(pots, p), 1 .. n) = Sum(Stakes(in, folded, p), DOMAIN in)

(* BuildPots is right about what everybody put in, whoever folded.         *)
THEOREM BuildPotsRight ==
  ASSUME NEW D, IsFiniteSet(D), NEW in \in [D -> Nat], NEW folded
  PROVE  PotsRight(in, folded, BuildPots(in, folded))
<1> DEFINE end == Layers(in, folded)
<1> DEFINE n == Len(end.pots)
<1> DEFINE live == Live(in, folded)
<1> DEFINE pots == BuildPots(in, folded)
<1>1. /\ LayersOK(in, folded, end)
      /\ \A u \in D : in[u] <= end.level
  BY LayersRight
<1>2. pots = IF end.pots = << >> THEN << >>
             ELSE [end.pots EXCEPT ![Len(end.pots)].amount = @ + end.dead]
  BY DEF BuildPots
<1> SUFFICES PotsRight(in, folded, pots)
  OBVIOUS
<1> HIDE DEF end, pots
<1>3. /\ n \in Nat /\ end.pots \in Seq(Pot(D)) /\ end.dead \in Nat /\ end.level \in Nat
      /\ DOMAIN end.pots = 1 .. n /\ DOMAIN in = D
  BY <1>1 DEF LayersOK
<1>4. live \subseteq D /\ \A p \in live : in[p] \in Nat
  BY DEF Live, Contributors
<1>5. CASE n = 0
  <2>1. pots = << >> /\ Len(pots) = 0
    BY <1>2, <1>3, <1>5
  <2>2. \A p \in live : in[p] > end.level
    BY <1>1, <1>5 DEF LayersOK
  <2>3. live = {}
    BY <1>1, <1>3, <1>4, <2>2
  <2>4. << >> \in Seq(Pot(D))
    OBVIOUS
  <2>5. 1 .. 0 = {}
    OBVIOUS
  <2> QED
    BY <1>3, <2>1, <2>3, <2>4, <2>5 DEF PotsRight
<1>6. CASE n > 0
  <2> DEFINE last == end.pots[n]
  <2>0. n \in 1 .. n /\ 1 .. n = DOMAIN end.pots /\ IsFiniteSet(1 .. n)
    BY <1>3, <1>6, FS_Interval
  <2>1. last \in Pot(D)
    BY <1>3, <2>0
  <2>2. \A i \in 1 .. n : /\ end.pots[i] \in Pot(D)
                          /\ end.pots[i].amount \in Int
    <3>1. \A i \in 1 .. n : end.pots[i] \in Pot(D)
      BY <1>3
    <3> QED
      BY <3>1 DEF Pot
  <2> DEFINE more == [last EXCEPT !.amount = @ + end.dead]
  <2>3. more.amount = last.amount + end.dead /\ more.eligible = last.eligible /\ more \in Pot(D)
    <3>1. last = [amount |-> last.amount, eligible |-> last.eligible]
          /\ last.amount \in Nat /\ last.eligible \in SUBSET D
      BY <2>1 DEF Pot
    <3> HIDE DEF last
    <3>2. more = [amount |-> last.amount + end.dead, eligible |-> last.eligible]
      BY <3>1
    <3>3. last.amount + end.dead \in Nat
      BY <1>3, <3>1
    <3> HIDE DEF more
    <3> QED
      BY <3>1, <3>2, <3>3 DEF Pot
  <2>4. pots = [end.pots EXCEPT ![n] = more]
    <3>1. end.pots # << >>
      BY <1>6
    <3> QED
      BY <1>2, <3>1
  <2> HIDE DEF more
  <2>5. pots \in Seq(Pot(D)) /\ Len(pots) = n /\ DOMAIN pots = 1 .. n
    <3> HIDE DEF n
    <3> QED
      BY <1>3, <2>0, <2>3, <2>4, ExceptSeq DEF n
  <2>6. pots[n] = more /\ \A i \in (1 .. n) \ {n} : pots[i] = end.pots[i]
    BY <1>3, <2>0, <2>4
  <2>7. /\ \A i \in 1 .. n : AmountsOf(pots)[i] = pots[i].amount
                             /\ AmountsOf(end.pots)[i] = end.pots[i].amount
      /\ \A i \in 1 .. n : \A p :
           /\ Mine(pots, p)[i] = IF p \in pots[i].eligible THEN pots[i].amount ELSE 0
           /\ Mine(end.pots, p)[i] = IF p \in end.pots[i].eligible
                                       THEN end.pots[i].amount ELSE 0
    BY <1>3, <2>5 DEF AmountsOf, Mine
  <2>8. \A i \in 1 .. n : /\ pots[i].amount \in Int
                          /\ pots[i].eligible = end.pots[i].eligible
    <3>1. more.amount \in Int
      BY <1>3, <2>0, <2>2, <2>3
    <3> QED
      BY <2>0, <2>2, <2>3, <2>6, <3>1
  <2>level. \A p \in live : /\ Lesser(end.level, in[p]) = in[p]
                            /\ Sum(UpTo(in, in[p]), D) \in Int
    <3> SUFFICES ASSUME NEW p \in live
                 PROVE  /\ Lesser(end.level, in[p]) = in[p]
                        /\ Sum(UpTo(in, in[p]), D) \in Int
      OBVIOUS
    <3>1. in[p] <= end.level /\ in[p] \in Nat /\ p \in D
      BY <1>1, <1>4
    <3>2. \A u \in D : UpTo(in, in[p])[u] \in Int
      BY <3>1 DEF UpTo
    <3> QED
      BY <1>3, <3>1, <3>2, SumInt DEF Lesser
  <2>9. Sum(AmountsOf(pots), 1 .. n) = Sum(in, D)
    <3> DEFINE f == AmountsOf(end.pots)
    <3> DEFINE g == AmountsOf(pots)
    <3>1. \A i \in 1 .. n : f[i] \in Int /\ g[i] \in Int
      BY <2>2, <2>7, <2>8
    <3>2. \A i \in (1 .. n) \ {n} : g[i] = f[i]
      BY <2>6, <2>7
    <3>3. g[n] = f[n] + end.dead
      BY <2>0, <2>3, <2>6, <2>7
    <3>4. Sum(f, 1 .. n) + end.dead = Sum(UpTo(in, end.level), D)
      BY <1>1, <1>3 DEF LayersOK
    <3> HIDE DEF f, g, n
    <3> DEFINE I == 1 .. n
    <3>I. IsFiniteSet(I) /\ n \in I /\ (\A i \in I : f[i] \in Int /\ g[i] \in Int)
          /\ \A i \in I \ {n} : g[i] = f[i]
      BY <2>0, <3>1, <3>2
    <3> HIDE DEF I
    <3>J. Sum(g, I) = Sum(f, I) - f[n] + g[n]
      BY <3>I, SumChanged
    <3>5. Sum(g, 1 .. n) = Sum(f, 1 .. n) - f[n] + g[n]
      BY <3>J DEF I
    <3>6. Sum(f, 1 .. n) \in Int /\ f[n] \in Int
      BY <2>0, <3>1, SumInt
    <3>7. Sum(g, 1 .. n) = Sum(f, 1 .. n) + end.dead
      BY <1>3, <3>3, <3>5, <3>6
    <3>8. Sum(UpTo(in, end.level), D) = Sum(in, D)
      <4>1. \A u \in D : in[u] \in Int /\ UpTo(in, end.level)[u] = in[u]
        BY <1>1, <1>3 DEF UpTo
      <4> QED
        BY <4>1, SumEqual
    <3> QED
      BY <3>4, <3>7, <3>8 DEF g
  <2>10. ASSUME NEW p \in live
         PROVE  Sum(Mine(pots, p), 1 .. n) = Sum(Stakes(in, folded, p), D)
    <3>0. in[p] \in Nat /\ p \in D
      BY <1>4
    <3>1. CASE Topped(in, folded, p)
      <4>1. \A i \in 1 .. n : p \in pots[i].eligible
        BY <1>1, <2>8, <3>1 DEF LayersOK
      <4>2. \A i \in 1 .. n : AmountsOf(pots)[i] \in Int /\ Mine(pots, p)[i] = AmountsOf(pots)[i]
        BY <2>7, <2>8, <4>1
      <4>3. Sum(Mine(pots, p), 1 .. n) = Sum(AmountsOf(pots), 1 .. n)
        BY <2>0, <4>2, SumEqual
      <4>4. \A u \in D : in[u] \in Int /\ Stakes(in, folded, p)[u] = in[u]
        <5> SUFFICES ASSUME NEW u \in D PROVE Stakes(in, folded, p)[u] = in[u]
          OBVIOUS
        <5>1. CASE u \in folded
          BY <1>3, <3>1, <5>1 DEF Stakes
        <5>2. CASE u \notin folded
          <6>1. in[u] <= in[p]
            <7>1. CASE u \in live
              BY <3>1, <7>1 DEF Topped
            <7>2. CASE u \notin live
              <8>1. in[u] = 0
                BY <5>2, <7>2 DEF Live, Contributors
              <8> QED
                BY <3>0, <8>1
            <7> QED
              BY <7>1, <7>2
          <6>2. Lesser(in[p], in[u]) = in[u]
            BY <3>0, <6>1 DEF Lesser
          <6> QED
            BY <1>3, <5>2, <6>2 DEF Stakes
        <5> QED
          BY <5>1, <5>2
      <4>5. Sum(Stakes(in, folded, p), D) = Sum(in, D)
        BY <4>4, SumEqual
      <4> QED
        BY <2>9, <4>3, <4>5
    <3>2. CASE ~Topped(in, folded, p)
      <4>1. p \notin last.eligible
        <5>1. PICK v \in live : ~(in[v] <= in[p])
          BY <3>2 DEF Topped
        <5>2. in[v] <= end.level /\ in[v] \in Nat
          BY <1>1, <1>4
        <5>3. ~(in[p] >= end.level)
          BY <1>3, <3>0, <5>1, <5>2
        <5> QED
          BY <1>1, <1>6, <3>2, <5>3 DEF LayersOK
      <4>2. \A i \in 1 .. n : /\ Mine(end.pots, p)[i] \in Int
                              /\ Mine(pots, p)[i] = Mine(end.pots, p)[i]
        <5>1. pots[n].eligible = last.eligible
          BY <2>0, <2>8
        <5>2. Mine(pots, p)[n] = 0 /\ Mine(end.pots, p)[n] = 0
          BY <2>0, <2>7, <4>1, <5>1
        <5>3. \A i \in (1 .. n) \ {n} : Mine(pots, p)[i] = Mine(end.pots, p)[i]
          BY <2>6, <2>7
        <5> QED
          BY <2>2, <2>7, <5>2, <5>3
      <4>3. Sum(Mine(pots, p), 1 .. n) = Sum(Mine(end.pots, p), 1 .. n)
        BY <2>0, <4>2, SumEqual
      <4>4. Sum(Mine(end.pots, p), 1 .. n) = Sum(UpTo(in, in[p]), D)
        BY <1>1, <1>3, <2>level DEF LayersOK
      <4>5. \A u \in D : UpTo(in, in[p])[u] \in Int
                         /\ Stakes(in, folded, p)[u] = UpTo(in, in[p])[u]
        <5>1. \A u \in D : in[u] \in Nat
          OBVIOUS
        <5> QED
          BY <1>3, <3>0, <3>2, <5>1 DEF Stakes, UpTo, Lesser
      <4>6. Sum(Stakes(in, folded, p), D) = Sum(UpTo(in, in[p]), D)
        BY <4>5, SumEqual
      <4> QED
        BY <4>3, <4>4, <4>6
    <3> QED
      BY <3>1, <3>2
  <2>11. \A i \in 1 .. n : /\ pots[i].eligible # {} /\ pots[i].eligible \subseteq live
                           /\ Upward(in, folded, pots[i].eligible)
    BY <1>1, <2>8 DEF LayersOK
  <2> QED
    BY <1>3, <2>5, <2>9, <2>10, <2>11 DEF PotsRight
<1> QED
  BY <1>3, <1>5, <1>6

-----------------------------------------------------------------------------
(* What one pot may pay.                                                   *)
PaysPot(D, pot, dealt, b) ==
  /\ b \in [D -> Nat]
  /\ \A p \in D : b[p] <= IF p \in pot.eligible THEN pot.amount ELSE 0
  /\ pot.eligible \cap dealt # {} => Sum(b, D) = pot.amount

(* However it is split, a pot pays who may win it, and all it holds.       *)
LEMMA PotPayoutsRight ==
  ASSUME NEW D, IsFiniteSet(D), NEW rank \in [D -> Int], NEW pot \in Pot(D), NEW dealt,
         NEW b \in PotPayouts(pot, dealt, rank)
  PROVE  PaysPot(D, pot, dealt, b)
<1> DEFINE W == Winners(pot, dealt, rank)
<1> DEFINE n == Cardinality(W)
<1>1. W \subseteq pot.eligible /\ W \subseteq D /\ IsFiniteSet(W) /\ pot.amount \in Nat
  <2>1. W \subseteq pot.eligible /\ pot.eligible \subseteq D /\ pot.amount \in Nat
    BY DEF Winners, Pot
  <2>2. W \subseteq D
    BY <2>1
  <2> QED
    BY <2>1, <2>2, FS_Subset
<1>2. n \in Nat /\ (n = 0 <=> W = {})
  BY <1>1, FS_CardinalityType, FS_EmptySet
<1>3. pot.eligible \cap dealt # {} => W # {}
  <2> SUFFICES ASSUME pot.eligible \cap dealt # {} PROVE W # {}
    OBVIOUS
  <2> DEFINE hands == pot.eligible \cap dealt
  <2> DEFINE ranks == {rank[p] : p \in hands}
  <2>1. hands \subseteq D /\ IsFiniteSet(hands)
    <3>1. hands \subseteq D
      BY DEF Pot
    <3> QED
      BY <3>1, FS_Subset
  <2> HIDE DEF hands
  <2>2. IsFiniteSet(ranks) /\ ranks \subseteq Int /\ ranks # {}
    <3> DEFINE f == [p \in hands |-> rank[p]]
    <3>1. f \in Surjection(hands, ranks)
      BY DEF Surjection
    <3>2. ranks \subseteq Int /\ ranks # {}
      BY <2>1 DEF hands
    <3> HIDE DEF f, ranks
    <3> QED
      BY <2>1, <3>1, <3>2, FS_Surjection
  <2>3. Max(ranks) \in ranks /\ \A y \in ranks : y <= Max(ranks)
    <3> HIDE DEF ranks
    <3> QED
      BY <2>2, MaxOfFinite
  <2>4. PICK p \in hands : rank[p] = Max(ranks)
    BY <2>3
  <2>5. \A q \in hands : rank[q] <= rank[p]
    BY <2>3, <2>4
  <2>6. p \in W
    BY <2>5 DEF Winners, hands
  <2> QED
    BY <2>6
<1>4. CASE W = {}
  <2>1. b = [p \in D |-> 0]
    BY <1>4 DEF PotPayouts
  <2>2. \A p \in D : b[p] = 0
    BY <2>1
  <2> QED
    BY <1>1, <1>3, <1>4, <2>1, <2>2 DEF PaysPot
<1>5. CASE W # {}
  <2> DEFINE each == pot.amount \div n
  <2> DEFINE odd == pot.amount % n
  <2> HIDE DEF W, n
  <2>1. each \in Nat /\ odd \in Nat /\ pot.amount = each * n + odd
    <3>1. n \in Nat /\ n > 0
      BY <1>2, <1>5
    <3> DEFINE a == pot.amount
    <3>2. a \in Nat
      BY <1>1
    <3> HIDE DEF a
    <3>3. a \div n \in Nat /\ a % n \in Nat /\ a = (a \div n) * n + (a % n)
      BY <3>1, <3>2
    <3> QED
      BY <3>3 DEF a
  <2>2. PICK lucky \in kSubset(odd, W) :
          b = [p \in D |-> IF p \in W THEN each + (IF p \in lucky THEN 1 ELSE 0) ELSE 0]
    BY <1>5 DEF PotPayouts, W, n
  <2>3. lucky \subseteq W /\ Cardinality(lucky) = odd
    BY <2>2 DEF kSubset
  <2> HIDE DEF each, odd
  <2>4. b \in [D -> Nat]
    <3>1. \A p \in D : (IF p \in W THEN each + (IF p \in lucky THEN 1 ELSE 0) ELSE 0) \in Nat
      BY <2>1
    <3> QED
      BY <2>2, <3>1
  <2>5. Sum(b, D) = pot.amount
    <3> DEFINE f == [p \in D |-> IF p \in W THEN each ELSE 0]
    <3> DEFINE g == [p \in D |-> IF p \in lucky THEN 1 ELSE 0]
    <3>1. \A p \in D : f[p] \in Int /\ g[p] \in Int /\ b[p] = f[p] + g[p]
      <4>1. each \in Int
        BY <2>1
      <4> QED
        BY <2>2, <2>3, <4>1
    <3>2. /\ IsFiniteSet(D \ W) /\ IsFiniteSet(D \ lucky) /\ IsFiniteSet(lucky)
          /\ W \cup (D \ W) = D /\ W \cap (D \ W) = {}
          /\ lucky \cup (D \ lucky) = D /\ lucky \cap (D \ lucky) = {}
      <4>1. lucky \subseteq D
        BY <1>1, <2>3
      <4> QED
        BY <1>1, <4>1, FS_Subset
    <3>3. /\ \A p \in W : f[p] = each
          /\ \A p \in D \ W : f[p] = 0
          /\ \A p \in lucky : g[p] = 1
          /\ \A p \in D \ lucky : g[p] = 0
      BY <1>1, <2>3
    <3>4. \A p \in D : f[p] \in Int /\ g[p] \in Int
      BY <3>1
    <3> HIDE DEF f, g
    <3>5. Sum(b, D) = Sum(f, D) + Sum(g, D)
      BY <3>1, SumPlus
    <3>6. Sum(f, D) = Sum(f, W) + Sum(f, D \ W)
      BY <1>1, <3>2, <3>4, SumUnion
    <3>7. Sum(g, D) = Sum(g, lucky) + Sum(g, D \ lucky)
      BY <3>2, <3>4, SumUnion
    <3>8. Sum(f, D \ W) = 0 /\ Sum(g, D \ lucky) = 0
      BY <3>2, <3>3, SumZero
    <3>9. each \in Int
      BY <2>1
    <3>10. Sum(f, W) = each * n
      BY <1>1, <3>3, <3>9, SumConst DEF n
    <3>11. Sum(g, lucky) = 1 * odd
      BY <2>3, <3>2, <3>3, SumConst
    <3> QED
      BY <1>2, <2>1, <3>5, <3>6, <3>7, <3>8, <3>10, <3>11
  <2>6. \A p \in D : b[p] <= IF p \in pot.eligible THEN pot.amount ELSE 0
    <3> SUFFICES ASSUME NEW p \in D
                 PROVE  b[p] <= IF p \in pot.eligible THEN pot.amount ELSE 0
      OBVIOUS
    <3>1. b[p] <= pot.amount
      <4>1. Sum(b, {p}) <= Sum(b, D)
        BY <2>4, {p} \in SUBSET D, SumSubset
      <4>2. \A x \in {p} : b[x] = b[p]
        OBVIOUS
      <4>3. IsFiniteSet({p}) /\ Cardinality({p}) = 1
        BY FS_Singleton
      <4>4. b[p] \in Int
        BY <2>4
      <4>5. Sum(b, {p}) = b[p] * 1
        BY <4>2, <4>3, <4>4, SumConst
      <4> QED
        BY <2>5, <4>1, <4>4, <4>5
    <3>2. p \notin pot.eligible => b[p] = 0
      BY <1>1, <2>2
    <3> QED
      BY <3>1, <3>2
  <2> QED
    BY <2>4, <2>5, <2>6 DEF PaysPot
<1> QED
  BY <1>4, <1>5

(* A pot pays nobody who is beaten, ties alike but for an odd chip, and    *)
(* all to the only player who may win it.                                  *)
PaysFairly(D, pot, dealt, rank, b) ==
  pot.eligible \subseteq dealt =>
    /\ \A p, q \in D : p \in pot.eligible /\ rank[q] < rank[p] => b[q] = 0
    /\ \A p, q \in D : rank[p] = rank[q] /\ (p \in pot.eligible => q \in pot.eligible)
                       => b[p] - b[q] <= 1
    /\ \A p \in D : pot.eligible = {p} => b[p] = pot.amount

LEMMA PotPayoutsFair ==
  ASSUME NEW D, IsFiniteSet(D), NEW rank \in [D -> Int], NEW pot \in Pot(D), NEW dealt,
         NEW b \in PotPayouts(pot, dealt, rank)
  PROVE  PaysFairly(D, pot, dealt, rank, b)
<1> SUFFICES ASSUME pot.eligible \subseteq dealt
             PROVE  /\ \A p, q \in D : p \in pot.eligible /\ rank[q] < rank[p] => b[q] = 0
                    /\ \A p, q \in D :
                         rank[p] = rank[q] /\ (p \in pot.eligible => q \in pot.eligible)
                         => b[p] - b[q] <= 1
                    /\ \A p \in D : pot.eligible = {p} => b[p] = pot.amount
  BY DEF PaysFairly
<1> DEFINE W == Winners(pot, dealt, rank)
<1> DEFINE n == Cardinality(W)
<1> DEFINE each == pot.amount \div n
<1>1. /\ W = {p \in pot.eligible : \A q \in pot.eligible : rank[q] <= rank[p]}
      /\ pot.eligible \subseteq D /\ pot.amount \in Nat
  BY DEF Winners, Pot
<1>2. /\ b \in [D -> Nat] /\ \A p \in D : b[p] <= IF p \in pot.eligible THEN pot.amount ELSE 0
      /\ pot.eligible \cap dealt # {} => Sum(b, D) = pot.amount
  BY PotPayoutsRight DEF PaysPot
<1>3. \E lucky : \A p \in D :
        b[p] = IF p \in W THEN each + (IF p \in lucky THEN 1 ELSE 0) ELSE 0
  <2>1. CASE W = {}
    <3>1. b = [p \in D |-> 0]
      BY <2>1 DEF PotPayouts
    <3> HIDE DEF W, each
    <3> QED
      BY <2>1, <3>1
  <2>2. CASE W # {}
    <3>1. PICK lucky \in kSubset(pot.amount % n, W) :
            b = [p \in D |-> IF p \in W THEN each + (IF p \in lucky THEN 1 ELSE 0) ELSE 0]
      BY <2>2 DEF PotPayouts
    <3> HIDE DEF W, n, each
    <3> QED
      BY <3>1
  <2> QED
    BY <2>1, <2>2
<1>4. W # {} => each \in Nat
  <2>1. IsFiniteSet(W)
    BY <1>1, FS_Subset
  <2>2. n \in Nat /\ (n = 0 <=> W = {})
    BY <2>1, FS_CardinalityType, FS_EmptySet
  <2> HIDE DEF W, n
  <2>3. \A a \in Nat : n # 0 => a \div n \in Nat
    BY <2>2
  <2> QED
    BY <1>1, <2>2, <2>3
<1> HIDE DEF W, n, each
<1>5. PICK lucky : \A p \in D :
        b[p] = IF p \in W THEN each + (IF p \in lucky THEN 1 ELSE 0) ELSE 0
  BY <1>3
<1>6. ASSUME NEW p \in D, NEW q \in D, p \in pot.eligible, rank[q] < rank[p]
      PROVE  b[q] = 0
  <2>1. q \notin W
    <3>1. ~(rank[p] <= rank[q])
      BY <1>6
    <3> QED
      BY <1>1, <1>6, <3>1
  <2> QED
    BY <1>5, <2>1
<1>7. ASSUME NEW p \in D, NEW q \in D, rank[p] = rank[q],
             p \in pot.eligible => q \in pot.eligible
      PROVE  b[p] - b[q] <= 1
  <2>1. b[p] \in Nat /\ b[q] \in Nat
    BY <1>2
  <2>2. CASE p \in W
    <3>1. q \in W
      BY <1>1, <1>7, <2>2
    <3>2. /\ b[p] = each + (IF p \in lucky THEN 1 ELSE 0)
          /\ b[q] = each + (IF q \in lucky THEN 1 ELSE 0)
      BY <1>5, <2>2, <3>1
    <3>3. each \in Nat
      BY <1>4, <3>1
    <3> QED
      BY <3>2, <3>3
  <2>3. CASE p \notin W
    <3>1. b[p] = 0
      BY <1>5, <2>3
    <3> QED
      BY <2>1, <3>1
  <2> QED
    BY <2>2, <2>3
<1>8. ASSUME NEW p \in D, pot.eligible = {p}
      PROVE  b[p] = pot.amount
  <2>1. Sum(b, D) = pot.amount
    BY <1>2, <1>8
  <2>2. \A u \in D : b[u] \in Int
    BY <1>2
  <2>3. Sum(b, D) = b[p] + Sum(b, D \ {p})
    BY <2>2, SumRemove
  <2>4. \A u \in D \ {p} : b[u] = 0
    <3>1. \A u \in D \ {p} : b[u] \in Nat /\ b[u] <= 0
      BY <1>2, <1>8
    <3> QED
      BY <3>1
  <2>5. IsFiniteSet(D \ {p})
    BY FS_Subset
  <2>6. Sum(b, D \ {p}) = 0
    BY <2>4, <2>5, SumZero
  <2> QED
    BY <2>1, <2>2, <2>3, <2>6
<1> QED
  BY <1>6, <1>7, <1>8

(* The fold that Payouts is.                                               *)
WithPot(v, pot, dealt, rank) ==
  {[p \in DOMAIN rank |-> a[p] + b[p]] : a \in v, b \in PotPayouts(pot, dealt, rank)}

Pays(pots, dealt, rank, g) ==
  g = [s \in SUBSET DOMAIN pots |->
         IF s = {} THEN {[p \in DOMAIN rank |-> 0]}
         ELSE WithPot(g[s \ {Max(s)}], pots[Max(s)], dealt, rank)]

Payer(pots, dealt, rank) == CHOOSE g : Pays(pots, dealt, rank, g)

(* Payouts is that fold.                                                   *)
LEMMA PayoutsArePaid ==
  ASSUME NEW in, NEW folded, NEW dealt, NEW rank
  PROVE  Payouts(in, folded, dealt, rank)
           = Payer(BuildPots(in, folded), dealt, rank)[DOMAIN BuildPots(in, folded)]
BY DEF Payouts, FoldLeft, MapThenFoldSet, Pays, Payer, WithPot

(* The fold satisfies its equation.                                        *)
LEMMA PayerPays ==
  ASSUME NEW D, IsFiniteSet(D), NEW rank \in [D -> Int], NEW pots \in Seq(Pot(D)), NEW dealt
  PROVE  Pays(pots, dealt, rank, Payer(pots, dealt, rank))
<1> DEFINE S == DOMAIN pots
<1> DEFINE V == SUBSET [D -> Int]
<1> DEFINE none == {[p \in DOMAIN rank |-> 0]}
<1> DEFINE with(v, i) == WithPot(v, pots[i], dealt, rank)
<1> DEFINE step == [s \in SUBSET S |-> [v \in V |-> IF s = {} THEN v ELSE with(v, Max(s))]]
<1> DEFINE pick == [s \in SUBSET S |-> Max(s)]
<1>0. S = 1 .. Len(pots) /\ Len(pots) \in Nat /\ IsFiniteSet(S) /\ S \subseteq Int
  <2>1. S = 1 .. Len(pots) /\ Len(pots) \in Nat
    OBVIOUS
  <2> QED
    BY <2>1, FS_Interval
<1>1. \A s \in SUBSET S : s # {} => Max(s) \in s
  <2> SUFFICES ASSUME NEW s \in SUBSET S, s # {} PROVE Max(s) \in s
    OBVIOUS
  <2>1. IsFiniteSet(s)
    BY <1>0, FS_Subset
  <2>2. s \subseteq Int
    BY <1>0
  <2> QED
    BY <2>1, <2>2, MaxOfFinite
<1>2. \A s \in SUBSET S : s # {} => pick[s] \in s
  BY <1>1
<1>3. step \in [SUBSET S -> [V -> V]]
  <2> SUFFICES ASSUME NEW s \in SUBSET S, NEW v \in V, s # {}
               PROVE  with(v, Max(s)) \in V
    OBVIOUS
  <2>1. pots[Max(s)] \in Pot(D)
    BY <1>0, <1>1
  <2>2. \A a \in v : a \in [D -> Int]
    OBVIOUS
  <2>3. \A b \in PotPayouts(pots[Max(s)], dealt, rank) : b \in [D -> Nat]
    BY <2>1, PotPayoutsRight DEF PaysPot
  <2>4. DOMAIN rank = D
    OBVIOUS
  <2> QED
    BY <2>2, <2>3, <2>4 DEF WithPot
<1>4. none \in V
  OBVIOUS
<1>5. \A s \in SUBSET S, v \in V : s # {} => step[s][v] = with(v, Max(s))
  OBVIOUS
<1>6. \A s \in SUBSET S : pick[s] = Max(s)
  OBVIOUS
<1> HIDE DEF step, pick, V, none
<1>7. PICK g \in [SUBSET S -> V] : FoldsTo(g, S, none, step, pick)
  <2>1. IsFiniteSet(S)
    BY <1>0
  <2> HIDE DEF S
  <2> QED
    BY <2>1, <1>2, <1>3, <1>4, FoldExists
<1>8. \A s \in SUBSET S : g[s] = IF s = {} THEN none ELSE with(g[s \ {Max(s)}], Max(s))
  <2> SUFFICES ASSUME NEW s \in SUBSET S, s # {}
               PROVE  g[s] = with(g[s \ {Max(s)}], Max(s))
    BY <1>7 DEF FoldsTo
  <2>1. g[s] = step[s][g[s \ {Max(s)}]]
    BY <1>6, <1>7 DEF FoldsTo
  <2>2. g[s \ {Max(s)}] \in V
    BY <1>7
  <2> QED
    BY <1>5, <2>1, <2>2
<1>9. Pays(pots, dealt, rank, g)
  BY <1>8 DEF Pays, none
<1> QED
  BY <1>9 DEF Payer

(* What the pots of s pay together.                                        *)
PaidSoFar(D, pots, dealt, s, a) ==
  /\ a \in [D -> Nat]
  /\ \A p \in D : a[p] <= Sum(Mine(pots, p), s)
  /\ (\A i \in s : pots[i].eligible \cap dealt # {}) => Sum(a, D) = Sum(AmountsOf(pots), s)

(* One pot more.                                                           *)
LEMMA PotPaid ==
  ASSUME NEW D, IsFiniteSet(D), NEW rank \in [D -> Int], NEW pots \in Seq(Pot(D)), NEW dealt,
         NEW s \in SUBSET DOMAIN pots, NEW i \in s, NEW a, PaidSoFar(D, pots, dealt, s \ {i}, a),
         NEW b, PaysPot(D, pots[i], dealt, b)
  PROVE  PaidSoFar(D, pots, dealt, s, [p \in D |-> a[p] + b[p]])
<1> DEFINE c == [p \in D |-> a[p] + b[p]]
<1>0. IsFiniteSet(s) /\ s \subseteq 1 .. Len(pots)
  <2>1. DOMAIN pots = 1 .. Len(pots) /\ Len(pots) \in Nat
    OBVIOUS
  <2>2. IsFiniteSet(1 .. Len(pots)) /\ s \subseteq 1 .. Len(pots)
    BY <2>1, FS_Interval
  <2> QED
    BY <2>2, FS_Subset
<1>1. a \in [D -> Nat] /\ b \in [D -> Nat]
  BY DEF PaidSoFar, PaysPot
<1>2. c \in [D -> Nat]
  BY <1>1
<1>3. \A k \in s : /\ pots[k].amount \in Int
                   /\ AmountsOf(pots)[k] = pots[k].amount
                   /\ \A p : Mine(pots, p)[k] = IF p \in pots[k].eligible THEN pots[k].amount ELSE 0
  <2>1. \A k \in s : pots[k] \in Pot(D)
    BY <1>0
  <2>2. \A x \in Pot(D) : x.amount \in Int
    BY DEF Pot
  <2> QED
    BY <2>1, <2>2 DEF AmountsOf, Mine
<1>4. ASSUME NEW p \in D PROVE c[p] <= Sum(Mine(pots, p), s)
  <2> DEFINE f == Mine(pots, p)
  <2>1. \A k \in s : f[k] \in Int
    BY <1>3
  <2>2. a[p] <= Sum(f, s \ {i}) /\ b[p] <= f[i] /\ c[p] = a[p] + b[p]
    BY <1>3 DEF PaidSoFar, PaysPot
  <2>3. a[p] \in Int /\ b[p] \in Int
    BY <1>1
  <2> HIDE DEF f, c
  <2>4. Sum(f, s) = f[i] + Sum(f, s \ {i})
    BY <1>0, <2>1, SumRemove
  <2>5. Sum(f, s \ {i}) \in Int /\ f[i] \in Int
    <3>1. IsFiniteSet(s \ {i})
      BY <1>0, FS_Subset
    <3> QED
      BY <2>1, <3>1, SumInt
  <2>6. c[p] <= Sum(f, s)
    BY <2>2, <2>3, <2>4, <2>5
  <2> QED
    BY <2>6 DEF f
<1>5. ASSUME \A k \in s : pots[k].eligible \cap dealt # {}
      PROVE  Sum(c, D) = Sum(AmountsOf(pots), s)
  <2>1. Sum(a, D) = Sum(AmountsOf(pots), s \ {i}) /\ Sum(b, D) = pots[i].amount
    BY <1>5 DEF PaidSoFar, PaysPot
  <2>2. \A p \in D : a[p] \in Int /\ b[p] \in Int /\ c[p] = a[p] + b[p]
    BY <1>1
  <2> HIDE DEF c
  <2>3. Sum(c, D) = Sum(a, D) + Sum(b, D)
    BY <2>2, SumPlus
  <2>4. \A k \in s : AmountsOf(pots)[k] \in Int
    BY <1>3
  <2>5. Sum(AmountsOf(pots), s) = AmountsOf(pots)[i] + Sum(AmountsOf(pots), s \ {i})
    BY <1>0, <2>4, SumRemove
  <2>6. Sum(AmountsOf(pots), s \ {i}) \in Int /\ AmountsOf(pots)[i] = pots[i].amount
        /\ pots[i].amount \in Int
    <3>1. IsFiniteSet(s \ {i})
      BY <1>0, FS_Subset
    <3> QED
      BY <1>3, <2>4, <3>1, SumInt
  <2> QED
    BY <2>1, <2>3, <2>5, <2>6
<1> HIDE DEF c
<1>6. PaidSoFar(D, pots, dealt, s, c)
  BY <1>2, <1>4, <1>5 DEF PaidSoFar
<1> QED
  BY <1>6 DEF c

(* What only p may win.                                                    *)
Alone(pots, p) == [i \in DOMAIN pots |-> IF pots[i].eligible = {p} THEN pots[i].amount ELSE 0]

(* What the pots of s pay together is as fair as what each of them pays.   *)
FairSoFar(D, pots, dealt, rank, s, a) ==
  (\A i \in s : pots[i].eligible \subseteq dealt) =>
    /\ \A p, q \in D :
         /\ rank[q] < rank[p]
         /\ \A i \in s : q \in pots[i].eligible => p \in pots[i].eligible
         => a[q] = 0
    /\ \A p, q \in D :
         /\ rank[p] = rank[q]
         /\ \A i \in s : p \in pots[i].eligible => q \in pots[i].eligible
         => a[p] - a[q] <= Cardinality(s)
    /\ \A p \in D : Sum(Alone(pots, p), s) <= a[p]

LEMMA PotPaidFairly ==
  ASSUME NEW D, NEW rank \in [D -> Int], NEW pots \in Seq(Pot(D)), NEW dealt,
         NEW s \in SUBSET DOMAIN pots, NEW i \in s,
         NEW a \in [D -> Nat], FairSoFar(D, pots, dealt, rank, s \ {i}, a),
         NEW b, PaysPot(D, pots[i], dealt, b), PaysFairly(D, pots[i], dealt, rank, b),
         NEW c, c = [p \in D |-> a[p] + b[p]]
  PROVE  FairSoFar(D, pots, dealt, rank, s, c)
<1>0. IsFiniteSet(s) /\ s \subseteq 1 .. Len(pots)
  <2>1. DOMAIN pots = 1 .. Len(pots) /\ Len(pots) \in Nat
    OBVIOUS
  <2>2. IsFiniteSet(1 .. Len(pots)) /\ s \subseteq 1 .. Len(pots)
    BY <2>1, FS_Interval
  <2> QED
    BY <2>2, FS_Subset
<1>1. /\ b \in [D -> Nat]
      /\ \A p \in D : p \notin pots[i].eligible => b[p] = 0
  <2>1. b \in [D -> Nat] /\ \A p \in D : p \notin pots[i].eligible => b[p] <= 0
    BY DEF PaysPot
  <2> QED
    BY <2>1
<1>2. \A p \in D : c[p] = a[p] + b[p] /\ a[p] \in Nat /\ b[p] \in Nat
  BY <1>1
<1>3. /\ IsFiniteSet(s \ {i}) /\ Cardinality(s \ {i}) \in Nat
      /\ Cardinality(s) = Cardinality(s \ {i}) + 1
  <2>1. IsFiniteSet(s \ {i}) /\ Cardinality(s \ {i}) = Cardinality(s) - 1
    BY <1>0, FS_RemoveElement
  <2>2. Cardinality(s) \in Nat /\ Cardinality(s \ {i}) \in Nat
    BY <1>0, <2>1, FS_CardinalityType
  <2> QED
    BY <2>1, <2>2
<1> SUFFICES ASSUME \A k \in s : pots[k].eligible \subseteq dealt
             PROVE  /\ \A p, q \in D :
                         /\ rank[q] < rank[p]
                         /\ \A k \in s : q \in pots[k].eligible => p \in pots[k].eligible
                         => c[q] = 0
                    /\ \A p, q \in D :
                         /\ rank[p] = rank[q]
                         /\ \A k \in s : p \in pots[k].eligible => q \in pots[k].eligible
                         => c[p] - c[q] <= Cardinality(s)
                    /\ \A p \in D : Sum(Alone(pots, p), s) <= c[p]
  BY DEF FairSoFar
<1>4. /\ \A p, q \in D :
           /\ rank[q] < rank[p]
           /\ \A k \in s \ {i} : q \in pots[k].eligible => p \in pots[k].eligible
           => a[q] = 0
      /\ \A p, q \in D :
           /\ rank[p] = rank[q]
           /\ \A k \in s \ {i} : p \in pots[k].eligible => q \in pots[k].eligible
           => a[p] - a[q] <= Cardinality(s \ {i})
      /\ \A p \in D : Sum(Alone(pots, p), s \ {i}) <= a[p]
  BY DEF FairSoFar
<1>5. /\ \A p, q \in D : p \in pots[i].eligible /\ rank[q] < rank[p] => b[q] = 0
      /\ \A p, q \in D : rank[p] = rank[q] /\ (p \in pots[i].eligible => q \in pots[i].eligible)
                         => b[p] - b[q] <= 1
      /\ \A p \in D : pots[i].eligible = {p} => b[p] = pots[i].amount
  BY DEF PaysFairly
<1>6. ASSUME NEW p \in D, NEW q \in D, rank[q] < rank[p],
             \A k \in s : q \in pots[k].eligible => p \in pots[k].eligible
      PROVE  c[q] = 0
  <2>1. a[q] = 0
    BY <1>4, <1>6
  <2>2. b[q] = 0
    BY <1>1, <1>5, <1>6
  <2> QED
    BY <1>2, <2>1, <2>2
<1>7. ASSUME NEW p \in D, NEW q \in D, rank[p] = rank[q],
             \A k \in s : p \in pots[k].eligible => q \in pots[k].eligible
      PROVE  c[p] - c[q] <= Cardinality(s)
  <2>1. a[p] - a[q] <= Cardinality(s \ {i})
    BY <1>4, <1>7
  <2>2. b[p] - b[q] <= 1
    BY <1>5, <1>7
  <2>3. /\ c[p] = a[p] + b[p] /\ c[q] = a[q] + b[q]
        /\ a[p] \in Nat /\ b[p] \in Nat /\ a[q] \in Nat /\ b[q] \in Nat
    BY <1>2
  <2> QED
    BY <1>3, <2>1, <2>2, <2>3
<1>8. ASSUME NEW p \in D PROVE Sum(Alone(pots, p), s) <= c[p]
  <2> DEFINE f == Alone(pots, p)
  <2>1. \A k \in s : pots[k].amount \in Nat
    <3>1. \A k \in s : pots[k] \in Pot(D)
      BY <1>0
    <3> QED
      BY <3>1 DEF Pot
  <2>2. \A k \in s : /\ f[k] = IF pots[k].eligible = {p} THEN pots[k].amount ELSE 0
                     /\ f[k] \in Int
    BY <2>1 DEF Alone
  <2>3. f[i] <= b[p]
    <3>1. CASE pots[i].eligible = {p}
      BY <1>2, <1>5, <2>2, <3>1
    <3>2. CASE pots[i].eligible # {p}
      BY <1>2, <2>2, <3>2
    <3> QED
      BY <3>1, <3>2
  <2>4. Sum(f, s \ {i}) <= a[p]
    BY <1>4
  <2> HIDE DEF f
  <2>5. Sum(f, s) = f[i] + Sum(f, s \ {i})
    BY <1>0, <2>2, SumRemove
  <2>6. Sum(f, s \ {i}) \in Int
    BY <1>3, <2>2, SumInt
  <2>7. Sum(f, s) <= c[p]
    BY <1>2, <2>2, <2>3, <2>4, <2>5, <2>6
  <2> QED
    BY <2>7 DEF f
<1> QED
  BY <1>6, <1>7, <1>8

(* What one pot more adds.                                                 *)
LEMMA WithPotIs ==
  ASSUME NEW v, NEW pot, NEW dealt, NEW rank, NEW c \in WithPot(v, pot, dealt, rank)
  PROVE  \E a \in v, b \in PotPayouts(pot, dealt, rank) : c = [p \in DOMAIN rank |-> a[p] + b[p]]
BY DEF WithPot

(* All the pots.                                                           *)
LEMMA PayerRight ==
  ASSUME NEW D, IsFiniteSet(D), NEW rank \in [D -> Int], NEW pots \in Seq(Pot(D)), NEW dealt,
         NEW a \in Payer(pots, dealt, rank)[DOMAIN pots]
  PROVE  PaidSoFar(D, pots, dealt, DOMAIN pots, a) /\ FairSoFar(D, pots, dealt, rank, DOMAIN pots, a)
<1> DEFINE S == DOMAIN pots
<1> DEFINE g == Payer(pots, dealt, rank)
<1> DEFINE Right(s, c) == PaidSoFar(D, pots, dealt, s, c) /\ FairSoFar(D, pots, dealt, rank, s, c)
<1> DEFINE G == {s \in SUBSET S : \A c \in g[s] : Right(s, c)}
<1>0. S = 1 .. Len(pots) /\ Len(pots) \in Nat /\ IsFiniteSet(S) /\ S \subseteq Int
  <2>1. S = 1 .. Len(pots) /\ Len(pots) \in Nat
    OBVIOUS
  <2> QED
    BY <2>1, FS_Interval
<1>1. \A s \in SUBSET S : g[s] = IF s = {} THEN {[p \in DOMAIN rank |-> 0]}
                                 ELSE WithPot(g[s \ {Max(s)}], pots[Max(s)], dealt, rank)
  <2>1. Pays(pots, dealt, rank, g)
    BY PayerPays
  <2> HIDE DEF g
  <2> QED
    BY <2>1 DEF Pays
<1> HIDE DEF g
<1>2. {} \in G
  <2> DEFINE z == [p \in D |-> 0]
  <2>1. \A c \in g[{}] : c = z
    BY <1>1
  <2>2. z \in [D -> Nat] /\ \A p \in D : z[p] = 0
    OBVIOUS
  <2> HIDE DEF z
  <2>3. Sum(z, D) = 0 /\ \A f : Sum(f, {}) = 0
    BY <2>2, SumZero, SumEmpty
  <2>4. PaidSoFar(D, pots, dealt, {}, z)
    BY <2>2, <2>3 DEF PaidSoFar
  <2>5. FairSoFar(D, pots, dealt, rank, {}, z)
    BY <2>2, <2>3, FS_EmptySet DEF FairSoFar
  <2> QED
    BY <2>1, <2>4, <2>5
<1>3. ASSUME NEW s \in SUBSET S, s # {}, \A x \in s : s \ {x} \in G
      PROVE  s \in G
  <2> SUFFICES ASSUME NEW c \in g[s] PROVE Right(s, c)
    OBVIOUS
  <2> DEFINE m == Max(s)
  <2>1. m \in s
    <3>1. IsFiniteSet(s)
      BY <1>0, FS_Subset
    <3>2. s \subseteq Int
      BY <1>0
    <3> QED
      BY <1>3, <3>1, <3>2, MaxOfFinite
  <2>2. c \in WithPot(g[s \ {m}], pots[m], dealt, rank)
    BY <1>1, <1>3
  <2>3. pots[m] \in Pot(D)
    BY <1>0, <2>1
  <2>4. s \ {m} \in G
    BY <1>3, <2>1
  <2> HIDE DEF m
  <2>5. PICK x \in g[s \ {m}], b \in PotPayouts(pots[m], dealt, rank) : c = [p \in D |-> x[p] + b[p]]
    <3>1. DOMAIN rank = D
      OBVIOUS
    <3>2. \E x \in g[s \ {m}], b \in PotPayouts(pots[m], dealt, rank) :
            c = [p \in DOMAIN rank |-> x[p] + b[p]]
      BY <2>2, WithPotIs
    <3> QED
      BY <3>1, <3>2
  <2>6. PaidSoFar(D, pots, dealt, s \ {m}, x) /\ FairSoFar(D, pots, dealt, rank, s \ {m}, x)
    BY <2>4
  <2>7. PaysPot(D, pots[m], dealt, b) /\ PaysFairly(D, pots[m], dealt, rank, b)
    BY <2>3, PotPayoutsRight, PotPayoutsFair
  <2> HIDE DEF G
  <2>8. PaidSoFar(D, pots, dealt, s, c)
    BY <2>1, <2>5, <2>6, <2>7, PotPaid
  <2>9. x \in [D -> Nat]
    BY <2>6 DEF PaidSoFar
  <2>10. FairSoFar(D, pots, dealt, rank, s, c)
    BY <2>1, <2>5, <2>6, <2>7, <2>9, PotPaidFairly
  <2> QED
    BY <2>8, <2>10
<1>4. S \in G
  <2>1. IsFiniteSet(S)
    BY <1>0
  <2> HIDE DEF G, S
  <2> QED
    BY <2>1, <1>2, <1>3, SetsReached
<1> QED
  BY <1>4 DEF g

(* The showdown pays natural amounts, to nobody more than his stakes in    *)
(* the others, and to living players everything that is in the pot.        *)
THEOREM PayoutsRight ==
  ASSUME NEW D, IsFiniteSet(D), NEW in \in [D -> Nat], NEW folded, NEW dealt,
         NEW rank \in [D -> Int], NEW out \in Payouts(in, folded, dealt, rank)
  PROVE  /\ out \in [D -> Nat]
         /\ \A p \in D : out[p] <= IF p \in Live(in, folded)
                                     THEN Sum(Stakes(in, folded, p), D) ELSE 0
         /\ Live(in, folded) # {} /\ Live(in, folded) \subseteq dealt => Sum(out, D) = Sum(in, D)
<1> DEFINE pots == BuildPots(in, folded)
<1> DEFINE S == DOMAIN pots
<1>1. PotsRight(in, folded, pots)
  BY BuildPotsRight
<1>2. out \in Payer(pots, dealt, rank)[S]
  BY PayoutsArePaid
<1> HIDE DEF pots
<1>3. pots \in Seq(Pot(D)) /\ S = 1 .. Len(pots) /\ DOMAIN in = D /\ IsFiniteSet(S)
  <2>1. pots \in Seq(Pot(D)) /\ DOMAIN in = D
    BY <1>1 DEF PotsRight
  <2>2. S = 1 .. Len(pots) /\ Len(pots) \in Nat
    BY <2>1
  <2> QED
    BY <2>1, <2>2, FS_Interval
<1>4. PaidSoFar(D, pots, dealt, S, out)
  BY <1>2, <1>3, PayerRight
<1>5. ASSUME NEW p \in D
      PROVE  out[p] <= IF p \in Live(in, folded) THEN Sum(Stakes(in, folded, p), D) ELSE 0
  <2>1. out[p] <= Sum(Mine(pots, p), S)
    BY <1>4 DEF PaidSoFar
  <2>2. CASE p \in Live(in, folded)
    BY <1>1, <1>3, <2>1, <2>2 DEF PotsRight
  <2>3. CASE p \notin Live(in, folded)
    <3>1. \A i \in S : Mine(pots, p)[i] = 0
      BY <1>1, <1>3, <2>3 DEF PotsRight, Mine
    <3>2. Sum(Mine(pots, p), S) = 0
      BY <1>3, <3>1, SumZero
    <3> QED
      BY <2>1, <2>3, <3>2
  <2> QED
    BY <2>2, <2>3
<1>6. ASSUME Live(in, folded) # {}, Live(in, folded) \subseteq dealt
      PROVE  Sum(out, D) = Sum(in, D)
  <2>1. \A i \in S : pots[i].eligible \cap dealt # {}
    BY <1>1, <1>3, <1>6 DEF PotsRight
  <2>2. Sum(out, D) = Sum(AmountsOf(pots), S)
    BY <1>4, <2>1 DEF PaidSoFar
  <2> QED
    BY <1>1, <1>3, <1>6, <2>2 DEF PotsRight
<1> QED
  BY <1>4, <1>5, <1>6 DEF PaidSoFar

(* Somebody put in most.                                                   *)
LEMMA RichestOf ==
  ASSUME NEW S, IsFiniteSet(S), S # {}, NEW in, \A v \in S : in[v] \in Int
  PROVE  \E q \in S : \A v \in S : in[v] <= in[q]
<1> DEFINE T == {in[v] : v \in S}
<1>1. IsFiniteSet(T)
  <2> DEFINE f == [v \in S |-> in[v]]
  <2>1. f \in Surjection(S, T)
    BY DEF Surjection
  <2> HIDE DEF f
  <2> QED
    BY <2>1, FS_Surjection
<1>2. T \subseteq Int /\ T # {}
  OBVIOUS
<1>3. Max(T) \in T /\ \A y \in T : y <= Max(T)
  <2> HIDE DEF T
  <2> QED
    BY <1>1, <1>2, MaxOfFinite
<1> QED
  BY <1>3

(* Nobody else can win what p put in beyond all the others.                *)
LEMMA UncalledIsAlone ==
  ASSUME NEW D, IsFiniteSet(D), NEW in \in [D -> Nat], NEW folded, NEW pots,
         PotsRight(in, folded, pots), NEW p \in Live(in, folded), NEW m \in Nat,
         \A u \in D \ {p} : in[u] <= m, in[p] > m
  PROVE  in[p] - m <= Sum(Alone(pots, p), DOMAIN pots)
<1> DEFINE S == DOMAIN pots
<1> DEFINE live == Live(in, folded)
<1>1. /\ pots \in Seq(Pot(D)) /\ S = 1 .. Len(pots) /\ IsFiniteSet(S)
      /\ \A i \in S : /\ pots[i].eligible # {} /\ pots[i].eligible \subseteq live
                      /\ Upward(in, folded, pots[i].eligible)
      /\ Sum(AmountsOf(pots), S) = Sum(in, D)
      /\ \A q \in live : Sum(Mine(pots, q), S) = Sum(Stakes(in, folded, q), D)
  <2>1. pots \in Seq(Pot(D)) /\ DOMAIN in = D
    BY DEF PotsRight
  <2>2. S = 1 .. Len(pots) /\ Len(pots) \in Nat
    BY <2>1
  <2>3. IsFiniteSet(S)
    BY <2>2, FS_Interval
  <2> QED
    BY <2>1, <2>2, <2>3 DEF PotsRight
<1>2. \A i \in S : /\ pots[i].amount \in Int
                   /\ AmountsOf(pots)[i] = pots[i].amount
                   /\ Alone(pots, p)[i] = IF pots[i].eligible = {p} THEN pots[i].amount ELSE 0
                   /\ \A q : Mine(pots, q)[i] = IF q \in pots[i].eligible
                                                  THEN pots[i].amount ELSE 0
  <2>1. \A i \in S : pots[i] \in Pot(D)
    BY <1>1
  <2>2. \A c \in Pot(D) : c.amount \in Int
    BY DEF Pot
  <2> QED
    BY <2>1, <2>2 DEF AmountsOf, Mine, Alone
<1>3. /\ live \subseteq D /\ p \in D /\ \A u \in D : in[u] \in Nat
      /\ p \notin folded /\ DOMAIN in = D
  BY DEF Live, Contributors
<1>4. Sum(in, D) = in[p] + Sum(in, D \ {p}) /\ Sum(in, D \ {p}) \in Nat
  <2>1. IsFiniteSet(D \ {p})
    BY FS_Subset
  <2>2. Sum(in, D \ {p}) \in Nat
    BY <1>3, <2>1, SumNat
  <2> QED
    BY <1>3, <2>2, SumRemove
<1> HIDE DEF S, live
<1>5. CASE live = {p}
  <2>1. \A i \in S : pots[i].eligible = {p}
    BY <1>1, <1>5
  <2>2. \A i \in S : AmountsOf(pots)[i] \in Int /\ Alone(pots, p)[i] = AmountsOf(pots)[i]
    BY <1>2, <2>1
  <2>3. Sum(Alone(pots, p), S) = Sum(AmountsOf(pots), S)
    BY <1>1, <2>2, SumEqual
  <2> QED
    BY <1>1, <1>3, <1>4, <2>3 DEF S
<1>6. CASE live # {p}
  <2> DEFINE others == live \ {p}
  <2>1. others # {} /\ IsFiniteSet(others) /\ \A v \in others : in[v] \in Int
    <3>1. others \subseteq D /\ others # {}
      BY <1>3, <1>6 DEF live
    <3> QED
      BY <1>3, <3>1, FS_Subset
  <2>2. PICK q \in others : \A v \in others : in[v] <= in[q]
    <3> HIDE DEF others
    <3> QED
      BY <2>1, RichestOf
  <2>3. q \in live /\ q # p /\ q \in D /\ in[q] <= m
    BY <1>3, <2>2
  <2>4. \A i \in S : pots[i].eligible # {p} => q \in pots[i].eligible
    <3> SUFFICES ASSUME NEW i \in S, pots[i].eligible # {p} PROVE q \in pots[i].eligible
      OBVIOUS
    <3>1. PICK r \in pots[i].eligible : r # p
      BY <1>1
    <3>2. r \in others
      BY <1>1, <3>1
    <3>3. in[r] <= in[q]
      BY <2>2, <3>2
    <3> QED
      BY <1>1, <2>3, <3>1, <3>3 DEF Upward, live
  <2> DEFINE f == Mine(pots, q)
  <2> DEFINE g == Alone(pots, p)
  <2> DEFINE h == AmountsOf(pots)
  <2>5. \A i \in S : f[i] \in Int /\ g[i] \in Int /\ h[i] = f[i] + g[i]
    <3> SUFFICES ASSUME NEW i \in S PROVE f[i] \in Int /\ g[i] \in Int /\ h[i] = f[i] + g[i]
      OBVIOUS
    <3>1. CASE pots[i].eligible = {p}
      BY <1>2, <2>3, <3>1
    <3>2. CASE pots[i].eligible # {p}
      BY <1>2, <2>4, <3>2
    <3> QED
      BY <3>1, <3>2
  <2>6. Sum(h, S) = Sum(f, S) + Sum(g, S) /\ Sum(f, S) \in Int /\ Sum(g, S) \in Int
    <3> HIDE DEF f, g, h
    <3>0. IsFiniteSet(S)
      BY <1>1
    <3>1. Sum(h, S) = Sum(f, S) + Sum(g, S)
      BY <2>5, <3>0, SumPlus
    <3>2. Sum(f, S) \in Int /\ Sum(g, S) \in Int
      BY <2>5, <3>0, SumInt
    <3> QED
      BY <3>1, <3>2
  <2> DEFINE k == Stakes(in, folded, q)
  <2>7. /\ \A u \in D : k[u] \in Nat /\ k[u] <= in[u]
        /\ k[p] <= m
    <3>1. \A u \in D : k[u] = IF u \in folded /\ Topped(in, folded, q)
                                THEN in[u] ELSE Lesser(in[q], in[u])
      BY <1>3 DEF Stakes
    <3> HIDE DEF k
    <3>2. \A u \in D : k[u] \in Nat /\ k[u] <= in[u]
      <4> SUFFICES ASSUME NEW u \in D PROVE k[u] \in Nat /\ k[u] <= in[u]
        OBVIOUS
      <4>1. in[u] \in Nat /\ in[q] \in Nat
        BY <1>3, <2>3
      <4> QED
        BY <3>1, <4>1 DEF Lesser
    <3>3. k[p] = Lesser(in[q], in[p])
      BY <1>3, <3>1
    <3>4. k[p] <= m
      <4>1. in[p] \in Nat /\ in[q] \in Nat
        BY <1>3, <2>3
      <4> QED
        BY <2>3, <3>3, <4>1 DEF Lesser
    <3> QED
      BY <3>2, <3>4
  <2> HIDE DEF k
  <2>8. Sum(k, D) = k[p] + Sum(k, D \ {p}) /\ Sum(k, D \ {p}) <= Sum(in, D \ {p})
        /\ Sum(k, D \ {p}) \in Int
    <3>1. IsFiniteSet(D \ {p})
      BY FS_Subset
    <3>2. \A u \in D : k[u] \in Int /\ in[u] \in Int
      BY <1>3, <2>7
    <3>3. Sum(k, D) = k[p] + Sum(k, D \ {p})
      BY <1>3, <3>2, SumRemove
    <3>4. Sum(k, D \ {p}) <= Sum(in, D \ {p})
      BY <2>7, <3>1, <3>2, SumMonotone
    <3>5. Sum(k, D \ {p}) \in Int
      BY <3>1, <3>2, SumInt
    <3> QED
      BY <3>3, <3>4, <3>5
  <2>9. Sum(f, S) = Sum(k, D) /\ Sum(h, S) = Sum(in, D)
    BY <1>1, <2>3 DEF k
  <2> HIDE DEF f, g, h
  <2>10. k[p] \in Int /\ in[p] \in Int
    BY <1>3, <2>7
  <2>11. in[p] - m <= Sum(g, S)
    BY <1>4, <2>6, <2>7, <2>8, <2>9, <2>10
  <2> QED
    BY <2>11 DEF g, S
<1> QED
  BY <1>5, <1>6

(* The showdown pays nobody who is beaten by a player with as much at      *)
(* stake, pays equal hands with equal stakes alike but for an odd chip of  *)
(* each of n pots, and gives back what nobody called.                      *)
FairlySplit(D, in, live, rank, out, n) ==
  /\ \A p, q \in live :
       /\ rank[q] < rank[p] /\ in[q] <= in[p] => out[q] = 0
       /\ rank[p] = rank[q] /\ in[p] = in[q] => out[p] - out[q] <= n
  /\ \A p \in live, m \in Nat : (\A u \in D \ {p} : in[u] <= m) => in[p] - m <= out[p]

(* Whatever the evaluator makes of the odd chips, the split is fair.       *)
THEOREM PayoutsFair ==
  ASSUME NEW D, IsFiniteSet(D), NEW in \in [D -> Nat], NEW folded, NEW dealt,
         NEW rank \in [D -> Int], NEW out \in Payouts(in, folded, dealt, rank),
         Live(in, folded) \subseteq dealt
  PROVE  FairlySplit(D, in, Live(in, folded), rank, out, Len(BuildPots(in, folded)))
<1> DEFINE pots == BuildPots(in, folded)
<1> DEFINE S == DOMAIN pots
<1> DEFINE live == Live(in, folded)
<1>1. PotsRight(in, folded, pots)
  BY BuildPotsRight
<1>2. out \in Payer(pots, dealt, rank)[S]
  BY PayoutsArePaid
<1> HIDE DEF pots
<1>3. /\ pots \in Seq(Pot(D)) /\ S = 1 .. Len(pots) /\ Len(pots) \in Nat /\ Cardinality(S) = Len(pots)
  <2>1. pots \in Seq(Pot(D)) /\ DOMAIN in = D
    BY <1>1 DEF PotsRight
  <2>2. S = 1 .. Len(pots) /\ Len(pots) \in Nat
    BY <2>1
  <2>3. Cardinality(1 .. Len(pots)) = Len(pots)
    <3> DEFINE l == Len(pots)
    <3>1. l \in Nat /\ 1 \in Int
      BY <2>2
    <3> HIDE DEF l
    <3>2. Cardinality(1 .. l) = IF 1 > l THEN 0 ELSE l - 1 + 1
      BY <3>1, FS_Interval
    <3>3. Cardinality(1 .. l) = l
      BY <3>1, <3>2
    <3> QED
      BY <3>3 DEF l
  <2> QED
    BY <2>1, <2>2, <2>3
<1>4. PaidSoFar(D, pots, dealt, S, out) /\ FairSoFar(D, pots, dealt, rank, S, out)
  BY <1>2, <1>3, PayerRight
<1>5. /\ \A i \in S : /\ pots[i].eligible \subseteq live
                      /\ Upward(in, folded, pots[i].eligible)
      /\ out \in [D -> Nat] /\ live \subseteq D
  BY <1>1, <1>3, <1>4 DEF PotsRight, PaidSoFar, Live, Contributors
<1>6. \A i \in S : pots[i].eligible \subseteq dealt
  BY <1>5
<1> HIDE DEF S
<1>7. /\ \A p, q \in D :
           /\ rank[q] < rank[p]
           /\ \A i \in S : q \in pots[i].eligible => p \in pots[i].eligible
           => out[q] = 0
      /\ \A p, q \in D :
           /\ rank[p] = rank[q]
           /\ \A i \in S : p \in pots[i].eligible => q \in pots[i].eligible
           => out[p] - out[q] <= Cardinality(S)
      /\ \A p \in D : Sum(Alone(pots, p), S) <= out[p]
  BY <1>4, <1>6 DEF FairSoFar
<1>8. ASSUME NEW p \in live, NEW q \in live, rank[q] < rank[p], in[q] <= in[p]
      PROVE  out[q] = 0
  <2>1. \A i \in S : q \in pots[i].eligible => p \in pots[i].eligible
    BY <1>5, <1>8 DEF Upward
  <2> QED
    BY <1>5, <1>7, <1>8, <2>1
<1>9. ASSUME NEW p \in live, NEW q \in live, rank[p] = rank[q], in[p] = in[q]
      PROVE  out[p] - out[q] <= Len(pots)
  <2>1. p \in D /\ q \in D /\ in[p] \in Nat
    BY <1>5
  <2>2. in[p] <= in[q]
    BY <1>9, <2>1
  <2>3. \A i \in S : p \in pots[i].eligible => q \in pots[i].eligible
    BY <1>5, <2>2 DEF Upward
  <2>4. out[p] - out[q] <= Cardinality(S)
    BY <1>7, <1>9, <2>1, <2>3
  <2> QED
    BY <1>3, <2>4
<1>10. ASSUME NEW p \in live, NEW m \in Nat, \A u \in D \ {p} : in[u] <= m
       PROVE  in[p] - m <= out[p]
  <2>1. p \in D /\ in[p] \in Nat /\ out[p] \in Nat
    BY <1>5
  <2>2. CASE in[p] <= m
    BY <2>1, <2>2
  <2>3. CASE in[p] > m
    <3>1. in[p] - m <= Sum(Alone(pots, p), S)
      BY <1>1, <1>10, <2>3, UncalledIsAlone DEF S
    <3>2. Sum(Alone(pots, p), S) <= out[p]
      BY <1>7, <2>1
    <3>3. Sum(Alone(pots, p), S) \in Int
      <4>1. \A i \in S : Alone(pots, p)[i] \in Int
        <5>1. \A i \in S : pots[i] \in Pot(D)
          BY <1>3
        <5> QED
          BY <5>1 DEF Alone, Pot, S
      <4>2. IsFiniteSet(S)
        BY <1>3, FS_Interval
      <4> QED
        BY <4>1, <4>2, SumInt
    <3> QED
      BY <2>1, <3>1, <3>2, <3>3
  <2> QED
    BY <2>1, <2>2, <2>3
<1> QED
  BY <1>8, <1>9, <1>10 DEF FairlySplit, pots

(* The least of two numbers.                                               *)
LEMMA LesserIs ==
  ASSUME NEW a \in Int, NEW b \in Int
  PROVE  Min({a, b}) = Lesser(a, b)
<1> DEFINE x == IF a <= b THEN a ELSE b
<1>1. x \in {a, b} /\ \A y \in {a, b} : x <= y
  OBVIOUS
<1>2. \A z \in {a, b} : (\A y \in {a, b} : z <= y) => z = x
  OBVIOUS
<1>3. Min({a, b}) = x
  BY <1>1, <1>2 DEF Min
<1> QED
  BY <1>3 DEF Lesser

(* Total is a sum over the domain.                                         *)
LEMMA TotalIs ==
  ASSUME NEW f, NEW D, DOMAIN f = D
  PROVE  Total(f) = Sum(f, D)
  BY DEF Total, SumFunction, Sum

-----------------------------------------------------------------------------
(* A showdown of Showdown.tla.                                             *)
LEMMA LivingIs == Living = Live(invested, mucked)
BY DEF Living, Live

(* What comes to a showdown, and what it pays.                             *)
ShowdownInv ==
  /\ invested \in [Contestants -> Nat]
  /\ mucked \subseteq Contributors(invested)
  /\ Living # {}
  /\ ranked \in [Contestants -> Int]
  /\ won = Nothing \/ won \in Payouts(invested, mucked, Contestants, ranked)

LEMMA StakeIs ==
  ASSUME ShowdownInv, NEW p \in Contestants
  PROVE  [u \in Contestants |-> Stake(p, u)] = Stakes(invested, mucked, p)
<1>1. invested \in [Contestants -> Nat]
  BY DEF ShowdownInv
<1>2. ASSUME NEW u \in Contestants
      PROVE  Stake(p, u) = IF u \in mucked /\ Topped(invested, mucked, p)
                             THEN invested[u] ELSE Lesser(invested[p], invested[u])
  <2>1. Min({invested[p], invested[u]}) = Lesser(invested[p], invested[u])
    BY <1>1, LesserIs
  <2>2. Topped(invested, mucked, p) <=> \A q \in Living : invested[q] <= invested[p]
    BY LivingIs DEF Topped
  <2> QED
    BY <2>1, <2>2 DEF Stake
<1>3. Stakes(invested, mucked, p)
        = [u \in Contestants |-> IF u \in mucked /\ Topped(invested, mucked, p)
                                   THEN invested[u] ELSE Lesser(invested[p], invested[u])]
  BY <1>1 DEF Stakes
<1> QED
  BY <1>2, <1>3

(* The pots p may win, summed as SidePots does.                            *)
LEMMA MineIs ==
  ASSUME NEW D, NEW pots \in Seq(Pot(D)), NEW p, NEW mine,
         mine = {i \in DOMAIN pots : p \in pots[i].eligible}
  PROVE  Total([i \in mine |-> pots[i].amount]) = Sum(Mine(pots, p), 1 .. Len(pots))
<1> DEFINE f == [i \in mine |-> pots[i].amount]
<1> DEFINE g == Mine(pots, p)
<1> DEFINE S == 1 .. Len(pots)
<1>1. S = DOMAIN pots /\ IsFiniteSet(S)
  <2>1. S = DOMAIN pots /\ Len(pots) \in Nat
    OBVIOUS
  <2> QED
    BY <2>1, FS_Interval
<1>2. \A i \in S : pots[i].amount \in Int
  <2>1. \A i \in S : pots[i] \in Pot(D)
    BY <1>1
  <2> QED
    BY <2>1 DEF Pot
<1>3. /\ \A i \in mine : f[i] \in Int /\ g[i] = f[i]
      /\ \A i \in S \ mine : g[i] = 0
      /\ \A i \in S : g[i] \in Int
      /\ DOMAIN f = mine
  BY <1>1, <1>2 DEF Mine
<1>4. /\ IsFiniteSet(mine) /\ IsFiniteSet(S \ mine)
      /\ mine \cup (S \ mine) = S /\ mine \cap (S \ mine) = {}
  BY <1>1, FS_Subset
<1> HIDE DEF f, g, S
<1>5. Sum(g, S) = Sum(g, mine) + Sum(g, S \ mine)
  BY <1>3, <1>4, SumUnion
<1>6. Sum(g, S \ mine) = 0
  BY <1>3, <1>4, SumZero
<1>7. Sum(g, mine) = Sum(f, mine) /\ Sum(f, mine) \in Int
  <2>1. Sum(g, mine) = Sum(f, mine)
    BY <1>3, <1>4, SumEqual
  <2>2. Sum(f, mine) \in Int
    BY <1>3, <1>4, SumInt
  <2> QED
    BY <2>1, <2>2
<1>8. Total(f) = Sum(f, mine)
  BY <1>3, TotalIs
<1>9. Total(f) = Sum(g, S)
  BY <1>5, <1>6, <1>7, <1>8
<1> QED
  BY <1>9 DEF f, g, S

LEMMA SidePotsHold == ShowdownInv => SidePots
<1> SUFFICES ASSUME ShowdownInv, NEW p \in Contributors(invested),
                    NEW pots, pots = BuildPots(invested, mucked),
                    NEW mine, mine = {i \in DOMAIN pots : p \in pots[i].eligible}
             PROVE  Total([i \in mine |-> pots[i].amount]) =
                      IF p \in mucked THEN 0 ELSE Total([u \in Contestants |-> Stake(p, u)])
  BY DEF SidePots
<1>1. /\ invested \in [Contestants -> Nat] /\ IsFiniteSet(Contestants)
      /\ DOMAIN invested = Contestants
  BY ShowdownAssumption DEF ShowdownInv
<1>2. PotsRight(invested, mucked, pots)
  BY <1>1, BuildPotsRight
<1>3. pots \in Seq(Pot(Contestants))
  BY <1>1, <1>2 DEF PotsRight
<1>4. Total([i \in mine |-> pots[i].amount]) = Sum(Mine(pots, p), 1 .. Len(pots))
  BY <1>3, MineIs
<1>5. p \in Contestants
  BY <1>1 DEF Contributors
<1>6. CASE p \in mucked
  <2>1. \A i \in 1 .. Len(pots) : Mine(pots, p)[i] = 0
    <3>1. \A i \in 1 .. Len(pots) : i \in DOMAIN pots /\ p \notin pots[i].eligible
      BY <1>2, <1>3, <1>6 DEF PotsRight, Live
    <3> QED
      BY <3>1 DEF Mine
  <2>2. IsFiniteSet(1 .. Len(pots))
    BY <1>3, FS_Interval
  <2>3. Sum(Mine(pots, p), 1 .. Len(pots)) = 0
    BY <2>1, <2>2, SumZero
  <2> QED
    BY <1>4, <1>6, <2>3
<1>7. CASE p \notin mucked
  <2>1. p \in Live(invested, mucked)
    BY <1>7 DEF Live
  <2>2. Sum(Mine(pots, p), 1 .. Len(pots)) = Sum(Stakes(invested, mucked, p), Contestants)
    BY <1>1, <1>2, <2>1 DEF PotsRight
  <2>3. Total([u \in Contestants |-> Stake(p, u)]) = Sum(Stakes(invested, mucked, p), Contestants)
    <3>1. DOMAIN Stakes(invested, mucked, p) = Contestants
      BY <1>1 DEF Stakes
    <3> QED
      BY <1>5, <3>1, StakeIs, TotalIs
  <2> QED
    BY <1>4, <1>7, <2>2, <2>3
<1> QED
  BY <1>6, <1>7

LEMMA FairlyPaidHolds == ShowdownInv => FairlyPaid
<1> SUFFICES ASSUME ShowdownInv, won # Nothing
             PROVE  /\ Total(won) = Total(invested)
                    /\ \A p, q \in Living :
                         /\ ranked[p] > ranked[q] /\ invested[p] >= invested[q] => won[q] = 0
                         /\ ranked[p] = ranked[q] /\ invested[p] = invested[q]
                              => won[p] - won[q] <= Len(BuildPots(invested, mucked))
                         /\ invested[p] - Max({invested[u] : u \in Contestants \ {p}}) <= won[p]
  BY DEF FairlyPaid
<1>1. /\ invested \in [Contestants -> Nat] /\ IsFiniteSet(Contestants)
      /\ DOMAIN invested = Contestants /\ ranked \in [Contestants -> Int]
      /\ won \in Payouts(invested, mucked, Contestants, ranked)
      /\ Living = Live(invested, mucked) /\ Living # {}
  BY LivingIs, ShowdownAssumption DEF ShowdownInv
<1>2. Living \subseteq Contestants
  BY <1>1 DEF Living, Contributors
<1>3. won \in [Contestants -> Nat] /\ Sum(won, Contestants) = Sum(invested, Contestants)
  BY <1>1, <1>2, PayoutsRight
<1>4. Total(won) = Total(invested)
  <2>1. DOMAIN won = Contestants
    BY <1>3
  <2>2. Total(won) = Sum(won, Contestants)
    BY <2>1, TotalIs
  <2>3. Total(invested) = Sum(invested, Contestants)
    BY <1>1, TotalIs
  <2> QED
    BY <1>3, <2>2, <2>3
<1>5. /\ \A p, q \in Living :
           /\ ranked[q] < ranked[p] /\ invested[q] <= invested[p] => won[q] = 0
           /\ ranked[p] = ranked[q] /\ invested[p] = invested[q]
                => won[p] - won[q] <= Len(BuildPots(invested, mucked))
      /\ \A p \in Living, m \in Nat :
           (\A u \in Contestants \ {p} : invested[u] <= m) => invested[p] - m <= won[p]
  <2> DEFINE live == Live(invested, mucked)
  <2> DEFINE n == Len(BuildPots(invested, mucked))
  <2>1. live \subseteq Contestants /\ Living = live
    BY <1>1, <1>2
  <2>2. FairlySplit(Contestants, invested, live, ranked, won, n)
    BY <1>1, <2>1, PayoutsFair
  <2> HIDE DEF live, n
  <2>3. FairlySplit(Contestants, invested, Living, ranked, won, n)
    BY <2>1, <2>2
  <2> QED
    BY <2>3 DEF FairlySplit, n
<1>6. ASSUME NEW p \in Living, NEW q \in Living, ranked[p] > ranked[q], invested[p] >= invested[q]
      PROVE  won[q] = 0
  <2>1. /\ ranked[p] \in Int /\ ranked[q] \in Int
        /\ invested[p] \in Int /\ invested[q] \in Int
    BY <1>1, <1>2
  <2>2. ranked[q] < ranked[p] /\ invested[q] <= invested[p]
    BY <1>6, <2>1
  <2> QED
    BY <1>5, <2>2
<1>7. ASSUME NEW p \in Living
      PROVE  invested[p] - Max({invested[u] : u \in Contestants \ {p}}) <= won[p]
  <2> DEFINE others == Contestants \ {p}
  <2> DEFINE T == {invested[u] : u \in others}
  <2>1. IsFiniteSet(others) /\ others # {}
    <3>1. IsFiniteSet(others)
      BY <1>1, FS_Subset
    <3>2. others = {} => Contestants = {p}
      BY <1>2
    <3>3. Cardinality({p}) = 1
      BY FS_Singleton
    <3> QED
      BY <3>1, <3>2, <3>3, ShowdownAssumption
  <2>2. IsFiniteSet(T) /\ T # {} /\ T \subseteq Nat
    <3> DEFINE f == [u \in others |-> invested[u]]
    <3>1. f \in Surjection(others, T)
      BY DEF Surjection
    <3>2. T # {} /\ T \subseteq Nat
      BY <1>1, <2>1
    <3> HIDE DEF f, others, T
    <3> QED
      BY <2>1, <3>1, <3>2, FS_Surjection
  <2>3. Max(T) \in T /\ \A y \in T : y <= Max(T)
    <3>1. T \subseteq Int
      BY <2>2
    <3> HIDE DEF T
    <3> QED
      BY <2>2, <3>1, MaxOfFinite
  <2>4. Max(T) \in Nat
    BY <2>2, <2>3
  <2>5. \A u \in Contestants \ {p} : invested[u] <= Max(T)
    BY <2>3
  <2> HIDE DEF T
  <2>6. invested[p] - Max(T) <= won[p]
    BY <1>5, <2>4, <2>5
  <2> QED
    BY <2>6 DEF T
<1> QED
  BY <1>4, <1>5, <1>6, <1>7

LEMMA ShowdownInitInv == ShowdownInit => ShowdownInv
BY ShowdownAssumption DEF ShowdownInit, ShowdownInv, Living

LEMMA ShowdownStepInv == ShowdownInv /\ [ShowdownNext]_showdown => ShowdownInv'
BY DEF ShowdownNext, ShowdownInv, Living, showdown, Nothing

(* For any players, any amounts put in and whoever folded: the pots of     *)
(* PotManager::BuildPots hold for each living player what he can win from  *)
(* every opponent, and nothing for those who folded.                       *)
THEOREM PotsAreSidePots == ShowdownSpec => []SidePots
<1> QED
  BY ShowdownInitInv, ShowdownStepInv, SidePotsHold, PTL DEF ShowdownSpec

(* For any players, amounts and hands: the loop of GameState::DoShowdown   *)
(* over ShowdownEvaluator::EvaluatePot pays every chip, nothing to a hand  *)
(* that is beaten, equal hands alike, and back what nobody called.         *)
THEOREM PotsAreFairlyPaid == ShowdownSpec => []FairlyPaid
<1> QED
  BY ShowdownInitInv, ShowdownStepInv, FairlyPaidHolds, PTL DEF ShowdownSpec

-----------------------------------------------------------------------------
(* Seats around the table.                                                 *)
LEMMA SeatNumbers ==
  /\ NumSeats \in Nat /\ NumSeats >= 2
  /\ Seats \subseteq Nat /\ \A s \in Seats : s < NumSeats
  /\ IsFiniteSet(Seats) /\ NoSeat \notin Seats /\ 0 \in Seats
<1>1. NumSeats \in Nat /\ NumSeats >= 2
  BY TableAssumption
<1>2. IsFiniteSet(0 .. NumSeats - 1)
  BY <1>1, FS_Interval
<1> QED
  BY <1>1, <1>2 DEF Seats, NoSeat

(* Where counting may start.                                               *)
LEMMA SeatAfter ==
  ASSUME NEW s \in Seats
  PROVE  s + 1 \in 0 .. NumSeats /\ s \in 0 .. NumSeats /\ s \in Nat
  BY SeatNumbers

(* A remainder at most one turn away.                                      *)
LEMMA Remainder ==
  ASSUME NEW n \in Nat, n > 0, NEW x \in 0 .. 2 * n - 1
  PROVE  x % n = IF x < n THEN x ELSE x - n
  OBVIOUS

(* How many seats to go from s to u.                                       *)
LEMMA DistanceIs ==
  ASSUME NEW s \in 0 .. NumSeats, NEW u \in Seats
  PROVE  Distance(s, u) = IF u >= s THEN u - s ELSE u - s + NumSeats
<1> DEFINE x == u - s + NumSeats
<1>1. u \in Nat /\ u < NumSeats /\ NumSeats \in Nat /\ NumSeats > 0
  BY SeatNumbers
<1>2. x \in 0 .. 2 * NumSeats - 1 /\ (x < NumSeats <=> u < s)
  BY <1>1
<1> HIDE DEF x
<1>3. x % NumSeats = IF x < NumSeats THEN x ELSE x - NumSeats
  BY <1>1, <1>2, Remainder
<1> QED
  BY <1>1, <1>2, <1>3 DEF x, Distance

(* The first seat of a set, counted from s.                                *)
LEMMA FirstFromIn ==
  ASSUME NEW s \in 0 .. NumSeats, NEW S \in SUBSET Seats, S # {}
  PROVE  /\ FirstFrom(s, S) \in S
         /\ \A v \in S : Distance(s, FirstFrom(s, S)) <= Distance(s, v)
<1> DEFINE D == {Distance(s, v) : v \in S}
<1>1. \A v \in S : Distance(s, v) \in Nat
  BY DistanceIs, SeatNumbers
<1>2. D \subseteq Nat /\ D # {}
  BY <1>1
<1>3. PICK d \in D : \A e \in D : ~(<<e, d>> \in OpToRel(<, Nat))
  BY <1>2, NatLessThanWellFounded, WFMin
<1>4. \A e \in D : ~(e < d)
  BY <1>2, <1>3 DEF OpToRel
<1>5. \A e \in D : d <= e
  BY <1>2, <1>4
<1>6. PICK u \in S : d = Distance(s, u)
  OBVIOUS
<1>7. \A v \in S : Distance(s, u) <= Distance(s, v)
  BY <1>5, <1>6
<1> QED
  BY <1>7 DEF FirstFrom

(* The next seat counted from the one before.                              *)
LEMMA NextDistance ==
  ASSUME NEW s \in Seats, NEW u \in Seats, u # s
  PROVE  Distance(s, u) = Distance(s + 1, u) + 1
<1>1. s + 1 \in 0 .. NumSeats /\ s \in 0 .. NumSeats
  BY SeatNumbers
<1> QED
  BY <1>1, DistanceIs, SeatNumbers

(* The way to v leads past a if a is not farther.                          *)
LEMMA DistanceAdds ==
  ASSUME NEW s \in 0 .. NumSeats, NEW a \in Seats, NEW v \in Seats,
         Distance(s, a) <= Distance(s, v)
  PROVE  Distance(s, v) = Distance(s, a) + Distance(a, v)
<1>1. a \in 0 .. NumSeats
  BY SeatNumbers
<1> QED
  BY <1>1, DistanceIs, SeatNumbers

(* Distances are less than a turn, and 0 only to oneself.                  *)
LEMMA DistanceNat ==
  ASSUME NEW s \in 0 .. NumSeats, NEW u \in Seats
  PROVE  Distance(s, u) \in 0 .. NumSeats - 1 /\ (s \in Seats => Distance(s, s) = 0)
         /\ (Distance(s, u) = 0 /\ s \in Seats => s = u)
  BY DistanceIs, SeatNumbers

-----------------------------------------------------------------------------
(* Tables.                                                                 *)
SeatRec == [id: Players \cup {Nobody}, state: SeatStates, chips: Nat, bet: Nat, in: Nat,
            acted: BOOLEAN, leaving: BOOLEAN, cards: BOOLEAN]

SettledRec == [in: Nat, out: Nat, folded: BOOLEAN]

InPlay == {"preflop", "flop", "turn", "river"}

TableRec == [seat: [Seats -> SeatRec], phase: {"waiting", "complete"} \cup InPlay,
             hand: 0 .. MaxHands, dealer: Seats, action: Seats, bet: Nat, raise: Nat,
             live: BOOLEAN, gone: SUBSET Players, settled: [Seats -> SettledRec], bank: Int]

(* What std::max with 0 gives.                                             *)
LEMMA MaxWithZero ==
  ASSUME NEW a \in Int
  PROVE  Max({0, a}) = IF a >= 0 THEN a ELSE 0
<1> DEFINE x == IF a >= 0 THEN a ELSE 0
<1>1. x \in {0, a} /\ \A y \in {0, a} : x >= y
  OBVIOUS
<1>2. \A z \in {0, a} : (\A y \in {0, a} : z >= y) => z = x
  OBVIOUS
<1> QED
  BY <1>1, <1>2 DEF Max

(* Seat c puts m chips in and becomes d.                                   *)
PutsIn(c, d, m) ==
  /\ d \in SeatRec /\ m \in 0 .. c.chips
  /\ d.id = c.id /\ d.cards = c.cards
  /\ d.chips = c.chips - m /\ d.bet = c.bet + m /\ d.in = c.in + m

(* Pay takes what is asked, or all there is.                               *)
LEMMA PayIs ==
  ASSUME NEW c \in SeatRec, NEW amount \in Nat
  PROVE  LET m == Lesser(amount, c.chips)
             d == Pay(c, amount)
         IN  /\ PutsIn(c, d, m)
             /\ d.leaving = c.leaving /\ d.acted = c.acted
             /\ d.state = IF m > 0 /\ m = c.chips THEN "allin" ELSE c.state
<1> DEFINE m == Lesser(amount, c.chips)
<1> DEFINE d == Pay(c, amount)
<1>1. c.chips \in Nat /\ c.bet \in Nat /\ c.in \in Nat /\ c.state \in SeatStates
  BY DEF SeatRec
<1>2. Min({amount, c.chips}) = m /\ m \in 0 .. c.chips
  BY <1>1, LesserIs DEF Lesser
<1> HIDE DEF m
<1>3. d = [c EXCEPT !.chips = @ - m, !.bet = @ + m, !.in = @ + m,
                    !.state = IF m > 0 /\ m = c.chips THEN "allin" ELSE @]
  BY <1>2 DEF Pay
<1> HIDE DEF d
<1>4. c.chips - m \in Nat /\ c.bet + m \in Nat /\ c.in + m \in Nat
  BY <1>1, <1>2
<1>5. (IF m > 0 /\ m = c.chips THEN "allin" ELSE c.state) \in SeatStates
  BY <1>1 DEF SeatStates
<1>6. d \in SeatRec
  BY <1>3, <1>4, <1>5 DEF SeatRec
<1>7. /\ d.id = c.id /\ d.cards = c.cards /\ d.leaving = c.leaving /\ d.acted = c.acted
      /\ d.chips = c.chips - m /\ d.bet = c.bet + m /\ d.in = c.in + m
      /\ d.state = IF m > 0 /\ m = c.chips THEN "allin" ELSE c.state
  BY <1>3 DEF SeatRec
<1> QED
  BY <1>2, <1>6, <1>7 DEF m, d, PutsIn

-----------------------------------------------------------------------------
(* Dealing.                                                                *)
LEMMA TwoAtLeast ==
  ASSUME NEW S \in SUBSET Seats
  PROVE  /\ IsFiniteSet(S) /\ Cardinality(S) \in Nat
         /\ Cardinality(S) >= 2 => \A x : \E y \in S : y # x
         /\ Cardinality(S) <= 1 <=> \A x, y \in S : x = y
<1>1. IsFiniteSet(S) /\ Cardinality(S) \in Nat
  BY SeatNumbers, FS_Subset, FS_CardinalityType
<1>2. (\A x, y \in S : x = y) => Cardinality(S) <= 1
  <2> SUFFICES ASSUME \A x, y \in S : x = y PROVE Cardinality(S) <= 1
    OBVIOUS
  <2>1. CASE S = {}
    BY <2>1, FS_EmptySet
  <2>2. CASE S # {}
    <3>1. PICK x \in S : S = {x}
      BY <2>2
    <3> QED
      BY <3>1, FS_Singleton
  <2> QED
    BY <2>1, <2>2
<1>3. Cardinality(S) <= 1 => \A x, y \in S : x = y
  <2> SUFFICES ASSUME Cardinality(S) <= 1, NEW x \in S, NEW y \in S, x # y PROVE FALSE
    OBVIOUS
  <2>1. IsFiniteSet({x, y}) /\ {x, y} \subseteq S /\ Cardinality({x, y}) <= Cardinality(S)
    BY <1>1, FS_Subset
  <2>2. Cardinality({x, y}) = 2
    <3>1. IsFiniteSet({x}) /\ Cardinality({x}) = 1 /\ y \notin {x}
      BY FS_Singleton
    <3>2. Cardinality({x} \cup {y}) = 1 + 1
      BY <3>1, FS_AddElement
    <3>3. {x, y} = {x} \cup {y}
      OBVIOUS
    <3> QED
      BY <3>2, <3>3
  <2> QED
    BY <1>1, <2>1, <2>2
<1>4. Cardinality(S) >= 2 => \A x : \E y \in S : y # x
  BY <1>1, <1>2
<1> QED
  BY <1>1, <1>2, <1>3, <1>4

(* The blinds are posted by two players.                                   *)
LEMMA PositionsAre ==
  ASSUME NEW t \in TableRec, Cardinality(Taken(t)) >= 2
  PROVE  LET pos == Positions(t) IN
         /\ pos.dealer \in Taken(t) /\ pos.sb \in Taken(t) /\ pos.bb \in Taken(t)
         /\ pos.sb # pos.bb
         /\ Cardinality(Taken(t)) = 2 => pos.sb = pos.dealer
<1> DEFINE S == Taken(t)
<1> DEFINE after(x) == FirstFrom(x + 1, S)
<1>1. S \in SUBSET Seats /\ \A x : \E y \in S : y # x
  BY TwoAtLeast DEF Taken
<1>2. S # {} /\ t.dealer \in Seats
  BY <1>1 DEF TableRec
<1>3. Positions(t) = [dealer |-> after(t.dealer),
                      sb |-> IF Cardinality(S) = 2 THEN after(t.dealer) ELSE after(after(t.dealer)),
                      bb |-> IF Cardinality(S) = 2 THEN after(after(t.dealer))
                             ELSE after(after(after(t.dealer)))]
  BY DEF Positions
<1> HIDE DEF S
<1>4. ASSUME NEW x \in Seats PROVE after(x) \in S /\ after(x) # x
  <2>1. x + 1 \in 0 .. NumSeats
    BY SeatNumbers
  <2>2. after(x) \in S /\ \A v \in S : Distance(x + 1, after(x)) <= Distance(x + 1, v)
    BY <1>1, <1>2, <2>1, FirstFromIn
  <2>3. ASSUME after(x) = x PROVE FALSE
    <3>1. PICK y \in S : y # x
      BY <1>1
    <3>2. y \in Seats /\ Distance(x + 1, x) <= Distance(x + 1, y)
      BY <1>1, <2>2, <2>3
    <3> HIDE DEF after
    <3> QED
      BY <2>1, <3>1, <3>2, DistanceIs, SeatNumbers
  <2> QED
    BY <2>2, <2>3
<1>5. \A x \in S : x \in Seats
  BY <1>1
<1> HIDE DEF after
<1>6. /\ after(t.dealer) \in S /\ after(after(t.dealer)) \in S
      /\ after(after(after(t.dealer))) \in S
      /\ after(after(t.dealer)) # after(t.dealer)
      /\ after(after(after(t.dealer))) # after(after(t.dealer))
  BY <1>2, <1>4, <1>5
<1> QED
  BY <1>3, <1>6 DEF S

(* The blind seat s posts.                                                 *)
Blind(t, s) ==
  IF s = Positions(t).sb THEN SmallBlind ELSE IF s = Positions(t).bb THEN BigBlind ELSE 0

(* Seat c is dealt in, as d.                                               *)
DealtIn(c, d, blind) ==
  LET m == Lesser(blind, c.chips)
  IN  /\ d \in SeatRec /\ m \in 0 .. c.chips
      /\ d.id = c.id /\ d.leaving = c.leaving /\ ~d.acted
      /\ d.chips = c.chips - m /\ d.bet = m /\ d.in = m
      /\ d.state = IF c.state = "empty" THEN "empty"
                   ELSE IF m > 0 /\ m = c.chips THEN "allin" ELSE "playing"
      /\ d.cards <=> d.state = "playing"

(* What StartHand has dealt before anybody acts.                           *)
LEMMA DealIs ==
  ASSUME NEW t \in TableRec, Cardinality(Taken(t)) >= 2, t.hand < MaxHands
  PROVE  LET d == Deal(t) IN
         /\ d \in TableRec
         /\ d.live /\ d.phase = "preflop" /\ d.dealer = Positions(t).dealer
         /\ d.bet = d.seat[Positions(t).bb].bet /\ d.settled = NothingSettled
         /\ d.action = t.action /\ d.gone = t.gone /\ d.bank = t.bank /\ d.raise = BigBlind
         /\ \A s \in Seats : DealtIn(t.seat[s], d.seat[s], Blind(t, s))
<1> DEFINE reset  == [s \in Seats |->
                   [t.seat[s] EXCEPT !.bet = 0, !.in = 0, !.acted = FALSE, !.cards = FALSE,
                      !.state = IF @ = "empty" THEN @ ELSE "sitting"]]
<1> DEFINE pos    == Positions(t)
<1> DEFINE posted == [reset EXCEPT ![pos.sb] = Pay(@, SmallBlind), ![pos.bb] = Pay(@, BigBlind)]
<1> DEFINE dealt  == [s \in Seats |-> IF posted[s].state = "sitting"
                                       THEN [posted[s] EXCEPT !.state = "playing", !.cards = TRUE]
                                       ELSE posted[s]]
<1> DEFINE d == Deal(t)
<1>1. d = [t EXCEPT !.seat = dealt, !.hand = @ + 1, !.dealer = pos.dealer,
                    !.bet = posted[pos.bb].bet, !.raise = BigBlind, !.live = TRUE,
                    !.phase = "preflop", !.settled = NothingSettled]
  BY DEF Deal
<1>2. /\ pos.dealer \in Taken(t) /\ pos.sb \in Taken(t) /\ pos.bb \in Taken(t) /\ pos.sb # pos.bb
      /\ Taken(t) \subseteq Seats
  BY PositionsAre DEF Taken
<1>3. SmallBlind \in Nat /\ BigBlind \in Nat
  BY TableAssumption
<1>4. ASSUME NEW s \in Seats
      PROVE  /\ t.seat[s] \in SeatRec /\ reset[s] \in SeatRec
             /\ reset[s].id = t.seat[s].id /\ reset[s].leaving = t.seat[s].leaving
             /\ reset[s].chips = t.seat[s].chips /\ reset[s].bet = 0 /\ reset[s].in = 0
             /\ ~reset[s].acted /\ ~reset[s].cards
             /\ reset[s].state = IF t.seat[s].state = "empty" THEN "empty" ELSE "sitting"
  <2>1. t.seat[s] \in SeatRec
    BY DEF TableRec
  <2>2. (IF t.seat[s].state = "empty" THEN "empty" ELSE "sitting") \in SeatStates
    BY DEF SeatStates
  <2> QED
    BY <2>1, <2>2 DEF SeatRec
<1>dom. DOMAIN reset = Seats
  OBVIOUS
<1> HIDE DEF d, reset, pos
<1>5. ASSUME NEW s \in Seats
      PROVE  LET m == Lesser(Blind(t, s), t.seat[s].chips) IN
             /\ PutsIn(reset[s], posted[s], m)
             /\ posted[s].leaving = reset[s].leaving /\ posted[s].acted = reset[s].acted
             /\ posted[s].state = IF m > 0 /\ m = t.seat[s].chips THEN "allin" ELSE reset[s].state
  <2>0. pos.sb \in Seats /\ pos.bb \in Seats /\ t.seat[s].chips \in Nat
        /\ reset[s].chips = t.seat[s].chips
    BY <1>2, <1>4 DEF SeatRec
  <2>1. posted[s] = IF s = pos.sb THEN Pay(reset[s], SmallBlind)
                    ELSE IF s = pos.bb THEN Pay(reset[s], BigBlind) ELSE reset[s]
    BY <1>2, <1>dom, <2>0
  <2> HIDE DEF posted
  <2>2. CASE s = pos.sb
    <3>1. posted[s] = Pay(reset[s], SmallBlind) /\ Blind(t, s) = SmallBlind
      BY <2>1, <2>2 DEF Blind, pos
    <3> QED
      BY <1>3, <1>4, <2>0, <3>1, PayIs
  <2>3. CASE s = pos.bb
    <3>1. posted[s] = Pay(reset[s], BigBlind) /\ Blind(t, s) = BigBlind
      BY <1>2, <2>1, <2>3 DEF Blind, pos
    <3> QED
      BY <1>3, <1>4, <2>0, <3>1, PayIs
  <2>4. CASE s # pos.sb /\ s # pos.bb
    <3>1. posted[s] = reset[s] /\ Lesser(Blind(t, s), t.seat[s].chips) = 0
      BY <2>0, <2>1, <2>4 DEF Blind, pos, Lesser
    <3>2. /\ reset[s] \in SeatRec /\ reset[s].chips \in Nat /\ reset[s].bet \in Nat
          /\ reset[s].in \in Nat
      BY <1>4 DEF SeatRec
    <3> QED
      BY <3>1, <3>2 DEF PutsIn
  <2> QED
    BY <2>2, <2>3, <2>4
<1> HIDE DEF posted
<1>6. ASSUME NEW s \in Seats
      PROVE  /\ DealtIn(t.seat[s], dealt[s], Blind(t, s))
             /\ dealt[s].bet = posted[s].bet
  <2> DEFINE m == Lesser(Blind(t, s), t.seat[s].chips)
  <2>1. /\ posted[s] \in SeatRec /\ m \in 0 .. t.seat[s].chips
        /\ posted[s].id = t.seat[s].id /\ posted[s].leaving = t.seat[s].leaving
        /\ posted[s].chips = t.seat[s].chips - m /\ posted[s].bet = m /\ posted[s].in = m
        /\ ~posted[s].acted /\ ~posted[s].cards
    BY <1>4, <1>5 DEF PutsIn
  <2>2. posted[s].state = IF m > 0 /\ m = t.seat[s].chips THEN "allin" ELSE reset[s].state
    BY <1>5
  <2>3. t.seat[s].state = "empty" => m = 0
    <3>1. t.seat[s].state = "empty" => s # pos.sb /\ s # pos.bb
      BY <1>2 DEF Taken
    <3>2. t.seat[s].chips \in Nat
      BY <1>4 DEF SeatRec
    <3> QED
      BY <3>1, <3>2 DEF Blind, pos, Lesser
  <2> HIDE DEF m
  <2>4. posted[s].state = IF t.seat[s].state = "empty" THEN "empty"
                          ELSE IF m > 0 /\ m = t.seat[s].chips THEN "allin" ELSE "sitting"
    BY <1>4, <2>2, <2>3
  <2>5. CASE posted[s].state = "sitting"
    <3>1. dealt[s] = [posted[s] EXCEPT !.state = "playing", !.cards = TRUE]
      BY <2>5
    <3>2. /\ dealt[s] \in SeatRec /\ dealt[s].state = "playing" /\ dealt[s].cards
          /\ dealt[s].id = posted[s].id /\ dealt[s].leaving = posted[s].leaving
          /\ dealt[s].chips = posted[s].chips /\ dealt[s].bet = posted[s].bet
          /\ dealt[s].in = posted[s].in /\ dealt[s].acted = posted[s].acted
      BY <2>1, <3>1 DEF SeatRec, SeatStates
    <3> HIDE DEF dealt
    <3> QED
      BY <2>1, <2>4, <2>5, <3>2 DEF DealtIn, m
  <2>6. CASE posted[s].state # "sitting"
    <3>1. dealt[s] = posted[s]
      BY <2>6
    <3> HIDE DEF dealt
    <3>2. ~dealt[s].cards /\ dealt[s].state # "playing"
      BY <2>1, <2>4, <2>6, <3>1
    <3> QED
      BY <2>1, <2>4, <2>6, <3>1, <3>2 DEF DealtIn, m
  <2> QED
    BY <2>5, <2>6
<1>7. dealt \in [Seats -> SeatRec]
  <2>1. \A s \in Seats : dealt[s] \in SeatRec
    BY <1>6 DEF DealtIn
  <2> QED
    BY <2>1
<1> HIDE DEF dealt
<1>8. /\ t.hand + 1 \in 0 .. MaxHands /\ pos.dealer \in Seats
      /\ posted[pos.bb].bet \in Nat /\ NothingSettled \in [Seats -> SettledRec]
  <2>1. t.hand + 1 \in 0 .. MaxHands
    BY TableAssumption DEF TableRec
  <2>2. pos.dealer \in Seats /\ pos.bb \in Seats
    BY <1>2
  <2>3. posted[pos.bb].bet \in Nat
    BY <1>5, <2>2 DEF PutsIn, SeatRec
  <2>4. NothingSettled \in [Seats -> SettledRec]
    BY DEF NothingSettled, SettledRec
  <2> QED
    BY <2>1, <2>2, <2>3, <2>4
<1>9. d \in TableRec
  BY <1>1, <1>3, <1>7, <1>8 DEF TableRec, InPlay
<1>10. /\ d.live /\ d.phase = "preflop" /\ d.dealer = pos.dealer
       /\ d.bet = posted[pos.bb].bet /\ d.settled = NothingSettled
       /\ d.action = t.action /\ d.gone = t.gone /\ d.bank = t.bank /\ d.raise = BigBlind
       /\ d.seat = dealt
  BY <1>1 DEF TableRec
<1>11. d.bet = d.seat[pos.bb].bet
  BY <1>2, <1>6, <1>10
<1> QED
  BY <1>6, <1>9, <1>10, <1>11 DEF d, pos

-----------------------------------------------------------------------------
(* What the showdown paid is capped: WinningsCapped of the record st.      *)
CappedOut(st) ==
  LET showing   == {s \in Seats : ~st[s].folded}
      topped(s) == \A v \in showing : st[v].in <= st[s].in
      from(u, s) == IF st[u].folded /\ topped(s) THEN st[u].in ELSE Min({st[s].in, st[u].in})
  IN  \A s \in Seats :
        st[s].out <= IF st[s].folded THEN 0 ELSE Total([u \in Seats |-> from(u, s)])

(* Whatever a showdown pays is capped.                                     *)
LEMMA PaidIsCapped ==
  ASSUME NEW in \in [Seats -> Nat], NEW folded \in SUBSET Seats, NEW dealt,
         NEW rank \in [Seats -> 1 .. MaxRank], NEW out \in Payouts(in, folded, dealt, rank),
         NEW st, st = [s \in Seats |-> [in |-> in[s], out |-> out[s], folded |-> s \in folded]]
  PROVE  out \in [Seats -> Nat] /\ st \in [Seats -> SettledRec] /\ CappedOut(st)
<1> DEFINE stakes(p) == Stakes(in, folded, p)
<1>1. IsFiniteSet(Seats) /\ rank \in [Seats -> Int]
  BY SeatNumbers, TableAssumption
<1>2. /\ out \in [Seats -> Nat]
      /\ \A p \in Seats : out[p] <= IF p \in Live(in, folded) THEN Sum(stakes(p), Seats) ELSE 0
  BY <1>1, PayoutsRight
<1>3. \A s \in Seats : st[s].in = in[s] /\ st[s].out = out[s] /\ (st[s].folded <=> s \in folded)
  OBVIOUS
<1>4. st \in [Seats -> SettledRec]
  <2>1. \A s \in Seats : [in |-> in[s], out |-> out[s], folded |-> s \in folded] \in SettledRec
    BY <1>2 DEF SettledRec
  <2> QED
    BY <2>1
<1> DEFINE showing   == {s \in Seats : ~st[s].folded}
<1> DEFINE topped(s) == \A v \in showing : st[v].in <= st[s].in
<1> DEFINE from(u, s) == IF st[u].folded /\ topped(s) THEN st[u].in ELSE Min({st[s].in, st[u].in})
<1>5. ASSUME NEW s \in Seats
      PROVE  st[s].out <= IF st[s].folded THEN 0 ELSE Total([u \in Seats |-> from(u, s)])
  <2> DEFINE f == [u \in Seats |-> from(u, s)]
  <2>1. topped(s) <=> Topped(in, folded, s)
    <3>1. topped(s) <=> \A v \in Seats \ folded : in[v] <= in[s]
      BY <1>3
    <3>2. \A v : v \in Live(in, folded) <=> v \in Seats \ folded /\ in[v] > 0
      BY DEF Live, Contributors
    <3>3. \A v \in Seats : in[v] \in Nat /\ (~(in[v] > 0) => in[v] <= in[s])
      OBVIOUS
    <3> QED
      BY <3>1, <3>2, <3>3 DEF Topped
  <2>2. \A u \in Seats : Min({st[s].in, st[u].in}) = Lesser(in[s], in[u])
    BY <1>3, LesserIs
  <2> HIDE DEF topped
  <2>3. \A u \in Seats : f[u] = stakes(s)[u] /\ stakes(s)[u] \in Nat
    BY <1>3, <2>1, <2>2 DEF Stakes, Lesser
  <2>4. DOMAIN f = Seats
    OBVIOUS
  <2> HIDE DEF f, stakes
  <2>5. \A u \in Seats : stakes(s)[u] \in Int /\ f[u] = stakes(s)[u]
    BY <2>3
  <2>6. Sum(f, Seats) = Sum(stakes(s), Seats)
    BY <1>1, <2>5, SumEqual
  <2>7. Sum(stakes(s), Seats) \in Nat
    BY <1>1, <2>3, SumNat
  <2>8. Total(f) = Sum(stakes(s), Seats)
    BY <2>4, <2>6, TotalIs
  <2>9. s \in Live(in, folded) => ~st[s].folded
    BY <1>3 DEF Live
  <2>10. st[s].out = out[s] /\ out[s] \in Nat
    BY <1>2, <1>3
  <2>11. st[s].out <= IF st[s].folded THEN 0 ELSE Total(f)
    <3>1. CASE s \in Live(in, folded)
      <4>1. out[s] <= Sum(stakes(s), Seats)
        BY <1>2, <3>1
      <4> QED
        BY <2>8, <2>9, <2>10, <3>1, <4>1
    <3>2. CASE s \notin Live(in, folded)
      <4>1. out[s] <= 0
        BY <1>2, <3>2
      <4> QED
        BY <2>7, <2>8, <2>10, <4>1
    <3> QED
      BY <3>1, <3>2
  <2> QED
    BY <2>11 DEF f
<1>6. CappedOut(st)
  BY <1>5 DEF CappedOut
<1> QED
  BY <1>2, <1>4, <1>6

(* So is nothing.                                                          *)
LEMMA NothingSettledIsCapped ==
  CappedOut(NothingSettled) /\ NothingSettled \in [Seats -> SettledRec]
<1> DEFINE st == NothingSettled
<1>1. \A s \in Seats : st[s].in = 0 /\ st[s].out = 0 /\ ~st[s].folded
  BY DEF NothingSettled
<1>2. st \in [Seats -> SettledRec]
  BY DEF NothingSettled, SettledRec
<1> HIDE DEF st
<1> DEFINE showing   == {s \in Seats : ~st[s].folded}
<1> DEFINE topped(s) == \A v \in showing : st[v].in <= st[s].in
<1> DEFINE from(u, s) == IF st[u].folded /\ topped(s) THEN st[u].in ELSE Min({st[s].in, st[u].in})
<1>3. ASSUME NEW s \in Seats
      PROVE  st[s].out <= IF st[s].folded THEN 0 ELSE Total([u \in Seats |-> from(u, s)])
  <2> DEFINE f == [u \in Seats |-> from(u, s)]
  <2>1. Lesser(0, 0) = 0
    BY DEF Lesser
  <2>2. Min({0, 0}) = 0
    BY <2>1, LesserIs
  <2>3. \A u \in Seats : f[u] = 0
    BY <1>1, <2>2
  <2>4. DOMAIN f = Seats
    OBVIOUS
  <2> HIDE DEF f
  <2>5. Sum(f, Seats) = 0
    BY <2>3, SeatNumbers, SumZero
  <2>6. Total(f) = Sum(f, Seats)
    BY <2>4, TotalIs
  <2> QED
    BY <1>1, <2>5, <2>6 DEF f
<1> QED
  BY <1>2, <1>3 DEF CappedOut, st

-----------------------------------------------------------------------------
(* A table as it should be: of its type, on a street while a hand is in    *)
(* progress, and what the last showdown paid is capped.                    *)
TableOK(t) ==
  /\ t \in TableRec
  /\ t.live <=> t.phase \in InPlay
  /\ CappedOut(t.settled)

(* OpenRound, for a table with somebody to ask.                            *)
LEMMA OpenRoundIs ==
  ASSUME NEW t, TableOK(t), Active(t) # {}
  PROVE  LET u    == OpenRound(t)
             from == IF Unacted(t) # {} THEN Unacted(t) ELSE Active(t)
             start == IF t.phase # "preflop" THEN t.dealer + 1
                      ELSE IF Cardinality(Active(t)) = 2 THEN t.dealer
                      ELSE t.dealer + 3
         IN  /\ TableOK(u)
             /\ u.seat = t.seat /\ u.bet = t.bet /\ u.bank = t.bank /\ u.live = t.live
             /\ u.phase = t.phase /\ u.dealer = t.dealer /\ u.gone = t.gone
             /\ u.settled = t.settled /\ u.hand = t.hand /\ u.raise = BigBlind
             /\ u.action \in from /\ u.action = FirstFrom(start % NumSeats, from)
<1> DEFINE from == IF Unacted(t) # {} THEN Unacted(t) ELSE Active(t)
<1> DEFINE start == IF t.phase # "preflop" THEN t.dealer + 1
                    ELSE IF Cardinality(Active(t)) = 2 THEN t.dealer
                    ELSE t.dealer + 3
<1> DEFINE first == FirstFrom(start % NumSeats, from)
<1> DEFINE u == OpenRound(t)
<1>1. t \in TableRec /\ t.dealer \in Nat
  BY SeatNumbers DEF TableOK, TableRec
<1>2. start \in Nat /\ NumSeats \in Nat /\ NumSeats > 0
  BY <1>1, SeatNumbers
<1>3. from \in SUBSET Seats /\ from # {}
  BY DEF Unacted, Active
<1>4. u = [t EXCEPT !.raise = BigBlind, !.action = first]
  BY DEF OpenRound
<1> HIDE DEF start, from, u
<1>5. start % NumSeats \in 0 .. NumSeats
  BY <1>2
<1>6. first \in from
  BY <1>3, <1>5, FirstFromIn
<1>7. first \in Seats /\ BigBlind \in Nat
  BY <1>3, <1>6, TableAssumption
<1> HIDE DEF first
<1>8. u \in TableRec
  BY <1>1, <1>4, <1>7 DEF TableRec
<1>9. /\ u.seat = t.seat /\ u.bet = t.bet /\ u.bank = t.bank /\ u.live = t.live
      /\ u.phase = t.phase /\ u.dealer = t.dealer /\ u.gone = t.gone
      /\ u.settled = t.settled /\ u.hand = t.hand /\ u.raise = BigBlind /\ u.action = first
  BY <1>1, <1>4 DEF TableRec
<1>10. TableOK(u)
  BY <1>8, <1>9 DEF TableOK
<1> QED
  BY <1>6, <1>9, <1>10 DEF u, first, from, start

(* NextActionSeat moves the turn to the next seat still to act.            *)
LEMMA NextActionSeatIs ==
  ASSUME NEW t, TableOK(t)
  PROVE  LET u == NextActionSeat(t) IN
         /\ TableOK(u)
         /\ u.seat = t.seat /\ u.bet = t.bet /\ u.bank = t.bank /\ u.live = t.live
         /\ u.phase = t.phase /\ u.raise = t.raise /\ u.gone = t.gone /\ u.dealer = t.dealer
         /\ Unacted(t) # {} => u.action = FirstFrom(t.action + 1, Unacted(t))
<1> DEFINE u == NextActionSeat(t)
<1> DEFINE next == IF Unacted(t) # {} THEN FirstFrom(t.action + 1, Unacted(t))
                   ELSE IF Active(t) # {} THEN FirstFrom(t.action + 1, Active(t))
                   ELSE t.action
<1>0. t \in TableRec /\ t.action \in Seats
  BY DEF TableOK, TableRec
<1>1. t \in TableRec /\ t.action \in Seats /\ t.action + 1 \in 0 .. NumSeats
  BY <1>0, SeatAfter
<1>2. Unacted(t) \in SUBSET Seats /\ Active(t) \in SUBSET Seats
  BY DEF Unacted, Active
<1>3. next \in Seats
  <2>1. \A S \in SUBSET Seats : S # {} => FirstFrom(t.action + 1, S) \in Seats
    BY <1>1, FirstFromIn
  <2> QED
    BY <1>1, <1>2, <2>1
<1>4. u = [t EXCEPT !.action = next]
  BY DEF NextActionSeat
<1> HIDE DEF next, u
<1>5. u \in TableRec
  BY <1>1, <1>3, <1>4 DEF TableRec
<1>6. /\ u.seat = t.seat /\ u.bet = t.bet /\ u.bank = t.bank /\ u.live = t.live
      /\ u.phase = t.phase /\ u.raise = t.raise /\ u.gone = t.gone /\ u.dealer = t.dealer
      /\ u.settled = t.settled /\ u.action = next
  BY <1>1, <1>4 DEF TableRec
<1>7. TableOK(u)
  BY <1>5, <1>6 DEF TableOK
<1> QED
  BY <1>6, <1>7 DEF u, next

(* An empty seat is a seat.                                                *)
LEMMA EmptySeatIs == EmptySeat \in SeatRec
  BY DEF EmptySeat, SeatRec, SeatStates

(* Vacate empties the leavers' seats.                                      *)
LEMMA VacateIs ==
  ASSUME NEW t, TableOK(t)
  PROVE  LET u == Vacate(t)
             S == {s \in Taken(t) : t.seat[s].leaving}
         IN  /\ TableOK(u)
             /\ u.seat = [s \in Seats |-> IF s \in S THEN EmptySeat ELSE t.seat[s]]
             /\ u.live = t.live /\ u.phase = t.phase /\ u.hand = t.hand /\ u.gone = t.gone
             /\ u.settled = t.settled /\ u.bet = t.bet /\ u.raise = t.raise
             /\ S = {} => u.bank = t.bank
<1> DEFINE u == Vacate(t)
<1> DEFINE S == {s \in Taken(t) : t.seat[s].leaving}
<1> DEFINE f == [s \in S |-> t.seat[s].chips]
<1> DEFINE seats == [s \in Seats |-> IF s \in S THEN EmptySeat ELSE t.seat[s]]
<1> DEFINE rest == t.bank - Total(f)
<1>1. t \in TableRec /\ t.bank \in Int /\ \A s \in Seats : t.seat[s] \in SeatRec
  BY DEF TableOK, TableRec
<1>2. S \in SUBSET Seats
  BY DEF Taken
<1>3. IsFiniteSet(S)
  BY <1>2, SeatNumbers, FS_Subset
<1>4. DOMAIN f = S /\ \A s \in S : f[s] \in Int
  BY <1>1, <1>2 DEF SeatRec
<1>5. u = [t EXCEPT !.seat = seats, !.bank = rest]
  <2>1. t.seat = [s \in Seats |-> t.seat[s]]
    BY <1>1 DEF TableRec
  <2> QED
    BY <1>1 DEF Vacate, TableRec
<1>6. seats \in [Seats -> SeatRec]
  BY <1>1, EmptySeatIs
<1> HIDE DEF u, seats, f, S
<1>7. Total(f) = Sum(f, S)
  BY <1>4, TotalIs
<1>8. Sum(f, S) \in Int
  BY <1>3, <1>4, SumInt
<1>9. S = {} => Sum(f, S) = 0
  BY SumEmpty
<1>10. rest \in Int /\ (S = {} => rest = t.bank)
  BY <1>1, <1>7, <1>8, <1>9
<1> HIDE DEF rest
<1>11. u \in TableRec
  BY <1>1, <1>5, <1>6, <1>10 DEF TableRec
<1>12. /\ u.seat = seats /\ u.live = t.live /\ u.phase = t.phase /\ u.hand = t.hand
       /\ u.gone = t.gone /\ u.settled = t.settled /\ u.bet = t.bet /\ u.bank = rest
       /\ u.raise = t.raise
  BY <1>1, <1>5 DEF TableRec
<1>13. TableOK(u)
  BY <1>11, <1>12 DEF TableOK
<1> QED
  BY <1>10, <1>12, <1>13 DEF u, seats, S

(* ResetPlayers clears bets, stakes and turns.                             *)
LEMMA ResetPlayersIs ==
  ASSUME NEW t, TableOK(t)
  PROVE  LET u == ResetPlayers(t) IN
         /\ TableOK(u) /\ u.bet = 0
         /\ u.live = t.live /\ u.phase = t.phase /\ u.hand = t.hand /\ u.gone = t.gone
         /\ u.settled = t.settled /\ u.bank = t.bank /\ u.raise = t.raise
         /\ \A s \in Seats :
              /\ u.seat[s].id = t.seat[s].id /\ u.seat[s].chips = t.seat[s].chips
              /\ u.seat[s].leaving = t.seat[s].leaving
              /\ u.seat[s].state = IF t.seat[s].state = "empty" THEN "empty" ELSE "sitting"
              /\ u.seat[s].bet = 0 /\ u.seat[s].in = 0 /\ ~u.seat[s].acted
<1> DEFINE u == ResetPlayers(t)
<1> DEFINE seats == [s \in Seats |->
                       [t.seat[s] EXCEPT !.state = IF @ = "empty" THEN @ ELSE "sitting",
                          !.cards = FALSE, !.bet = 0, !.in = 0, !.acted = FALSE]]
<1>1. t \in TableRec /\ \A s \in Seats : t.seat[s] \in SeatRec
  BY DEF TableOK, TableRec
<1>2. u = [t EXCEPT !.seat = seats, !.bet = 0]
  BY <1>1 DEF ResetPlayers, TableRec
<1>3. ASSUME NEW s \in Seats
      PROVE  /\ seats[s] \in SeatRec
             /\ seats[s].id = t.seat[s].id /\ seats[s].chips = t.seat[s].chips
             /\ seats[s].leaving = t.seat[s].leaving
             /\ seats[s].state = IF t.seat[s].state = "empty" THEN "empty" ELSE "sitting"
             /\ seats[s].bet = 0 /\ seats[s].in = 0 /\ ~seats[s].acted
  BY <1>1 DEF SeatRec, SeatStates
<1>4. seats \in [Seats -> SeatRec]
  BY <1>3
<1> HIDE DEF u, seats
<1>5. u \in TableRec
  BY <1>1, <1>2, <1>4 DEF TableRec
<1>6. /\ u.seat = seats /\ u.live = t.live /\ u.phase = t.phase /\ u.hand = t.hand
      /\ u.gone = t.gone /\ u.settled = t.settled /\ u.bet = 0 /\ u.bank = t.bank
      /\ u.raise = t.raise
  BY <1>1, <1>2 DEF TableRec
<1>7. TableOK(u)
  BY <1>5, <1>6 DEF TableOK
<1> QED
  BY <1>3, <1>6, <1>7 DEF u

-----------------------------------------------------------------------------
(* The end of a hand.                                                      *)
LEMMA EnoughTaken ==
  ASSUME NEW t, MayStart(t)
  PROVE  Cardinality(Taken(t)) >= 2 /\ t.hand < MaxHands
<1>1. Sitting(t) \subseteq Taken(t) /\ Taken(t) \in SUBSET Seats
  BY DEF Sitting, Taken
<1>2. IsFiniteSet(Taken(t)) /\ Cardinality(Taken(t)) \in Nat
  BY <1>1, TwoAtLeast
<1>3. Cardinality(Sitting(t)) <= Cardinality(Taken(t)) /\ Cardinality(Sitting(t)) \in Nat
  BY <1>1, <1>2, FS_Subset, FS_CardinalityType
<1> QED
  BY <1>2, <1>3 DEF MayStart

(* A hand is dealt to at least two.                                        *)
LEMMA DealOK ==
  ASSUME NEW t, TableOK(t), MayStart(t)
  PROVE  /\ TableOK(Deal(t)) /\ Taken(t) # {}
         /\ CanCover(t) => Active(Deal(t)) = Taken(t)
<1>1. t \in TableRec /\ Cardinality(Taken(t)) >= 2 /\ t.hand < MaxHands
  BY EnoughTaken DEF TableOK
<1> DEFINE d == Deal(t)
<1>2. /\ d \in TableRec /\ d.live /\ d.phase = "preflop" /\ d.settled = NothingSettled
      /\ \A s \in Seats : DealtIn(t.seat[s], d.seat[s], Blind(t, s))
  BY <1>1, DealIs
<1>3. CanCover(t) => \A s \in Taken(t) : d.seat[s].state = "playing"
  BY DEF CanCover
<1> HIDE DEF d
<1>4. TableOK(d)
  BY <1>2, NothingSettledIsCapped DEF TableOK, InPlay
<1>5. \A s \in Seats : d.seat[s].state = "playing" => t.seat[s].state # "empty"
  BY <1>2 DEF DealtIn
<1>6. CanCover(t) => Active(d) = Taken(t)
  BY <1>3, <1>5 DEF Active, Taken
<1>7. Taken(t) # {}
  <2>1. Taken(t) \in SUBSET Seats
    BY DEF Taken
  <2> QED
    BY <1>1, <2>1, TwoAtLeast
<1> QED
  BY <1>4, <1>6, <1>7 DEF d

(* HandComplete keeps a table in order; no hand follows if nobody sits.    *)
LEMMA HandCompleteIs ==
  ASSUME NEW t, TableOK(t)
  PROVE  /\ TableOK(HandComplete(t))
         /\ Sitting(t) = {} => HandComplete(t) = Vacate(t)
<1> DEFINE v == Vacate(t)
<1> DEFINE d == Deal(v)
<1>1. /\ TableOK(v)
      /\ \A s \in Seats : v.seat[s].state = "sitting" => t.seat[s].state = "sitting"
  <2>1. /\ TableOK(v)
        /\ v.seat = [s \in Seats |-> IF s \in {x \in Taken(t) : t.seat[x].leaving}
                                       THEN EmptySeat ELSE t.seat[s]]
    BY VacateIs
  <2> QED
    BY <2>1 DEF EmptySeat
<1>2. HandComplete(t) = IF MayStart(v) /\ CanCover(v) THEN OpenRound(d) ELSE v
  BY DEF HandComplete
<1> HIDE DEF v
<1>3. ASSUME MayStart(v), CanCover(v) PROVE TableOK(OpenRound(d))
  <2>1. TableOK(d) /\ Active(d) # {}
    BY <1>1, <1>3, DealOK
  <2> HIDE DEF d
  <2> QED
    BY <2>1, OpenRoundIs
<1>4. Sitting(t) = {} => ~MayStart(v)
  <2> SUFFICES ASSUME Sitting(t) = {}, MayStart(v) PROVE FALSE
    OBVIOUS
  <2>1. Sitting(v) = {}
    BY <1>1 DEF Sitting
  <2>2. Cardinality(Sitting(v)) = 0
    BY <2>1, FS_EmptySet
  <2> QED
    BY <2>2 DEF MayStart
<1> QED
  BY <1>1, <1>2, <1>3, <1>4 DEF v

(* A hand has ended, and out was paid.                                     *)
Ended(t, u, out) ==
  /\ ~u.live /\ u.gone = t.gone /\ u.bet = 0 /\ u.raise = t.raise
  /\ NobodyLeaving(t) => u.bank = t.bank
  /\ \A s \in Seats :
       LET c == t.seat[s]
           d == u.seat[s]
       IN  IF c.state # "empty" /\ c.leaving
             THEN d.state = "empty"
             ELSE /\ d.id = c.id /\ d.leaving = c.leaving
                  /\ d.chips = c.chips + out[s] /\ d.bet = 0 /\ d.in = 0
                  /\ d.state = IF c.state = "empty" THEN "empty" ELSE "sitting"

(* What everybody at the table put in, who folded and who has cards.       *)
PutIn(t)  == [s \in Seats |-> IF s \in Taken(t) THEN t.seat[s].in ELSE 0]
Folded(t) == {s \in Seats : t.seat[s].state = "folded"}
Dealt(t)  == {s \in Seats : t.seat[s].cards}

(* A settled hand has ended.                                               *)
LEMMA SettledIs ==
  ASSUME NEW t, TableOK(t), NEW in, NEW folded, NEW out \in [Seats -> Nat],
         NEW st, st = [s \in Seats |-> [in |-> in[s], out |-> out[s], folded |-> s \in folded]],
         st \in [Seats -> SettledRec], CappedOut(st)
  PROVE  LET u == Settled(t, in, folded, out) IN
         TableOK(u) /\ (Sitting(t) = {} => Ended(t, u, out))
<1> DEFINE seats == [s \in Seats |-> [t.seat[s] EXCEPT !.chips = @ + out[s]]]
<1> DEFINE paid == [t EXCEPT !.seat = seats, !.phase = "complete", !.live = FALSE,
                             !.settled = st]
<1> DEFINE u == Settled(t, in, folded, out)
<1>1. t \in TableRec /\ \A s \in Seats : t.seat[s] \in SeatRec
  BY DEF TableOK, TableRec
<1>2. u = ResetPlayers(HandComplete(paid))
  BY DEF Settled
<1>3. ASSUME NEW s \in Seats
      PROVE  /\ seats[s] \in SeatRec /\ seats[s].chips = t.seat[s].chips + out[s]
             /\ seats[s].id = t.seat[s].id /\ seats[s].leaving = t.seat[s].leaving
             /\ seats[s].state = t.seat[s].state
  BY <1>1 DEF SeatRec
<1>4. seats \in [Seats -> SeatRec]
  BY <1>3
<1> HIDE DEF u, seats
<1>5. paid \in TableRec
  BY <1>1, <1>4 DEF TableRec
<1>6. /\ paid.seat = seats /\ paid.phase = "complete" /\ paid.live = FALSE
      /\ paid.settled = st /\ paid.gone = t.gone /\ paid.bank = t.bank
      /\ paid.raise = t.raise
  BY <1>1 DEF TableRec
<1> HIDE DEF paid
<1>7. TableOK(paid)
  BY <1>5, <1>6 DEF TableOK, InPlay
<1>8. TableOK(HandComplete(paid)) /\ TableOK(u)
  BY <1>2, <1>7, HandCompleteIs, ResetPlayersIs
<1>9. ASSUME Sitting(t) = {} PROVE Ended(t, u, out)
  <2> DEFINE v == Vacate(paid)
  <2> DEFINE S == {s \in Taken(paid) : paid.seat[s].leaving}
  <2>1. Sitting(paid) = {}
    BY <1>3, <1>6, <1>9 DEF Sitting
  <2>2. u = ResetPlayers(v)
    BY <1>2, <1>7, <2>1, HandCompleteIs
  <2>3. /\ TableOK(v) /\ v.live = paid.live /\ v.gone = paid.gone /\ v.raise = paid.raise
        /\ v.seat = [s \in Seats |-> IF s \in S THEN EmptySeat ELSE paid.seat[s]]
        /\ S = {} => v.bank = paid.bank
    BY <1>7, VacateIs
  <2>4. S = {s \in Seats : t.seat[s].state # "empty" /\ t.seat[s].leaving}
    BY <1>3, <1>6 DEF Taken
  <2> HIDE DEF v, S
  <2>5. /\ u.bet = 0 /\ u.live = v.live /\ u.gone = v.gone /\ u.bank = v.bank
        /\ u.raise = v.raise
        /\ \A s \in Seats :
             /\ u.seat[s].id = v.seat[s].id /\ u.seat[s].chips = v.seat[s].chips
             /\ u.seat[s].leaving = v.seat[s].leaving
             /\ u.seat[s].state = IF v.seat[s].state = "empty" THEN "empty" ELSE "sitting"
             /\ u.seat[s].bet = 0 /\ u.seat[s].in = 0
    BY <2>2, <2>3, ResetPlayersIs
  <2>6. NobodyLeaving(t) => u.bank = t.bank
    <3>1. NobodyLeaving(t) => S = {}
      BY <2>4 DEF NobodyLeaving
    <3> QED
      BY <1>6, <2>3, <2>5, <3>1
  <2>7. ASSUME NEW s \in Seats
        PROVE  IF t.seat[s].state # "empty" /\ t.seat[s].leaving
                 THEN u.seat[s].state = "empty"
                 ELSE /\ u.seat[s].id = t.seat[s].id /\ u.seat[s].leaving = t.seat[s].leaving
                      /\ u.seat[s].chips = t.seat[s].chips + out[s]
                      /\ u.seat[s].bet = 0 /\ u.seat[s].in = 0
                      /\ u.seat[s].state = IF t.seat[s].state = "empty" THEN "empty" ELSE "sitting"
    <3>1. CASE s \in S
      <4>1. v.seat[s].state = "empty"
        BY <2>3, <3>1 DEF EmptySeat
      <4> QED
        BY <2>4, <2>5, <3>1, <4>1
    <3>2. CASE s \notin S
      <4>1. v.seat[s] = seats[s]
        BY <1>6, <2>3, <3>2
      <4> QED
        BY <1>3, <2>4, <2>5, <3>2, <4>1
    <3> QED
      BY <3>1, <3>2
  <2> QED
    BY <1>6, <2>3, <2>5, <2>6, <2>7 DEF Ended
<1> QED
  BY <1>8, <1>9 DEF u

(* Everything put in is paid if who has chips in and did not fold, has     *)
(* cards, and there is somebody like that.                                 *)
LEMMA DoShowdownIs ==
  ASSUME NEW t, TableOK(t), NEW u \in DoShowdown(t)
  PROVE  /\ TableOK(u)
         /\ Sitting(t) = {} =>
              \E out \in [Seats -> Nat] :
                /\ Ended(t, u, out)
                /\ \A s \in Seats : s \notin Live(PutIn(t), Folded(t)) => out[s] = 0
                /\ /\ Live(PutIn(t), Folded(t)) # {}
                   /\ Live(PutIn(t), Folded(t)) \subseteq Dealt(t)
                   => Sum(out, Seats) = Sum(PutIn(t), Seats)
<1> DEFINE in == PutIn(t)
<1> DEFINE folded == Folded(t)
<1> DEFINE dealt == Dealt(t)
<1>1. PICK rank \in [Seats -> 1 .. MaxRank] :
        \E out \in Payouts(in, folded, dealt, rank) : u = Settled(t, in, folded, out)
  BY DEF DoShowdown, Rankings, PutIn, Folded, Dealt
<1>2. PICK out \in Payouts(in, folded, dealt, rank) : u = Settled(t, in, folded, out)
  BY <1>1
<1> DEFINE st == [s \in Seats |-> [in |-> in[s], out |-> out[s], folded |-> s \in folded]]
<1>3. in \in [Seats -> Nat] /\ folded \in SUBSET Seats
  BY DEF TableOK, TableRec, SeatRec, PutIn, Folded
<1> HIDE DEF in, folded, dealt
<1>4. out \in [Seats -> Nat] /\ st \in [Seats -> SettledRec] /\ CappedOut(st)
  BY <1>3, PaidIsCapped
<1>5. /\ \A p \in Seats : out[p] <= IF p \in Live(in, folded)
                                      THEN Sum(Stakes(in, folded, p), Seats) ELSE 0
      /\ Live(in, folded) # {} /\ Live(in, folded) \subseteq dealt
           => Sum(out, Seats) = Sum(in, Seats)
  <2>1. IsFiniteSet(Seats) /\ rank \in [Seats -> Int]
    BY SeatNumbers, TableAssumption
  <2> QED
    BY <1>3, <2>1, PayoutsRight
<1>6. \A s \in Seats : s \notin Live(in, folded) => out[s] = 0
  BY <1>4, <1>5
<1> HIDE DEF st
<1>7. TableOK(u) /\ (Sitting(t) = {} => Ended(t, u, out))
  BY <1>2, <1>4, SettledIs DEF st
<1> QED
  BY <1>4, <1>5, <1>6, <1>7 DEF in, folded, dealt

-----------------------------------------------------------------------------
(* After an action.                                                        *)
Follows == {<<"preflop", "flop">>, <<"flop", "turn">>, <<"turn", "river">>}

(* The next street has begun.                                              *)
NewStreet(t, u) ==
  /\ <<t.phase, u.phase>> \in Follows
  /\ u.live /\ u.bet = 0 /\ u.gone = t.gone /\ u.bank = t.bank /\ u.raise = BigBlind
  /\ u.action \in Unacted(u) /\ Unacted(u) = Active(t)
  /\ \A s \in Seats :
       LET c == t.seat[s]
           d == u.seat[s]
       IN  /\ d.id = c.id /\ d.chips = c.chips /\ d.in = c.in /\ d.state = c.state
           /\ d.cards = c.cards /\ d.leaving = c.leaving
           /\ d.bet = 0 /\ ~d.acted

(* AdvanceStreet, short of the showdown, begins the next street.           *)
LEMMA AdvanceStreetIs ==
  ASSUME NEW t, TableOK(t), t.live, NEW u \in AdvanceStreet(t), u \notin DoShowdown(t)
  PROVE  /\ TableOK(u) /\ NewStreet(t, u)
         /\ Cardinality(InHand(t)) > 1 /\ Cardinality(Active(t)) > 1
<1> DEFINE next == CHOOSE i \in 1 .. 3 : Streets[i] = t.phase
<1> DEFINE phase == Streets[next + 1]
<1> DEFINE seats == [s \in Seats |-> [t.seat[s] EXCEPT !.acted = FALSE, !.bet = 0]]
<1> DEFINE w == [t EXCEPT !.phase = phase, !.bet = 0, !.seat = seats]
<1>1. /\ ~(Cardinality(InHand(t)) <= 1) /\ ~(Cardinality(Active(t)) <= 1)
      /\ t.phase # "river" /\ u = OpenRound(w)
  BY DEF AdvanceStreet
<1>2. t \in TableRec /\ t.phase \in {"preflop", "flop", "turn"}
      /\ \A s \in Seats : t.seat[s] \in SeatRec
  BY <1>1 DEF TableOK, TableRec, InPlay
<1>3. <<t.phase, phase>> \in Follows
  <2>1. Streets[1] = "preflop" /\ Streets[2] = "flop" /\ Streets[3] = "turn" /\ Streets[4] = "river"
    BY DEF Streets
  <2>2. \E i \in 1 .. 3 : Streets[i] = t.phase
    BY <1>2, <2>1
  <2>3. next \in 1 .. 3 /\ Streets[next] = t.phase
    BY <2>2
  <2> HIDE DEF next
  <2>4. next = 1 \/ next = 2 \/ next = 3
    BY <2>3
  <2> QED
    BY <2>1, <2>3, <2>4 DEF Follows
<1> HIDE DEF next, phase
<1>4. phase \in {"flop", "turn", "river"}
  BY <1>3 DEF Follows
<1>5. ASSUME NEW s \in Seats
      PROVE  /\ seats[s] \in SeatRec
             /\ seats[s].id = t.seat[s].id /\ seats[s].chips = t.seat[s].chips
             /\ seats[s].in = t.seat[s].in /\ seats[s].state = t.seat[s].state
             /\ seats[s].cards = t.seat[s].cards /\ seats[s].leaving = t.seat[s].leaving
             /\ seats[s].bet = 0 /\ ~seats[s].acted
  BY <1>2 DEF SeatRec
<1>6. seats \in [Seats -> SeatRec]
  BY <1>5
<1> HIDE DEF seats
<1>7. w \in TableRec
  BY <1>2, <1>4, <1>6 DEF TableRec, InPlay
<1>8. /\ w.seat = seats /\ w.phase = phase /\ w.bet = 0 /\ w.live = t.live /\ w.gone = t.gone
      /\ w.bank = t.bank /\ w.settled = t.settled
  BY <1>2 DEF TableRec
<1> HIDE DEF w
<1>9. TableOK(w)
  BY <1>4, <1>7, <1>8 DEF TableOK, InPlay
<1>10. Active(w) = Active(t) /\ Unacted(w) = Active(t)
  BY <1>5, <1>8 DEF Active, Unacted
<1>11. Active(t) # {}
  BY <1>1, FS_EmptySet
<1>12. /\ TableOK(u) /\ u.seat = w.seat /\ u.bet = w.bet /\ u.bank = w.bank /\ u.live = w.live
       /\ u.phase = w.phase /\ u.gone = w.gone /\ u.action \in Unacted(w) /\ u.raise = BigBlind
  BY <1>1, <1>9, <1>10, <1>11, OpenRoundIs
<1>13. Unacted(u) = Unacted(w)
  BY <1>12 DEF Unacted, Active
<1>14. Cardinality(InHand(t)) \in Nat /\ Cardinality(Active(t)) \in Nat
  <2>1. InHand(t) \in SUBSET Seats /\ Active(t) \in SUBSET Seats
    BY DEF InHand, Active
  <2> QED
    BY <2>1, TwoAtLeast
<1>15. NewStreet(t, u)
  BY <1>3, <1>5, <1>8, <1>10, <1>12, <1>13 DEF NewStreet
<1> QED
  BY <1>1, <1>12, <1>14, <1>15

(* Either the hand is over, or the round and everybody has acted, or the   *)
(* turn passes on.                                                         *)
LEMMA ProceedIs ==
  ASSUME NEW t, TableOK(t), t.live, NEW u \in Proceed(t)
  PROVE  /\ TableOK(u)
         /\ \/ u \in DoShowdown(t)
            \/ /\ NewStreet(t, u) /\ Unacted(t) = {} /\ Cardinality(InHand(t)) > 1
               /\ \A s, v \in Active(t) : t.seat[s].bet = t.seat[v].bet
            \/ /\ ~IsBettingRoundComplete(t)
               /\ u.seat = t.seat /\ u.bet = t.bet /\ u.bank = t.bank /\ u.live = t.live
               /\ u.phase = t.phase /\ u.gone = t.gone /\ u.raise = t.raise
               /\ Unacted(t) # {} => u.action = FirstFrom(t.action + 1, Unacted(t))
<1>1. CASE u \in DoShowdown(t)
  BY <1>1, DoShowdownIs
<1>2. CASE u \notin DoShowdown(t) /\ IsBettingRoundComplete(t)
  <2>1. u \in AdvanceStreet(t)
    BY <1>2 DEF Proceed
  <2>2. /\ TableOK(u) /\ NewStreet(t, u)
        /\ Cardinality(InHand(t)) > 1 /\ Cardinality(Active(t)) > 1
    BY <1>2, <2>1, AdvanceStreetIs
  <2>3. Active(t) # {} /\ ~(Cardinality(InHand(t)) <= 1)
    <3>1. Cardinality(InHand(t)) \in Nat
      <4>1. InHand(t) \in SUBSET Seats
        BY DEF InHand
      <4> QED
        BY <4>1, TwoAtLeast
    <3> QED
      BY <2>2, <3>1, FS_EmptySet
  <2> QED
    BY <1>2, <2>2, <2>3 DEF IsBettingRoundComplete
<1>3. CASE ~IsBettingRoundComplete(t)
  <2>1. u = NextActionSeat(t)
    BY <1>3 DEF Proceed
  <2>2. /\ TableOK(u)
        /\ u.seat = t.seat /\ u.bet = t.bet /\ u.bank = t.bank /\ u.live = t.live
        /\ u.phase = t.phase /\ u.gone = t.gone /\ u.raise = t.raise
        /\ Unacted(t) # {} => u.action = FirstFrom(t.action + 1, Unacted(t))
    BY <2>1, NextActionSeatIs
  <2> QED
    BY <1>3, <2>2
<1> QED
  BY <1>1, <1>2, <1>3

-----------------------------------------------------------------------------
(* What one action does to a table.                                        *)
SameHand(t, u) ==
  /\ u.phase = t.phase /\ u.live = t.live /\ u.gone = t.gone /\ u.bank = t.bank
  /\ u.action = t.action

OthersSame(t, s, u) == \A v \in Seats \ {s} : u.seat[v] = t.seat[v]

(* A seat that may have to act again.                                      *)
Reopened(c, d) == IF c.state = "playing" THEN d = [c EXCEPT !.acted = FALSE] ELSE d = c

Folds(t, s, u) ==
  /\ u.bet = t.bet /\ PutsIn(t.seat[s], u.seat[s], 0) /\ OthersSame(t, s, u)
  /\ u.seat[s].state = "folded" /\ u.seat[s].leaving = t.seat[s].leaving

(* A check, a call, or an all-in below the bet.                            *)
Stays(t, s, u) ==
  /\ u.bet = t.bet /\ OthersSame(t, s, u)
  /\ u.seat[s].acted /\ u.seat[s].leaving = t.seat[s].leaving
  /\ \E m \in Nat :
       /\ PutsIn(t.seat[s], u.seat[s], m)
       /\ \/ /\ u.seat[s].state = "allin" /\ u.seat[s].chips = 0
             /\ m > 0 /\ u.seat[s].bet <= t.bet
          \/ /\ u.seat[s].state = "playing" /\ u.seat[s].chips > 0
             /\ u.seat[s].bet >= t.bet /\ (m > 0 => u.seat[s].bet = t.bet)

(* A bet, be it of nothing, a raise or an all-in above the bet.            *)
Raises(t, s, u) ==
  /\ u.bet = u.seat[s].bet /\ (u.bet > 0 \/ u.bet = t.bet)
  /\ u.seat[s].acted /\ u.seat[s].leaving = t.seat[s].leaving
  /\ \A v \in Seats \ {s} : Reopened(t.seat[v], u.seat[v])
  /\ \E m \in Nat : PutsIn(t.seat[s], u.seat[s], m)
  /\ \/ u.seat[s].state = "allin" /\ u.seat[s].chips = 0
     \/ u.seat[s].state = "playing" /\ u.seat[s].chips > 0

(* The sender of a RAISE has what it asks for, or there is no bet yet.     *)
Covered(t, s, a) ==
  a.type = "raise" => a.amount <= t.seat[s].bet + t.seat[s].chips \/ t.bet = 0

(* A BET of nothing: it asks the others again and raises nothing.          *)
BetsNothing(a) == a.type = "bet" /\ a.amount = 0

(* Writing one seat.                                                       *)
LEMMA SeatSet ==
  ASSUME NEW t, TableOK(t), NEW s \in Seats, NEW c \in SeatRec
  PROVE  LET u == [t EXCEPT !.seat[s] = c] IN
         /\ TableOK(u) /\ SameHand(t, u) /\ u.bet = t.bet /\ u.raise = t.raise
         /\ u.seat[s] = c /\ OthersSame(t, s, u)
<1> DEFINE u == [t EXCEPT !.seat[s] = c]
<1>1. t \in TableRec /\ t.seat \in [Seats -> SeatRec]
  BY DEF TableOK, TableRec
<1>2. u \in TableRec
  BY <1>1 DEF TableRec
<1>3. /\ u.seat = [t.seat EXCEPT ![s] = c] /\ u.bet = t.bet /\ u.raise = t.raise
      /\ u.phase = t.phase /\ u.live = t.live /\ u.gone = t.gone /\ u.bank = t.bank
      /\ u.action = t.action /\ u.settled = t.settled
  BY <1>1 DEF TableRec
<1> HIDE DEF u
<1>4. TableOK(u)
  BY <1>2, <1>3 DEF TableOK
<1>5. u.seat[s] = c /\ \A v \in Seats \ {s} : u.seat[v] = t.seat[v]
  BY <1>1, <1>3
<1> QED
  BY <1>3, <1>4, <1>5 DEF u, SameHand, OthersSame

(* Raised reopens the round for the others.                                *)
LEMMA RaisedIs ==
  ASSUME NEW t, TableOK(t), NEW s \in Seats
  PROVE  LET u == Raised(t, s) IN
         /\ TableOK(u) /\ SameHand(t, u) /\ u.bet = t.seat[s].bet
         /\ u.raise \in {t.raise, u.bet - t.bet}
         /\ u.seat[s] = t.seat[s]
         /\ \A v \in Seats \ {s} : Reopened(t.seat[v], u.seat[v])
<1> DEFINE bet == t.seat[s].bet
<1> DEFINE raise == IF bet - t.bet >= t.raise THEN bet - t.bet ELSE t.raise
<1> DEFINE seats == [v \in Seats |-> IF v \in Active(t) \ {s}
                                       THEN [t.seat[v] EXCEPT !.acted = FALSE] ELSE t.seat[v]]
<1> DEFINE w == [t EXCEPT !.bet = bet, !.raise = raise]
<1> DEFINE u == Raised(t, s)
<1>1. t \in TableRec /\ \A v \in Seats : t.seat[v] \in SeatRec
  BY DEF TableOK, TableRec
<1>2. bet \in Nat /\ t.bet \in Nat /\ t.raise \in Nat
  BY <1>1 DEF TableRec, SeatRec
<1>3. raise \in Nat
  BY <1>2
<1>4. u = Reopen(w, s)
  BY <1>1 DEF Raised, TableRec
<1> HIDE DEF raise, bet
<1>5. w.seat = t.seat /\ w = [t EXCEPT !.bet = bet, !.raise = raise] /\ Active(w) = Active(t)
  BY <1>1 DEF TableRec, Active
<1>6. u = [w EXCEPT !.seat = seats]
  BY <1>1, <1>4, <1>5 DEF Reopen, TableRec
<1>7. \A v \in Seats : seats[v] \in SeatRec
  BY <1>1 DEF SeatRec
<1>8. seats \in [Seats -> SeatRec]
  BY <1>7
<1>9. seats[s] = t.seat[s] /\ \A v \in Seats \ {s} : Reopened(t.seat[v], seats[v])
  BY DEF Reopened, Active
<1> HIDE DEF seats, u
<1>10. w \in TableRec
  BY <1>1, <1>2, <1>3 DEF TableRec
<1>11. u \in TableRec
  BY <1>6, <1>8, <1>10 DEF TableRec
<1>12. /\ u.seat = seats /\ u.bet = bet /\ u.raise = raise
       /\ u.phase = t.phase /\ u.live = t.live /\ u.gone = t.gone /\ u.bank = t.bank
       /\ u.action = t.action /\ u.settled = t.settled
  BY <1>1, <1>6 DEF TableRec
<1>13. TableOK(u)
  BY <1>11, <1>12 DEF TableOK
<1> QED
  BY <1>9, <1>12, <1>13 DEF u, bet, raise, SameHand

(* The three ways of the switch in ProcessAction.                          *)
Moves(t, s, u) == Folds(t, s, u) \/ Stays(t, s, u) \/ Raises(t, s, u)

(* A seat is replaced by one that paid m and, maybe, is all-in.            *)
LEMMA RaiseBy ==
  ASSUME NEW t, TableOK(t), NEW s \in Seats, NEW d, NEW m \in Nat,
         PutsIn(t.seat[s], d, m), d.acted, d.leaving = t.seat[s].leaving
  PROVE  LET u == Raised([t EXCEPT !.seat[s] = d], s) IN
         /\ TableOK(u) /\ SameHand(t, u) /\ u.bet = d.bet /\ u.raise \in {t.raise, u.bet - t.bet}
         /\ /\ d.bet > 0 \/ d.bet = t.bet
            /\ \/ d.state = "allin" /\ d.chips = 0
               \/ d.state = "playing" /\ d.chips > 0
            => Raises(t, s, u)
<1> DEFINE w == [t EXCEPT !.seat[s] = d]
<1> DEFINE u == Raised(w, s)
<1>1. d \in SeatRec
  BY DEF PutsIn
<1>2. TableOK(w) /\ SameHand(t, w) /\ w.bet = t.bet /\ w.raise = t.raise /\ w.seat[s] = d /\ OthersSame(t, s, w)
  BY <1>1, SeatSet
<1> HIDE DEF w
<1>3. /\ TableOK(u) /\ SameHand(w, u) /\ u.bet = d.bet /\ u.seat[s] = d
      /\ u.raise \in {w.raise, u.bet - w.bet}
      /\ \A v \in Seats \ {s} : Reopened(w.seat[v], u.seat[v])
  BY <1>2, RaisedIs
<1> HIDE DEF u
<1>4. SameHand(t, u) /\ \A v \in Seats \ {s} : Reopened(t.seat[v], u.seat[v])
  BY <1>2, <1>3 DEF SameHand, OthersSame
<1> QED
  BY <1>3, <1>4 DEF u, w, Raises

(* An action of a seat with chips folds, stays or raises.                  *)
LEMMA ApplyIs ==
  ASSUME NEW t, TableOK(t), NEW s \in Active(t), NEW a \in Bids, Validate(t, s, a)
  PROVE  LET u == Apply(t, s, a) IN
         /\ TableOK(u) /\ SameHand(t, u) /\ u.raise \in {t.raise, u.bet - t.bet}
         /\ t.seat[s].chips > 0 => /\ Moves(t, s, u)
                                   /\ Covered(t, s, a) => u.bet >= t.bet
                                   /\ Covered(t, s, a) /\ ~Folds(t, s, u) /\ ~Stays(t, s, u)
                                        => u.bet > t.bet \/ BetsNothing(a)
<1> DEFINE c == t.seat[s]
<1> DEFINE seat == [c EXCEPT !.acted = TRUE]
<1> DEFINE after(x) == [t EXCEPT !.seat[s] = x]
<1> DEFINE u == Apply(t, s, a)
<1>1. /\ s \in Seats /\ c \in SeatRec /\ c.chips \in Nat /\ c.bet \in Nat /\ c.in \in Nat
      /\ c.state = "playing" /\ t.bet \in Nat
  BY DEF Active, TableOK, TableRec, SeatRec
<1>2. /\ seat \in SeatRec /\ seat.acted /\ seat.leaving = c.leaving /\ seat.state = "playing"
      /\ PutsIn(c, seat, 0) /\ seat.chips = c.chips /\ seat.bet = c.bet /\ seat.in = c.in
      /\ seat.id = c.id /\ seat.cards = c.cards
  <2>1. c \in SeatRec /\ DOMAIN c = SeatFields
    BY <1>1 DEF SeatRec, SeatFields
  <2>2. /\ seat \in SeatRec /\ seat.acted /\ seat.leaving = c.leaving /\ seat.state = "playing"
        /\ seat.chips = c.chips /\ seat.bet = c.bet /\ seat.in = c.in
        /\ seat.id = c.id /\ seat.cards = c.cards
    BY <1>1, <2>1 DEF SeatRec
  <2> QED
    BY <1>1, <2>2 DEF PutsIn
<1>3. ASSUME NEW amount \in Nat
      PROVE  LET d == Pay(seat, amount)
                 m == Lesser(amount, c.chips)
             IN  /\ m \in Nat /\ PutsIn(c, d, m) /\ d.acted /\ d.leaving = c.leaving
                 /\ d.state = IF m > 0 /\ m = c.chips THEN "allin" ELSE "playing"
  <2> DEFINE d == Pay(seat, amount)
  <2> DEFINE m == Lesser(amount, c.chips)
  <2> HIDE DEF seat
  <2>1. /\ PutsIn(seat, d, m) /\ d.leaving = seat.leaving /\ d.acted = seat.acted
        /\ d.state = IF m > 0 /\ m = c.chips THEN "allin" ELSE seat.state
    BY <1>2, PayIs
  <2> HIDE DEF d
  <2>2. m \in Nat
    BY <1>1 DEF Lesser
  <2> HIDE DEF m, c
  <2> QED
    BY <1>2, <2>1, <2>2 DEF d, m, PutsIn
<1> HIDE DEF c
<1>4. CASE a.type = "fold"
  <2> DEFINE d == [seat EXCEPT !.state = "folded"]
  <2>1. PutsIn(c, d, 0) /\ d \in SeatRec /\ d.state = "folded" /\ d.leaving = c.leaving
    <3> HIDE DEF seat
    <3>1. /\ d \in SeatRec /\ d.state = "folded" /\ d.leaving = c.leaving
          /\ d.chips = c.chips /\ d.bet = c.bet /\ d.in = c.in
          /\ d.id = c.id /\ d.cards = c.cards
      BY <1>2 DEF SeatRec, SeatStates
    <3> QED
      BY <1>1, <3>1 DEF PutsIn
  <2>2. u = after(d)
    BY <1>4 DEF Apply, c
  <2> HIDE DEF d, seat, u
  <2>3. /\ TableOK(u) /\ SameHand(t, u) /\ u.bet = t.bet /\ u.raise = t.raise
        /\ u.seat[s] = d /\ OthersSame(t, s, u)
    BY <1>1, <2>1, <2>2, SeatSet
  <2>4. Folds(t, s, u)
    BY <2>1, <2>3 DEF Folds, c
  <2> QED
    BY <1>1, <2>3, <2>4 DEF Moves, u
<1>5. CASE a.type = "check"
  <2>1. u = after(seat)
    BY <1>5 DEF Apply, c
  <2>2. c.bet >= t.bet
    <3>1. Max({0, t.bet - c.bet}) = 0
      BY <1>5 DEF Validate, ToCall, c
    <3> QED
      BY <1>1, <3>1, MaxWithZero
  <2> HIDE DEF seat, u
  <2>3. /\ TableOK(u) /\ SameHand(t, u) /\ u.bet = t.bet /\ u.raise = t.raise
        /\ u.seat[s] = seat /\ OthersSame(t, s, u)
    BY <1>1, <1>2, <2>1, SeatSet
  <2>4. c.chips > 0 => Stays(t, s, u)
    BY <1>1, <1>2, <2>2, <2>3 DEF Stays, c
  <2> QED
    BY <1>1, <2>3, <2>4 DEF Moves, u, c
<1>6. CASE a.type = "call"
  <2> DEFINE n == t.bet - c.bet
  <2> DEFINE m == Lesser(n, c.chips)
  <2> DEFINE paid == Pay(seat, n)
  <2> DEFINE d == [paid EXCEPT !.state = IF paid.chips = 0 THEN "allin" ELSE @]
  <2>1. ToCall(t, s) = n /\ n \in Nat /\ n > 0
    <3>1. Max({0, t.bet - c.bet}) > 0
      BY <1>6 DEF Validate, ToCall, c
    <3>2. t.bet - c.bet > 0 /\ Max({0, t.bet - c.bet}) = t.bet - c.bet
      BY <1>1, <3>1, MaxWithZero
    <3> QED
      BY <1>1, <3>2 DEF ToCall, c
  <2>2. u = after(d)
    BY <1>6, <2>1 DEF Apply, c
  <2>3. /\ m \in Nat /\ PutsIn(c, paid, m) /\ paid.acted /\ paid.leaving = c.leaving
        /\ paid.state = IF m > 0 /\ m = c.chips THEN "allin" ELSE "playing"
    BY <1>3, <2>1
  <2> HIDE DEF paid, seat, u
  <2>4. /\ d \in SeatRec /\ PutsIn(c, d, m) /\ d.acted /\ d.leaving = c.leaving
        /\ d.state = IF paid.chips = 0 THEN "allin" ELSE paid.state
        /\ d.chips = paid.chips /\ d.bet = paid.bet
    <3>1. paid \in SeatRec
      BY <2>3 DEF PutsIn
    <3>2. /\ d \in SeatRec /\ d.acted = paid.acted /\ d.leaving = paid.leaving
          /\ d.state = (IF paid.chips = 0 THEN "allin" ELSE paid.state)
          /\ d.chips = paid.chips /\ d.bet = paid.bet /\ d.in = paid.in
          /\ d.id = paid.id /\ d.cards = paid.cards
      BY <3>1 DEF SeatRec, SeatStates
    <3> HIDE DEF d, m
    <3> QED
      BY <2>3, <3>2 DEF PutsIn
  <2> HIDE DEF d
  <2>5. /\ TableOK(u) /\ SameHand(t, u) /\ u.bet = t.bet /\ u.raise = t.raise
        /\ u.seat[s] = d /\ OthersSame(t, s, u)
    BY <1>1, <2>2, <2>4, SeatSet
  <2>6. ASSUME c.chips > 0
        PROVE  \/ /\ d.state = "allin" /\ d.chips = 0 /\ m > 0 /\ d.bet <= t.bet
               \/ /\ d.state = "playing" /\ d.chips > 0
                  /\ d.bet >= t.bet /\ (m > 0 => d.bet = t.bet)
    <3>1. d.chips = c.chips - m /\ d.bet = c.bet + m /\ m <= c.chips
      BY <2>4 DEF PutsIn
    <3>2. m > 0 /\ m <= n /\ (m = n \/ m = c.chips)
      BY <1>1, <2>1, <2>6 DEF Lesser
    <3> HIDE DEF m
    <3>3. d.chips = 0 => d.state = "allin"
      BY <2>4
    <3>4. d.chips # 0 => d.state = "playing" /\ m = n
      BY <1>1, <2>3, <2>4, <3>1, <3>2
    <3> QED
      BY <1>1, <2>1, <2>3, <3>1, <3>2, <3>3, <3>4
  <2> HIDE DEF m
  <2>7. c.chips > 0 => Stays(t, s, u)
    BY <2>3, <2>4, <2>5, <2>6 DEF Stays, c
  <2> QED
    BY <1>1, <2>5, <2>7 DEF Moves, u, c
<1>7. CASE a.type = "bet"
  <2> DEFINE m == Lesser(a.amount, c.chips)
  <2> DEFINE d == Pay(seat, a.amount)
  <2>1. a.amount \in Nat
    <3>1. a.amount \in Amounts
      BY <1>7 DEF Bids
    <3>2. Amounts \subseteq Nat
      BY TableAssumption
    <3> QED
      BY <3>1, <3>2
  <2>2. t.bet = 0
    BY <1>7 DEF Validate
  <2>3. u = Raised(after(d), s)
    BY <1>7 DEF Apply, c
  <2>4. /\ m \in Nat /\ PutsIn(c, d, m) /\ d.acted /\ d.leaving = c.leaving
        /\ d.state = IF m > 0 /\ m = c.chips THEN "allin" ELSE "playing"
    BY <1>3, <2>1
  <2> HIDE DEF d, seat, u
  <2>5. /\ TableOK(u) /\ SameHand(t, u) /\ u.bet = d.bet /\ u.raise \in {t.raise, u.bet - t.bet}
        /\ /\ d.bet > 0 \/ d.bet = t.bet
           /\ \/ d.state = "allin" /\ d.chips = 0
              \/ d.state = "playing" /\ d.chips > 0
           => Raises(t, s, u)
    <3> HIDE DEF m
    <3> QED
      BY <1>1, <2>3, <2>4, RaiseBy DEF c
  <2>6. ASSUME c.chips > 0
        PROVE  /\ d.bet > 0 \/ (d.bet = t.bet /\ a.amount = 0)
               /\ \/ d.state = "allin" /\ d.chips = 0
                  \/ d.state = "playing" /\ d.chips > 0
    <3>1. m <= c.chips /\ (m = 0 => a.amount = 0)
      BY <1>1, <2>1, <2>6 DEF Lesser
    <3>2. d.chips = c.chips - m /\ d.bet = c.bet + m
      BY <2>4 DEF PutsIn
    <3> HIDE DEF m
    <3> QED
      BY <1>1, <2>2, <2>4, <2>6, <3>1, <3>2
  <2>7. c.chips > 0 => Raises(t, s, u)
    BY <2>5, <2>6
  <2>8. c.chips > 0 => u.bet >= t.bet /\ (u.bet > t.bet \/ BetsNothing(a))
    <3>1. u.bet \in Nat /\ u.bet = d.bet
      BY <2>5 DEF TableOK, TableRec
    <3> QED
      BY <1>7, <2>2, <2>6, <3>1 DEF BetsNothing
  <2> QED
    BY <2>5, <2>7, <2>8 DEF Moves, u, c
<1>8. CASE a.type = "raise"
  <2> DEFINE total == Min({a.amount, seat.bet + seat.chips})
  <2> DEFINE n == Max({0, total - seat.bet})
  <2> DEFINE m == Lesser(n, c.chips)
  <2> DEFINE d == Pay(seat, n)
  <2>2. a.amount > t.bet
    BY <1>8 DEF Validate
  <2>1. a.amount \in Nat /\ a.amount > 0
    <3>1. a.amount \in Amounts
      BY <1>8 DEF Bids
    <3>2. Amounts \subseteq Nat
      BY TableAssumption
    <3>3. a.amount \in Nat
      BY <3>1, <3>2
    <3> QED
      BY <1>1, <2>2, <3>3
  <2>3. u = Raised(after(d), s)
    BY <1>8 DEF Apply, c
  <2>4. total = Lesser(a.amount, c.bet + c.chips)
    <3>1. seat.bet + seat.chips \in Int /\ seat.bet + seat.chips = c.bet + c.chips
      BY <1>1, <1>2
    <3> HIDE DEF seat
    <3> QED
      BY <2>1, <3>1, LesserIs
  <2>5. n \in Nat /\ n = IF total >= c.bet THEN total - c.bet ELSE 0
    <3>1. total \in Int
      BY <1>1, <2>1, <2>4 DEF Lesser
    <3>2. total - seat.bet \in Int /\ seat.bet = c.bet
      BY <1>1, <1>2, <3>1
    <3> HIDE DEF total, seat
    <3>3. Max({0, total - seat.bet}) = IF total - seat.bet >= 0 THEN total - seat.bet ELSE 0
      BY <3>2, MaxWithZero
    <3> QED
      BY <1>1, <3>1, <3>2, <3>3
  <2> HIDE DEF total, n
  <2>6. /\ m \in Nat /\ PutsIn(c, d, m) /\ d.acted /\ d.leaving = c.leaving
        /\ d.state = IF m > 0 /\ m = c.chips THEN "allin" ELSE "playing"
    BY <1>3, <2>5
  <2> HIDE DEF d, seat, u
  <2>7. /\ TableOK(u) /\ SameHand(t, u) /\ u.bet = d.bet /\ u.raise \in {t.raise, u.bet - t.bet}
        /\ /\ d.bet > 0 \/ d.bet = t.bet
           /\ \/ d.state = "allin" /\ d.chips = 0
              \/ d.state = "playing" /\ d.chips > 0
           => Raises(t, s, u)
    <3> HIDE DEF m
    <3> QED
      BY <1>1, <2>3, <2>6, RaiseBy DEF c
  <2>8. d.chips = c.chips - m /\ d.bet = c.bet + m /\ m <= c.chips
    BY <2>6 DEF PutsIn
  <2>9. m = n
    BY <1>1, <2>1, <2>4, <2>5 DEF Lesser
  <2> HIDE DEF m
  <2>10. ASSUME c.chips > 0
         PROVE  /\ d.bet > 0 /\ d.bet >= total
                /\ \/ d.state = "allin" /\ d.chips = 0
                   \/ d.state = "playing" /\ d.chips > 0
    BY <1>1, <2>1, <2>4, <2>5, <2>6, <2>8, <2>9, <2>10 DEF Lesser
  <2>11. ASSUME c.chips > 0, Covered(t, s, a) PROVE u.bet > t.bet
    <3>1. a.amount <= c.bet + c.chips \/ t.bet = 0
      BY <1>8, <2>11 DEF Covered, c
    <3>2. u.bet = d.bet /\ d.bet >= total /\ d.bet > 0 /\ d.bet \in Int
      BY <1>1, <2>6, <2>7, <2>8, <2>10, <2>11
    <3>3. total \in Int /\ total <= a.amount
          /\ (a.amount <= c.bet + c.chips => total = a.amount)
      BY <1>1, <2>1, <2>4 DEF Lesser
    <3> QED
      BY <1>1, <2>1, <2>2, <3>1, <3>2, <3>3
  <2>12. c.chips > 0 => Raises(t, s, u)
    BY <2>7, <2>10
  <2>13. u.bet \in Nat
    BY <2>7 DEF TableOK, TableRec
  <2> QED
    BY <1>1, <2>7, <2>11, <2>12, <2>13 DEF Moves, u, c
<1>9. CASE a.type = "allin"
  <2> DEFINE m == c.chips
  <2> DEFINE all == Pay(seat, seat.chips)
  <2> DEFINE d == [all EXCEPT !.state = "allin"]
  <2>0. Lesser(m, m) = m /\ seat.chips = m /\ m \in Nat
    BY <1>1, <1>2 DEF Lesser
  <2>1. c.chips > 0
    BY <1>9 DEF Validate, c
  <2>2. u = IF d.bet > t.bet THEN Raised(after(d), s) ELSE after(d)
    BY <1>9 DEF Apply, c
  <2>3. PutsIn(c, all, m) /\ all.acted /\ all.leaving = c.leaving
    <3> HIDE DEF seat
    <3>1. LET x == Pay(seat, m)
              k == Lesser(m, m)
          IN  PutsIn(c, x, k) /\ x.acted /\ x.leaving = c.leaving
      BY <1>3, <2>0
    <3> QED
      BY <2>0, <3>1
  <2> HIDE DEF all, seat, u
  <2>4. /\ d \in SeatRec /\ PutsIn(c, d, m) /\ d.acted /\ d.leaving = c.leaving
        /\ d.state = "allin" /\ d.chips = 0 /\ d.bet = c.bet + m
    <3>1. all \in SeatRec /\ all.chips = 0 /\ all.bet = c.bet + m
      BY <1>1, <2>3 DEF PutsIn
    <3>2. /\ d \in SeatRec /\ d.acted = all.acted /\ d.leaving = all.leaving
          /\ d.state = "allin"
          /\ d.chips = all.chips /\ d.bet = all.bet /\ d.in = all.in
          /\ d.id = all.id /\ d.cards = all.cards
      BY <3>1 DEF SeatRec, SeatStates
    <3> HIDE DEF d
    <3> QED
      BY <2>3, <3>1, <3>2 DEF PutsIn
  <2> HIDE DEF d
  <2>5. CASE d.bet > t.bet
    <3>1. u = Raised(after(d), s)
      BY <2>2, <2>5
    <3>2. /\ TableOK(u) /\ SameHand(t, u) /\ u.bet = d.bet /\ u.raise \in {t.raise, u.bet - t.bet}
          /\ /\ d.bet > 0 \/ d.bet = t.bet
             /\ \/ d.state = "allin" /\ d.chips = 0
                \/ d.state = "playing" /\ d.chips > 0
             => Raises(t, s, u)
      BY <1>1, <2>0, <2>4, <3>1, RaiseBy DEF c
    <3> QED
      BY <1>1, <2>0, <2>1, <2>4, <2>5, <3>2 DEF Moves, u
  <2>6. CASE ~(d.bet > t.bet)
    <3>1. u = after(d)
      BY <2>2, <2>6
    <3>2. /\ TableOK(u) /\ SameHand(t, u) /\ u.bet = t.bet /\ u.raise = t.raise
          /\ u.seat[s] = d /\ OthersSame(t, s, u)
      <4>1. s \in Seats /\ d \in SeatRec
        BY <1>1, <2>4
      <4> HIDE DEF m
      <4> QED
        BY <3>1, <4>1, SeatSet
    <3>3. Stays(t, s, u)
      BY <1>1, <2>0, <2>1, <2>4, <2>6, <3>2 DEF Stays, c
    <3> QED
      BY <1>1, <3>2, <3>3 DEF Moves, u
  <2> QED
    BY <2>5, <2>6
<1>10. a.type \in {"fold", "check", "call", "bet", "raise", "allin"}
  BY DEF Bids
<1> QED
  BY <1>4, <1>5, <1>6, <1>7, <1>8, <1>9, <1>10

-----------------------------------------------------------------------------
(* The calls: each is some turns and folds, and what follows them.         *)
LEMMA CurrentIs ==
  ASSUME NEW t, Current(t) # NoSeat
  PROVE  /\ Current(t) \in Unacted(t) /\ Current(t) \in Active(t) /\ Current(t) \in Seats
         /\ t.action \in Unacted(t) => Current(t) = t.action
<1>1. Unacted(t) \subseteq Active(t) /\ Active(t) \subseteq Seats
  BY DEF Unacted, Active
<1>2. CASE t.action \in Unacted(t)
  BY <1>1, <1>2 DEF Current
<1>3. CASE t.action \notin Unacted(t)
  <2>1. Unacted(t) # {} /\ Current(t) = Min(Unacted(t))
    BY <1>3 DEF Current
  <2>2. Current(t) \in Unacted(t)
    BY <1>1, <2>1, MinOfSeats
  <2> QED
    BY <1>1, <1>3, <2>2
<1> QED
  BY <1>2, <1>3

(* Whoever is to act has acted, as a client asked or the clock forced.     *)
Turned(t, s, w) ==
  /\ TableOK(w) /\ SameHand(t, w) /\ w.raise \in {t.raise, w.bet - t.bet}
  /\ t.seat[s].chips > 0 => Moves(t, s, w)

(* A client's action that changes anything is the turn of who is to act.   *)
LEMMA RespondIs ==
  ASSUME NEW t, TableOK(t), NEW p, NEW a \in Bids, NEW u \in Respond(t, p, a), u # t
  PROVE  LET s == Current(t)
             w == Apply(t, s, a)
         IN  /\ s \in Unacted(t) /\ t.seat[s].id = p
             /\ Turned(t, s, w) /\ u \in Proceed(w)
             /\ t.seat[s].chips > 0 /\ Covered(t, s, a) =>
                  /\ w.bet >= t.bet
                  /\ ~Folds(t, s, w) /\ ~Stays(t, s, w) => w.bet > t.bet \/ BetsNothing(a)
<1> DEFINE s == Current(t)
<1> DEFINE w == Apply(t, s, a)
<1>1. s # NoSeat /\ t.seat[s].id = p /\ Validate(t, s, a) /\ u \in Proceed(w)
  BY DEF Respond
<1>2. s \in Unacted(t) /\ s \in Active(t)
  BY <1>1, CurrentIs
<1> HIDE DEF s
<1>3. /\ TableOK(w) /\ SameHand(t, w) /\ w.raise \in {t.raise, w.bet - t.bet}
      /\ t.seat[s].chips > 0 => /\ Moves(t, s, w)
                                /\ Covered(t, s, a) => w.bet >= t.bet
                                /\ Covered(t, s, a) /\ ~Folds(t, s, w) /\ ~Stays(t, s, w)
                                     => w.bet > t.bet \/ BetsNothing(a)
  BY <1>1, <1>2, ApplyIs
<1> HIDE DEF w
<1>4. Turned(t, s, w)
  BY <1>3 DEF Turned
<1> QED
  BY <1>1, <1>2, <1>3, <1>4 DEF s, w

(* So is the clock's, which folds or checks.                               *)
LEMMA CheckTimeoutIs ==
  ASSUME NEW t, TableOK(t), NEW u \in CheckTimeout(t), u # t
  PROVE  LET s == Current(t) IN
         /\ s \in Unacted(t)
         /\ \E w : /\ Turned(t, s, w) /\ u \in Proceed(w) /\ w.bet = t.bet
                   /\ PutsIn(t.seat[s], w.seat[s], 0)
                   /\ t.seat[s].chips > 0 => Folds(t, s, w) \/ Stays(t, s, w)
<1> DEFINE s == Current(t)
<1> DEFINE c == t.seat[s]
<1>1. s # NoSeat
  BY DEF CheckTimeout
<1>2. s \in Unacted(t) /\ s \in Active(t) /\ s \in Seats
  BY <1>1, CurrentIs
<1>3. u \in IF t.bet <= c.bet THEN Proceed([t EXCEPT !.seat[s].acted = TRUE])
                              ELSE Proceed([t EXCEPT !.seat[s].state = "folded"])
  BY <1>1 DEF CheckTimeout
<1> HIDE DEF s
<1>4. /\ t \in TableRec /\ t.seat \in [Seats -> SeatRec]
      /\ c \in SeatRec /\ c.state = "playing"
  BY <1>2 DEF TableOK, TableRec, Active
<1>5. c.chips \in Nat /\ c.bet \in Nat /\ c.in \in Nat /\ t.bet \in Nat
  BY <1>4 DEF TableRec, SeatRec
<1>6. CASE t.bet <= c.bet
  <2> DEFINE d == [c EXCEPT !.acted = TRUE]
  <2> DEFINE w == [t EXCEPT !.seat[s] = d]
  <2>1. w = [t EXCEPT !.seat[s].acted = TRUE]
    BY <1>4
  <2> HIDE DEF c
  <2>2. /\ d \in SeatRec /\ d.acted /\ d.leaving = c.leaving /\ d.state = "playing"
        /\ d.chips = c.chips /\ d.bet = c.bet /\ d.in = c.in /\ d.id = c.id /\ d.cards = c.cards
    BY <1>4 DEF SeatRec
  <2> HIDE DEF d
  <2>3. PutsIn(c, d, 0)
    BY <1>5, <2>2 DEF PutsIn
  <2>4. /\ TableOK(w) /\ SameHand(t, w) /\ w.bet = t.bet /\ w.raise = t.raise
        /\ w.seat[s] = d /\ OthersSame(t, s, w)
    BY <1>2, <2>2, SeatSet
  <2>5. u \in Proceed(w)
    BY <1>3, <1>6, <2>1
  <2> HIDE DEF w
  <2>6. c.chips > 0 => Stays(t, s, w)
    BY <1>5, <1>6, <2>2, <2>3, <2>4 DEF Stays, c
  <2> QED
    BY <1>2, <2>3, <2>4, <2>5, <2>6 DEF Turned, Moves, s, c
<1>7. CASE ~(t.bet <= c.bet)
  <2> DEFINE d == [c EXCEPT !.state = "folded"]
  <2> DEFINE w == [t EXCEPT !.seat[s] = d]
  <2>1. w = [t EXCEPT !.seat[s].state = "folded"]
    BY <1>4
  <2> HIDE DEF c
  <2>2. /\ d \in SeatRec /\ d.leaving = c.leaving /\ d.state = "folded"
        /\ d.chips = c.chips /\ d.bet = c.bet /\ d.in = c.in /\ d.id = c.id /\ d.cards = c.cards
    BY <1>4 DEF SeatRec, SeatStates
  <2> HIDE DEF d
  <2>3. PutsIn(c, d, 0)
    BY <1>5, <2>2 DEF PutsIn
  <2>4. /\ TableOK(w) /\ SameHand(t, w) /\ w.bet = t.bet /\ w.raise = t.raise
        /\ w.seat[s] = d /\ OthersSame(t, s, w)
    BY <1>2, <2>2, SeatSet
  <2>5. u \in Proceed(w)
    BY <1>3, <1>7, <2>1
  <2> HIDE DEF w
  <2>6. Folds(t, s, w)
    BY <2>2, <2>3, <2>4 DEF Folds, c
  <2> QED
    BY <1>2, <2>3, <2>4, <2>5, <2>6 DEF Turned, Moves, s, c
<1> QED
  BY <1>6, <1>7

(* Some seats are folded where they are.                                   *)
FoldsAll(t, S, w) ==
  /\ TableOK(w) /\ w.bet = t.bet /\ w.phase = t.phase /\ w.live = t.live /\ w.bank = t.bank
  /\ w.action = t.action /\ w.raise = t.raise
  /\ \A s \in S : w.seat[s].state = "folded" /\ PutsIn(t.seat[s], w.seat[s], 0)
  /\ \A s \in Seats \ S : w.seat[s] = t.seat[s]

(* When a table is the same but for seats that folded.                     *)
LEMMA FoldsAllIs ==
  ASSUME NEW t, TableOK(t), NEW S \in SUBSET Active(t), NEW gone \in SUBSET Players, NEW w,
         NEW seats \in [Seats -> SeatRec], w = [t EXCEPT !.gone = gone, !.seat = seats],
         \A s \in S : seats[s].state = "folded" /\ PutsIn(t.seat[s], seats[s], 0),
         \A s \in Seats \ S : seats[s] = t.seat[s]
  PROVE  FoldsAll(t, S, w)
<1>1. t \in TableRec
  BY DEF TableOK
<1>2. w \in TableRec
  BY <1>1 DEF TableRec
<1>3. /\ w.seat = seats /\ w.bet = t.bet /\ w.bank = t.bank /\ w.phase = t.phase
      /\ w.live = t.live /\ w.action = t.action /\ w.settled = t.settled /\ w.raise = t.raise
  BY <1>1 DEF TableRec
<1>4. TableOK(w)
  BY <1>2, <1>3 DEF TableOK
<1> QED
  BY <1>3, <1>4 DEF FoldsAll

(* A lapsed grace period folds the player and goes on.                     *)
LEMMA LapseIs ==
  ASSUME NEW t, TableOK(t), NEW p, NEW u \in Lapse(t, p)
  PROVE  \E S, w : S \in SUBSET Active(t) /\ FoldsAll(t, S, w) /\ u \in Proceed(w)
<1> DEFINE S == {s \in Active(t) : t.seat[s].id = p}
<1> DEFINE seats == [s \in Seats |-> IF s \in S
                                       THEN [t.seat[s] EXCEPT !.state = "folded", !.leaving = TRUE]
                                       ELSE t.seat[s]]
<1> DEFINE w == [t EXCEPT !.gone = t.gone \ {p}, !.seat = seats]
<1>1. t \in TableRec /\ t.seat \in [Seats -> SeatRec] /\ t.gone \in SUBSET Players
  BY DEF TableOK, TableRec
<1>2. u \in Proceed(w)
  BY <1>1 DEF Lapse, TableRec
<1>3. S \in SUBSET Active(t) /\ Active(t) \subseteq Seats
  BY DEF Active
<1> HIDE DEF S
<1>4. ASSUME NEW s \in S
      PROVE  /\ seats[s] \in SeatRec /\ seats[s].state = "folded"
             /\ PutsIn(t.seat[s], seats[s], 0)
  <2> DEFINE c == t.seat[s]
  <2> DEFINE d == [c EXCEPT !.state = "folded", !.leaving = TRUE]
  <2>1. seats[s] = d /\ c \in SeatRec
    BY <1>1, <1>3
  <2> HIDE DEF c
  <2>2. /\ d \in SeatRec /\ d.state = "folded" /\ d.id = c.id /\ d.cards = c.cards
        /\ d.chips = c.chips /\ d.bet = c.bet /\ d.in = c.in
        /\ c.chips \in Nat /\ c.bet \in Nat /\ c.in \in Nat
    BY <2>1 DEF SeatRec, SeatStates
  <2> HIDE DEF d, seats
  <2> QED
    BY <2>1, <2>2 DEF PutsIn, c
<1>5. \A s \in Seats \ S : seats[s] = t.seat[s] /\ seats[s] \in SeatRec
  BY <1>1
<1>6. seats \in [Seats -> SeatRec]
  BY <1>3, <1>4, <1>5
<1> HIDE DEF seats
<1>7. FoldsAll(t, S, w)
  <2>1. t.gone \ {p} \in SUBSET Players
    BY <1>1
  <2>2. /\ \A s \in S : seats[s].state = "folded" /\ PutsIn(t.seat[s], seats[s], 0)
        /\ \A s \in Seats \ S : seats[s] = t.seat[s]
    BY <1>4, <1>5
  <2> QED
    BY <1>3, <1>6, <2>1, <2>2, FoldsAllIs
<1> HIDE DEF w
<1> QED
  BY <1>2, <1>3, <1>7

(* ProcessAction: the clock, then the grace period, then the action.       *)
LEMMA ProcessActionIs ==
  ASSUME NEW p, NEW a, NEW late \in BOOLEAN, NEW lapsed, ProcessAction(p, a, late, lapsed)
  PROVE  /\ table.live /\ lapsed \subseteq table.gone
         /\ \E t1, t2 :
              /\ t1 = table \/ (late /\ t1 \in CheckTimeout(table))
              /\ t2 = t1 \/ (t1.live /\ \E q \in lapsed : t2 \in Lapse(t1, q))
              /\ table' = t2 \/ (t2.live /\ table' \in Respond(t2, p, a))
<1> DEFINE clock  == IF late THEN CheckTimeout(table) ELSE {table}
<1> DEFINE grace(t) == IF lapsed = {} THEN {t} ELSE UNION {Lapse(t, q) : q \in lapsed}
<1> DEFINE act(t) == Respond(t, p, a)
<1> DEFINE middle == Then(clock, grace)
<1>1. table.live /\ lapsed \subseteq table.gone /\ table' \in Then(middle, act)
  BY DEF ProcessAction
<1>2. \A t1 \in clock : t1 = table \/ (late /\ t1 \in CheckTimeout(table))
  OBVIOUS
<1>3. ASSUME NEW t2 \in middle
      PROVE  \E t1 \in clock : t2 = t1 \/ (t1.live /\ \E q \in lapsed : t2 \in Lapse(t1, q))
  <2>1. PICK t1 \in clock : t2 \in IF t1.live THEN grace(t1) ELSE {t1}
    BY DEF Then
  <2>2. CASE t1.live /\ lapsed # {}
    <3>1. PICK q \in lapsed : t2 \in Lapse(t1, q)
      BY <2>1, <2>2
    <3> QED
      BY <2>2, <3>1
  <2>3. CASE ~(t1.live /\ lapsed # {})
    BY <2>1, <2>3
  <2> QED
    BY <2>2, <2>3
<1> HIDE DEF middle, clock
<1>4. PICK t2 \in middle : table' \in IF t2.live THEN act(t2) ELSE {t2}
  BY <1>1 DEF Then
<1>5. table' = t2 \/ (t2.live /\ table' \in Respond(t2, p, a))
  BY <1>4
<1> QED
  BY <1>1, <1>2, <1>3, <1>4, <1>5

(* One seat changes.                                                       *)
LEMMA SeatIs ==
  ASSUME NEW t, TableOK(t), NEW s \in Seats, NEW c \in SeatRec
  PROVE  LET seats == [t.seat EXCEPT ![s] = c] IN
         /\ seats \in [Seats -> SeatRec] /\ seats[s] = c
         /\ \A v \in Seats \ {s} : seats[v] = t.seat[v]
<1>1. t.seat \in [Seats -> SeatRec]
  BY DEF TableOK, TableRec
<1> QED
  BY <1>1

(* Who joins brings his buy-in to an empty seat.                           *)
LEMMA JoinTableIs ==
  ASSUME TableOK(table), NEW p \in Players, NEW s \in Seats, JoinTable(p, s)
  PROVE  LET c == table.seat[s]
             d == table'.seat[s]
         IN  /\ TableOK(table') /\ OthersSame(table, s, table')
             /\ table.live => "join" \in Events
             /\ SeatOf(table, p) = {} /\ c.state = "empty"
             /\ d.id = p /\ d.chips = BuyIn /\ d.state = "sitting"
             /\ d.bet = c.bet /\ d.in = c.in /\ d.acted = c.acted
             /\ d.leaving = c.leaving /\ d.cards = c.cards
             /\ table'.bank = table.bank + BuyIn /\ table'.bank <= MaxBank
             /\ table'.bet = table.bet /\ table'.raise = table.raise
             /\ table'.phase = table.phase /\ table'.live = table.live
             /\ table'.gone = table.gone /\ table'.action = table.action
<1> DEFINE c == table.seat[s]
<1> DEFINE d == [c EXCEPT !.id = p, !.chips = BuyIn, !.state = "sitting"]
<1> DEFINE bank == table.bank + BuyIn
<1>1. /\ table.live => "join" \in Events
      /\ SeatOf(table, p) = {} /\ c.state = "empty" /\ bank <= MaxBank
      /\ table' = [table EXCEPT !.bank = bank, !.seat[s] = d]
  BY DEF JoinTable
<1>2. c \in SeatRec /\ table.bank \in Int /\ BuyIn \in Nat
  BY TableAssumption DEF TableOK, TableRec
<1>3. bank \in Int
  BY <1>2
<1> HIDE DEF bank, c
<1>4. /\ d \in SeatRec /\ d.id = p /\ d.chips = BuyIn /\ d.state = "sitting"
      /\ d.bet = c.bet /\ d.in = c.in /\ d.acted = c.acted
      /\ d.leaving = c.leaving /\ d.cards = c.cards
  BY <1>2 DEF SeatRec, SeatStates
<1> HIDE DEF d
<1> DEFINE seats == [table.seat EXCEPT ![s] = d]
<1>6. table' = [table EXCEPT !.bank = bank, !.seat = seats]
  BY <1>1
<1>7. /\ seats \in [Seats -> SeatRec] /\ seats[s] = d
      /\ \A v \in Seats \ {s} : seats[v] = table.seat[v]
  BY <1>4, SeatIs
<1> HIDE DEF seats
<1>8. /\ TableOK(table') /\ table'.seat = seats /\ table'.bank = bank
      /\ table'.bet = table.bet /\ table'.raise = table.raise
      /\ table'.phase = table.phase /\ table'.live = table.live
      /\ table'.gone = table.gone /\ table'.action = table.action
  <2>1. table \in TableRec
    BY DEF TableOK
  <2>2. table' \in TableRec
    BY <1>3, <1>6, <1>7, <2>1 DEF TableRec
  <2>3. /\ table'.seat = seats /\ table'.bank = bank
        /\ table'.bet = table.bet /\ table'.raise = table.raise
        /\ table'.phase = table.phase /\ table'.live = table.live
        /\ table'.gone = table.gone /\ table'.action = table.action
        /\ table'.settled = table.settled
    BY <1>6, <2>1 DEF TableRec
  <2>4. TableOK(table')
    BY <2>2, <2>3 DEF TableOK
  <2> QED
    BY <2>3, <2>4
<1>5. /\ TableOK(table') /\ table'.seat[s] = d /\ OthersSame(table, s, table')
      /\ table'.bank = bank /\ table'.bet = table.bet /\ table'.raise = table.raise
      /\ table'.phase = table.phase /\ table'.live = table.live
      /\ table'.gone = table.gone /\ table'.action = table.action
  BY <1>7, <1>8 DEF OthersSame
<1> QED
  BY <1>1, <1>4, <1>5 DEF bank, c

(* The player in seat s takes his stack along.                             *)
Leaves(t, s, u) ==
  LET c == t.seat[s]
      d == u.seat[s]
  IN  /\ TableOK(u) /\ OthersSame(t, s, u)
      /\ d.id = Nobody /\ d.state = "empty" /\ d.bet = 0 /\ d.in = 0
      /\ d.chips \in {0, c.chips} /\ d.leaving \in {FALSE, c.leaving} /\ ~d.cards
      /\ d.acted = c.acted
      /\ u.bank = t.bank - c.chips
      /\ u.bet = t.bet /\ u.raise = t.raise /\ u.phase = t.phase /\ u.live = t.live
      /\ u.gone = t.gone /\ u.action = t.action

(* When a table is the same but for one who left.                          *)
LEMMA LeavesIs ==
  ASSUME NEW t, TableOK(t), NEW s \in Seats, NEW d \in SeatRec,
         d.id = Nobody, d.state = "empty", d.bet = 0, d.in = 0, ~d.cards,
         d.chips \in {0, t.seat[s].chips}, d.leaving \in {FALSE, t.seat[s].leaving},
         d.acted = t.seat[s].acted
  PROVE  Leaves(t, s, [t EXCEPT !.bank = t.bank - t.seat[s].chips, !.seat[s] = d])
<1> DEFINE bank == t.bank - t.seat[s].chips
<1> DEFINE u == [t EXCEPT !.bank = bank, !.seat[s] = d]
<1> DEFINE seats == [t.seat EXCEPT ![s] = d]
<1>1. bank \in Int
  <2>1. t.seat[s] \in SeatRec /\ t.bank \in Int
    BY DEF TableOK, TableRec
  <2>2. t.seat[s].chips \in Nat
    BY <2>1 DEF SeatRec
  <2> QED
    BY <2>1, <2>2
<1> HIDE DEF bank
<1>4. u = [t EXCEPT !.bank = bank, !.seat = seats]
  OBVIOUS
<1>5. /\ seats \in [Seats -> SeatRec] /\ seats[s] = d
      /\ \A v \in Seats \ {s} : seats[v] = t.seat[v]
  BY SeatIs
<1> HIDE DEF u, seats
<1>6. /\ TableOK(u) /\ u.seat = seats /\ u.bank = bank
      /\ u.bet = t.bet /\ u.raise = t.raise /\ u.phase = t.phase /\ u.live = t.live
      /\ u.gone = t.gone /\ u.action = t.action
  <2>1. t \in TableRec
    BY DEF TableOK
  <2>2. u \in TableRec
    BY <1>1, <1>4, <1>5, <2>1 DEF TableRec
  <2>3. /\ u.seat = seats /\ u.bank = bank
        /\ u.bet = t.bet /\ u.raise = t.raise /\ u.phase = t.phase /\ u.live = t.live
        /\ u.gone = t.gone /\ u.action = t.action /\ u.settled = t.settled
    BY <1>4, <2>1 DEF TableRec
  <2>4. TableOK(u)
    BY <2>2, <2>3 DEF TableOK
  <2> QED
    BY <2>3, <2>4
<1>2. /\ TableOK(u) /\ u.seat[s] = d /\ OthersSame(t, s, u) /\ u.bank = bank
      /\ u.bet = t.bet /\ u.raise = t.raise /\ u.phase = t.phase /\ u.live = t.live
      /\ u.gone = t.gone /\ u.action = t.action
  BY <1>5, <1>6 DEF OthersSame
<1>3. Leaves(t, s, u)
  BY <1>2 DEF Leaves, bank
<1> QED
  BY <1>3 DEF u, bank

(* The seat of a player is a taken one.                                    *)
LEMMA SeatOfIs ==
  ASSUME TableOK(table), NEW p, NEW s \in SeatOf(table, p)
  PROVE  /\ s \in Seats /\ table.seat[s] \in SeatRec /\ table.seat[s].id = p
         /\ table.seat[s].state # "empty" /\ table \in TableRec
         /\ table.seat \in [Seats -> SeatRec] /\ table.gone \in SUBSET Players
  BY DEF SeatOf, Taken, TableOK, TableRec

(* A lost connection starts a grace period, or empties the seat.           *)
LEMMA DisconnectIs ==
  ASSUME TableOK(table), NEW p \in Players, Disconnect(p)
  PROVE  \E s \in SeatOf(table, p) :
           \/ /\ s \in InHand(table) /\ "grace" \in Events /\ FoldsAll(table, {}, table')
           \/ /\ s \notin InHand(table) /\ (table.live => "folded" \in Events)
              /\ Leaves(table, s, table')
<1>1. PICK s \in SeatOf(table, p) :
        IF s \in InHand(table)
          THEN "grace" \in Events /\ table' = [table EXCEPT !.gone = @ \cup {p}]
          ELSE /\ table.live => "folded" \in Events
               /\ table' = [table EXCEPT !.bank = @ - table.seat[s].chips,
                              !.seat[s] = [@ EXCEPT !.id = Nobody, !.state = "empty",
                                                    !.cards = FALSE, !.bet = 0, !.in = 0]]
  BY DEF Disconnect
<1>2. /\ s \in Seats /\ table.seat[s] \in SeatRec /\ table \in TableRec
      /\ table.seat \in [Seats -> SeatRec] /\ table.gone \in SUBSET Players
  BY SeatOfIs
<1>3. CASE s \in InHand(table)
  <2>1. table.gone \cup {p} \in SUBSET Players
    BY <1>2
  <2>2. table' = [table EXCEPT !.gone = table.gone \cup {p}, !.seat = table.seat]
    BY <1>1, <1>2, <1>3 DEF TableRec
  <2>3. {} \in SUBSET Active(table)
    OBVIOUS
  <2>4. FoldsAll(table, {}, table')
    BY <1>2, <2>1, <2>2, <2>3, FoldsAllIs
  <2> QED
    BY <1>1, <1>3, <2>4
<1>4. CASE s \notin InHand(table)
  <2> DEFINE c == table.seat[s]
  <2> DEFINE d == [c EXCEPT !.id = Nobody, !.state = "empty", !.cards = FALSE, !.bet = 0,
                            !.in = 0]
  <2>1. table' = [table EXCEPT !.bank = table.bank - c.chips, !.seat[s] = d]
    BY <1>1, <1>2, <1>4
  <2> HIDE DEF c
  <2>2. c \in SeatRec
    BY <1>2 DEF c
  <2>3. /\ d \in SeatRec /\ d.id = Nobody /\ d.state = "empty" /\ d.bet = 0 /\ d.in = 0
        /\ ~d.cards /\ d.chips = c.chips /\ d.leaving = c.leaving /\ d.acted = c.acted
    BY <2>2 DEF SeatRec, SeatStates
  <2> HIDE DEF d
  <2>4. Leaves(table, s, table')
    BY <1>2, <2>1, <2>3, LeavesIs DEF c
  <2> QED
    BY <1>1, <1>4, <2>4
<1> QED
  BY <1>3, <1>4

(* A cash-out folds and goes on, marks the seat, or empties it.            *)
LEMMA RequestCashOutIs ==
  ASSUME TableOK(table), NEW p \in Players, RequestCashOut(p)
  PROVE  \E s \in SeatOf(table, p) :
           \/ /\ table.live /\ s \in Active(table) /\ "cashout" \in Events
              /\ \E w : FoldsAll(table, {s}, w) /\ table' \in Proceed(w)
           \/ /\ table.live /\ s \in InHand(table) \ Active(table) /\ "cashout" \in Events
              /\ TableOK(table') /\ OthersSame(table, s, table')
              /\ PutsIn(table.seat[s], table'.seat[s], 0)
              /\ table'.seat[s].state = table.seat[s].state
              /\ table'.seat[s].acted = table.seat[s].acted
              /\ SameHand(table, table') /\ table'.bet = table.bet
           \/ /\ table.live => s \notin InHand(table) /\ "folded" \in Events
              /\ Leaves(table, s, table')
<1> DEFINE folds(s) == [table EXCEPT !.seat[s].leaving = TRUE, !.seat[s].state = "folded",
                                     !.seat[s].acted = TRUE]
<1>1. PICK s \in SeatOf(table, p) :
        \/ /\ table.live /\ s \in Active(table) /\ "cashout" \in Events
           /\ table' \in Proceed(folds(s))
        \/ /\ table.live /\ s \in InHand(table) \ Active(table) /\ "cashout" \in Events
           /\ table' = [table EXCEPT !.seat[s].leaving = TRUE]
        \/ /\ table.live => s \notin InHand(table) /\ "folded" \in Events
           /\ table' = [table EXCEPT !.bank = @ - table.seat[s].chips,
                                     !.seat[s] = [EmptySeat EXCEPT !.acted = table.seat[s].acted]]
  BY DEF RequestCashOut, Active, InHand
<1>2. /\ s \in Seats /\ table.seat[s] \in SeatRec /\ table \in TableRec
      /\ table.seat \in [Seats -> SeatRec] /\ table.gone \in SUBSET Players
  BY SeatOfIs
<1> DEFINE c == table.seat[s]
<1>3. ASSUME table.live, s \in Active(table), "cashout" \in Events, table' \in Proceed(folds(s))
      PROVE  \E w : FoldsAll(table, {s}, w) /\ table' \in Proceed(w)
  <2> DEFINE d == [c EXCEPT !.leaving = TRUE, !.state = "folded", !.acted = TRUE]
  <2> DEFINE seats == [table.seat EXCEPT ![s] = d]
  <2> DEFINE w == folds(s)
  <2>1. w = [table EXCEPT !.gone = table.gone, !.seat = seats]
    BY <1>2 DEF TableRec
  <2>2. seats[s] = d /\ \A v \in Seats \ {s} : seats[v] = table.seat[v] /\ DOMAIN seats = Seats
    BY <1>2
  <2> HIDE DEF c, w
  <2>3. c \in SeatRec
    BY <1>2 DEF c
  <2>4. /\ d \in SeatRec /\ d.state = "folded" /\ d.id = c.id /\ d.cards = c.cards
        /\ d.chips = c.chips /\ d.bet = c.bet /\ d.in = c.in
        /\ c.chips \in Nat /\ c.bet \in Nat /\ c.in \in Nat
    BY <2>3 DEF SeatRec, SeatStates
  <2>5. seats \in [Seats -> SeatRec]
    BY <1>2, <2>4
  <2> HIDE DEF d, seats
  <2>6. PutsIn(c, d, 0)
    BY <2>4 DEF PutsIn
  <2>7. \A v \in {s} : seats[v].state = "folded" /\ PutsIn(table.seat[v], seats[v], 0)
    BY <2>2, <2>4, <2>6 DEF c
  <2>8. {s} \in SUBSET Active(table)
    BY <1>3
  <2>9. FoldsAll(table, {s}, w)
    BY <1>2, <2>1, <2>2, <2>5, <2>7, <2>8, FoldsAllIs
  <2> QED
    BY <1>3, <2>9 DEF w
<1>4. ASSUME table' = [table EXCEPT !.seat[s].leaving = TRUE]
      PROVE  /\ TableOK(table') /\ OthersSame(table, s, table')
             /\ PutsIn(table.seat[s], table'.seat[s], 0)
             /\ table'.seat[s].state = table.seat[s].state
             /\ table'.seat[s].acted = table.seat[s].acted
             /\ SameHand(table, table') /\ table'.bet = table.bet
  <2> DEFINE d == [c EXCEPT !.leaving = TRUE]
  <2>1. table' = [table EXCEPT !.seat[s] = d]
    BY <1>2, <1>4
  <2> HIDE DEF c
  <2>2. c \in SeatRec
    BY <1>2 DEF c
  <2>3. /\ d \in SeatRec /\ d.state = c.state /\ d.acted = c.acted
        /\ d.id = c.id /\ d.cards = c.cards
        /\ d.chips = c.chips /\ d.bet = c.bet /\ d.in = c.in
        /\ c.chips \in Nat /\ c.bet \in Nat /\ c.in \in Nat
    BY <2>2 DEF SeatRec
  <2> HIDE DEF d
  <2>4. PutsIn(c, d, 0)
    BY <2>3 DEF PutsIn
  <2>5. /\ TableOK(table') /\ SameHand(table, table') /\ table'.bet = table.bet
        /\ table'.seat[s] = d /\ OthersSame(table, s, table')
    BY <1>2, <2>1, <2>3, SeatSet
  <2> QED
    BY <2>3, <2>4, <2>5 DEF c
<1>5. ASSUME table' = [table EXCEPT !.bank = @ - table.seat[s].chips,
                         !.seat[s] = [EmptySeat EXCEPT !.acted = table.seat[s].acted]]
      PROVE  Leaves(table, s, table')
  <2> DEFINE d == [EmptySeat EXCEPT !.acted = c.acted]
  <2>1. table' = [table EXCEPT !.bank = table.bank - c.chips, !.seat[s] = d]
    BY <1>2, <1>5
  <2> HIDE DEF c
  <2>2. c.acted \in BOOLEAN
    BY <1>2 DEF c, SeatRec
  <2>3. /\ d \in SeatRec /\ d.id = Nobody /\ d.state = "empty" /\ d.bet = 0 /\ d.in = 0
        /\ ~d.cards /\ d.chips = 0 /\ d.leaving = FALSE /\ d.acted = c.acted
    BY <2>2 DEF EmptySeat, SeatRec, SeatStates
  <2> HIDE DEF d
  <2> QED
    BY <1>2, <2>1, <2>3, LeavesIs DEF c
<1> QED
  BY <1>1, <1>3, <1>4, <1>5

(* A hand that starts is dealt, and goes on or is shown down at once.      *)
LEMMA StartHandIs ==
  ASSUME TableOK(table), StartHand
  PROVE  LET d == Deal(table) IN
         /\ TableOK(d) /\ MayStart(table) /\ ~table.live
         /\ "short" \in Events \/ CanCover(table)
         /\ "gaps" \in Events \/ CountedRight(table)
         /\ \/ table' \in DoShowdown(d)
            \/ Cardinality(Active(d)) >= 2 /\ Active(d) # {} /\ table' = OpenRound(d)
<1> DEFINE d == Deal(table)
<1>1. /\ MayStart(table) /\ ("short" \in Events \/ CanCover(table))
      /\ "gaps" \in Events \/ CountedRight(table)
      /\ table' \in IF Cardinality(Active(d)) <= 1 THEN DoShowdown(d) ELSE {OpenRound(d)}
  BY DEF StartHand
<1>2. TableOK(d)
  BY <1>1, DealOK
<1>3. ~table.live
  BY <1>1 DEF MayStart, TableOK, InPlay
<1> HIDE DEF d
<1>4. Cardinality(Active(d)) \in Nat
  <2>1. Active(d) \in SUBSET Seats
    BY DEF Active
  <2> QED
    BY <2>1, TwoAtLeast
<1>5. Cardinality(Active(d)) >= 2 => Active(d) # {}
  BY FS_EmptySet
<1> QED
  BY <1>1, <1>2, <1>3, <1>4, <1>5 DEF d

(* The tables a run starts from.                                           *)
LEMMA InitIs ==
  ASSUME Init
  PROVE  /\ TableOK(table) /\ ~table.live /\ table.phase = "waiting" /\ table.gone = {}
         /\ table.bet = 0 /\ table.raise = 0
         /\ \E stacks, id :
              /\ DOMAIN stacks \subseteq Seats /\ (\A s \in DOMAIN stacks : stacks[s] \in Nat)
              /\ id \in [DOMAIN stacks -> Players]
              /\ \A s, u \in DOMAIN stacks : s # u => id[s] # id[u]
              /\ Total(stacks) <= MaxBank /\ table.bank = Total(stacks)
              /\ \A s \in Seats :
                   LET c == table.seat[s]
                   IN  IF s \in DOMAIN stacks
                         THEN /\ c.id = id[s] /\ c.state = "sitting" /\ c.chips = stacks[s]
                              /\ c.bet = 0 /\ c.in = 0 /\ ~c.leaving
                         ELSE c = EmptySeat
<1> DEFINE ids(stacks) == CHOOSE f \in [DOMAIN stacks -> Players] :
                             \A s, u \in DOMAIN stacks : s # u => f[s] # f[u]
<1>1. PICK setup \in InitialTables :
        table = [seat |-> [s \in Seats |->
                             IF s \in DOMAIN setup.stacks
                               THEN [EmptySeat EXCEPT !.id = ids(setup.stacks)[s],
                                                      !.state = "sitting",
                                                      !.chips = setup.stacks[s]]
                               ELSE EmptySeat],
                 phase |-> "waiting", hand |-> setup.hand, dealer |-> 0, action |-> 0, bet |-> 0,
                 raise |-> 0, live |-> FALSE, gone |-> {},
                 settled |-> NothingSettled, bank |-> Total(setup.stacks)]
  BY DEF Init
<1> DEFINE stacks == setup.stacks
<1> DEFINE D == DOMAIN stacks
<1> DEFINE id == ids(stacks)
<1>2. /\ D \subseteq Seats /\ (\A s \in D : stacks[s] \in Nat)
      /\ Total(stacks) <= MaxBank /\ setup.hand \in 0 .. MaxHands
      /\ \E f \in [D -> Players] : \A s, u \in D : s # u => f[s] # f[u]
  BY TableAssumption
<1>3. id \in [D -> Players] /\ \A s, u \in D : s # u => id[s] # id[u]
  BY <1>2
<1> HIDE DEF ids
<1> DEFINE seats == [s \in Seats |-> IF s \in D
                                       THEN [EmptySeat EXCEPT !.id = id[s], !.state = "sitting",
                                                              !.chips = stacks[s]]
                                       ELSE EmptySeat]
<1>4. table = [seat |-> seats,
               phase |-> "waiting", hand |-> setup.hand, dealer |-> 0, action |-> 0, bet |-> 0,
               raise |-> 0, live |-> FALSE, gone |-> {},
               settled |-> NothingSettled, bank |-> Total(stacks)]
  BY <1>1
<1> HIDE DEF id, stacks
<1>5. ASSUME NEW s \in Seats
      PROVE  /\ seats[s] \in SeatRec
             /\ IF s \in D
                  THEN /\ seats[s].id = id[s] /\ seats[s].state = "sitting"
                       /\ seats[s].chips = stacks[s]
                       /\ seats[s].bet = 0 /\ seats[s].in = 0 /\ ~seats[s].leaving
                  ELSE seats[s] = EmptySeat
  <2>1. CASE s \in D
    <3>1. id[s] \in Players /\ stacks[s] \in Nat
      BY <1>2, <1>3, <2>1
    <3>2. seats[s] = [EmptySeat EXCEPT !.id = id[s], !.state = "sitting", !.chips = stacks[s]]
      BY <2>1
    <3> DEFINE i == id[s]
    <3> DEFINE n == stacks[s]
    <3> DEFINE c == [EmptySeat EXCEPT !.id = i, !.state = "sitting", !.chips = n]
    <3> HIDE DEF i, n
    <3>3. /\ c \in SeatRec /\ c.id = i /\ c.state = "sitting" /\ c.chips = n
          /\ c.bet = 0 /\ c.in = 0 /\ ~c.leaving
      BY <3>1 DEF i, n, EmptySeat, SeatRec, SeatStates
    <3>4. seats[s] = c
      BY <3>2 DEF i, n
    <3> HIDE DEF c, seats, D
    <3> QED
      BY <2>1, <3>3, <3>4 DEF i, n
  <2>2. CASE s \notin D
    BY <2>2, EmptySeatIs
  <2> QED
    BY <2>1, <2>2
<1>6. seats \in [Seats -> SeatRec]
  BY <1>5
<1> HIDE DEF seats
<1>7. Total(stacks) \in Int
  <2>1. Total(stacks) = Sum(stacks, D)
    BY TotalIs
  <2>2. IsFiniteSet(D) /\ \A s \in D : stacks[s] \in Int
    BY <1>2, SeatNumbers, FS_Subset
  <2> HIDE DEF D
  <2> QED
    BY <2>1, <2>2, SumInt
<1>8. NothingSettled \in [Seats -> SettledRec] /\ CappedOut(NothingSettled) /\ 0 \in Seats
  BY NothingSettledIsCapped, SeatNumbers
<1>9. TableOK(table)
  <2>1. table \in TableRec
    BY <1>2, <1>4, <1>6, <1>7, <1>8 DEF TableRec
  <2>2. ~table.live /\ table.phase = "waiting" /\ table.settled = NothingSettled
    BY <1>4
  <2> QED
    BY <1>8, <2>1, <2>2 DEF TableOK, InPlay
<1>10. /\ ~table.live /\ table.phase = "waiting" /\ table.gone = {} /\ table.bet = 0
       /\ table.raise = 0 /\ table.bank = Total(stacks) /\ table.seat = seats
  BY <1>4
<1> QED
  BY <1>2, <1>3, <1>5, <1>9, <1>10 DEF stacks

-----------------------------------------------------------------------------
(* Every table is one, whatever happens.                                   *)
LEMMA ProcessActionOK ==
  ASSUME TableOK(table), NEW p, NEW a \in Bids, NEW late \in BOOLEAN, NEW lapsed,
         ProcessAction(p, a, late, lapsed)
  PROVE  TableOK(table')
<1>1. PICK t1, t2 :
        /\ t1 = table \/ t1 \in CheckTimeout(table)
        /\ t2 = t1 \/ (t1.live /\ \E q \in lapsed : t2 \in Lapse(t1, q))
        /\ table' = t2 \/ (t2.live /\ table' \in Respond(t2, p, a))
  BY ProcessActionIs
<1>2. table.live
  BY ProcessActionIs
<1>3. TableOK(t1)
  <2> SUFFICES ASSUME t1 # table PROVE TableOK(t1)
    OBVIOUS
  <2>1. PICK w : Turned(table, Current(table), w) /\ t1 \in Proceed(w)
    BY <1>1, CheckTimeoutIs
  <2>2. TableOK(w) /\ w.live
    BY <1>2, <2>1 DEF Turned, SameHand
  <2> QED
    BY <2>1, <2>2, ProceedIs
<1>4. TableOK(t2)
  <2> SUFFICES ASSUME t2 # t1 PROVE TableOK(t2)
    BY <1>3
  <2>1. PICK q \in lapsed : t1.live /\ t2 \in Lapse(t1, q)
    BY <1>1
  <2>2. PICK S, w : S \in SUBSET Active(t1) /\ FoldsAll(t1, S, w) /\ t2 \in Proceed(w)
    BY <1>3, <2>1, LapseIs
  <2>3. TableOK(w) /\ w.live
    BY <2>1, <2>2 DEF FoldsAll
  <2> QED
    BY <2>2, <2>3, ProceedIs
<1>5. CASE table' # t2
  <2> DEFINE w == Apply(t2, Current(t2), a)
  <2>1. t2.live /\ table' \in Respond(t2, p, a)
    BY <1>1, <1>5
  <2>2. Turned(t2, Current(t2), w) /\ table' \in Proceed(w)
    BY <1>4, <1>5, <2>1, RespondIs
  <2> HIDE DEF w
  <2>3. TableOK(w) /\ w.live
    BY <2>1, <2>2 DEF Turned, SameHand
  <2> QED
    BY <2>2, <2>3, ProceedIs
<1> QED
  BY <1>4, <1>5

(* A cash-out keeps a table in order.                                      *)
LEMMA RequestCashOutOK ==
  ASSUME TableOK(table), NEW p \in Players, RequestCashOut(p)
  PROVE  TableOK(table')
<1>1. PICK s \in SeatOf(table, p) :
        \/ /\ table.live
           /\ \E w : FoldsAll(table, {s}, w) /\ table' \in Proceed(w)
        \/ TableOK(table')
        \/ Leaves(table, s, table')
  BY RequestCashOutIs
<1>2. ASSUME table.live, NEW w, FoldsAll(table, {s}, w), table' \in Proceed(w)
      PROVE  TableOK(table')
  BY <1>2, ProceedIs DEF FoldsAll
<1> QED
  BY <1>1, <1>2 DEF Leaves

(* So does every step.                                                     *)
LEMMA NextOK ==
  ASSUME TableOK(table), [Next]_vars
  PROVE  TableOK(table')
<1>1. CASE StartHand
  <2> DEFINE d == Deal(table)
  <2>1. TableOK(d)
    BY <1>1, StartHandIs
  <2>2. table' \in DoShowdown(d) \/ (Active(d) # {} /\ table' = OpenRound(d))
    BY <1>1, StartHandIs
  <2> HIDE DEF d
  <2> QED
    BY <2>1, <2>2, DoShowdownIs, OpenRoundIs
<1>2. ASSUME NEW p \in Players, NEW a \in Bids, NEW late \in BOOLEAN, NEW lapsed,
             ProcessAction(p, a, late, lapsed)
      PROVE  TableOK(table')
  BY <1>2, ProcessActionOK
<1>3. ASSUME NEW p \in Players, NEW s \in Seats, JoinTable(p, s) PROVE TableOK(table')
  BY <1>3, JoinTableIs
<1>4. ASSUME NEW p \in Players, Disconnect(p) PROVE TableOK(table')
  BY <1>4, DisconnectIs DEF FoldsAll, Leaves
<1>5. ASSUME NEW p \in Players, RequestCashOut(p) PROVE TableOK(table')
  BY <1>5, RequestCashOutOK
<1>6. CASE UNCHANGED table
  BY <1>6
<1> QED
  BY <1>1, <1>2, <1>3, <1>4, <1>5, <1>6 DEF Next, Reconnect, vars

(* However a hand is played, joined and left, and whatever the stacks:     *)
(* nobody wins more from an opponent than he put in against him, and who   *)
(* folded wins nothing (DoShowdown with PotManager's pots).                *)
THEOREM TableWinningsCapped == Spec => []WinningsCapped
<1> DEFINE Inv == TableOK(table)
<1>1. Init => Inv
  BY InitIs
<1>2. Inv /\ [Next]_vars => Inv'
  BY NextOK
<1>3. Inv => WinningsCapped
  BY DEF TableOK, CappedOut, WinningsCapped
<1> QED
  BY <1>1, <1>2, <1>3, PTL DEF Spec

-----------------------------------------------------------------------------
(* A hand that goes on: nobody is out of the hand's round, nobody put more *)
(* in than the bet, and the streets before this one were matched.          *)
Before(c) == c.in - c.bet

SeatSteady(c, bet) ==
  /\ c.state # "sitting" /\ c.bet <= bet
  /\ c.state = "playing" => c.chips > 0 /\ (c.acted => c.bet = bet)

Matched(t) ==
  \A s \in Active(t), u \in InHand(t) :
    /\ Before(t.seat[u]) <= Before(t.seat[s])
    /\ u \in Active(t) => Before(t.seat[u]) = Before(t.seat[s])

Steady(t) == (\A s \in Seats : SeatSteady(t.seat[s], t.bet)) /\ Matched(t)

Ready(t) == Steady(t) /\ t.action \in Unacted(t)

(* Fewer players, the same earlier streets.                                *)
LEMMA MatchedKept ==
  ASSUME NEW t, Matched(t), NEW w, InHand(w) \subseteq InHand(t), Active(w) \subseteq Active(t),
         \A s \in InHand(w) : Before(w.seat[s]) = Before(t.seat[s])
  PROVE  Matched(w)
<1>1. Active(w) \subseteq InHand(w)
  BY DEF Active, InHand
<1> QED
  BY <1>1 DEF Matched

(* What a turn does to the seat itself.                                    *)
LEMMA MovesSeat ==
  ASSUME NEW t, TableOK(t), NEW s \in Active(t), NEW w, Moves(t, s, w), t.bet \in Nat,
         SeatSteady(t.seat[s], t.bet)
  PROVE  LET c == t.seat[s]
             d == w.seat[s]
         IN  /\ SeatSteady(d, w.bet) /\ Before(d) = Before(c)
             /\ d.state \in {"folded", "playing", "allin"} /\ d.id = c.id /\ d.leaving = c.leaving
             /\ d.cards = c.cards /\ d.chips + d.in = c.chips + c.in /\ c.in <= d.in
             /\ d.bet - c.bet = d.in - c.in /\ d \in SeatRec
             /\ d.state = "playing" => d.acted
<1> DEFINE c == t.seat[s]
<1> DEFINE d == w.seat[s]
<1>1. c \in SeatRec /\ c.state = "playing" /\ c.chips \in Nat /\ c.bet \in Nat /\ c.in \in Nat
  BY DEF Active, TableOK, TableRec, SeatRec
<1>2. PICK m \in Nat : PutsIn(c, d, m)
                       /\ (Folds(t, s, w) => m = 0)
                       /\ (Stays(t, s, w) =>
                             \/ /\ d.state = "allin" /\ d.bet <= t.bet
                             \/ /\ d.state = "playing" /\ d.chips > 0
                                /\ d.bet >= t.bet /\ (m > 0 => d.bet = t.bet))
  <2>1. CASE Folds(t, s, w)
    <3>1. PutsIn(c, d, 0) /\ d.state = "folded"
      BY <2>1 DEF Folds
    <3>2. ~Stays(t, s, w)
      BY <3>1 DEF Stays
    <3> QED
      BY <3>1, <3>2
  <2>2. CASE ~Folds(t, s, w) /\ Stays(t, s, w)
    BY <2>2 DEF Stays
  <2>3. CASE ~Folds(t, s, w) /\ ~Stays(t, s, w)
    <3>1. Raises(t, s, w)
      BY <2>3 DEF Moves
    <3>2. PICK m \in Nat : PutsIn(c, d, m)
      BY <3>1 DEF Raises
    <3>3. d.state # "folded"
      BY <3>1 DEF Raises
    <3> QED
      BY <2>3, <3>2, <3>3
  <2> QED
    BY <2>1, <2>2, <2>3
<1>3. /\ d.id = c.id /\ d.cards = c.cards /\ d.chips = c.chips - m /\ d.bet = c.bet + m
      /\ d.in = c.in + m /\ m \in 0 .. c.chips /\ d \in SeatRec
  BY <1>2 DEF PutsIn
<1>4. /\ d.leaving = c.leaving /\ d.state \in {"folded", "playing", "allin"}
      /\ d.state = "playing" => d.acted
  BY DEF Moves, Folds, Stays, Raises
<1>5. SeatSteady(d, w.bet)
  <2>1. c.bet <= t.bet
    BY DEF SeatSteady
  <2>2. CASE Folds(t, s, w)
    <3>1. d.state = "folded" /\ w.bet = t.bet /\ m = 0
      BY <1>2, <2>2 DEF Folds
    <3> QED
      BY <1>1, <1>3, <2>1, <3>1 DEF SeatSteady
  <2>3. CASE Stays(t, s, w)
    <3>1. w.bet = t.bet
      BY <2>3 DEF Stays
    <3>2. \/ d.state = "allin" /\ d.bet <= t.bet
          \/ /\ d.state = "playing" /\ d.chips > 0
             /\ d.bet >= t.bet /\ (m > 0 => d.bet = t.bet)
      BY <1>2, <2>3
    <3>3. m = 0 => d.bet = c.bet
      BY <1>1, <1>3
    <3>4. d.bet <= t.bet /\ (d.state = "playing" => d.bet = t.bet /\ d.chips > 0)
      BY <1>1, <1>3, <2>1, <3>2, <3>3
    <3> QED
      BY <1>4, <3>1, <3>4 DEF SeatSteady
  <2>4. CASE Raises(t, s, w)
    <3>1. w.bet = d.bet /\ (d.state = "playing" => d.chips > 0)
      BY <2>4 DEF Raises
    <3>2. d.bet <= d.bet
      BY <1>1, <1>3
    <3> QED
      BY <1>4, <3>1, <3>2 DEF SeatSteady
  <2> QED
    BY <2>2, <2>3, <2>4 DEF Moves
<1>6. /\ Before(d) = Before(c) /\ d.chips + d.in = c.chips + c.in /\ c.in <= d.in
      /\ d.bet - c.bet = d.in - c.in
  BY <1>1, <1>3 DEF Before
<1> QED
  BY <1>3, <1>4, <1>5, <1>6

(* And to the others.                                                      *)
LEMMA MovesOthers ==
  ASSUME NEW t, TableOK(t), NEW s \in Active(t), NEW w, Moves(t, s, w), NEW v \in Seats \ {s}
  PROVE  LET c == t.seat[v]
             d == w.seat[v]
         IN  /\ d.state = c.state /\ d.chips = c.chips /\ d.bet = c.bet /\ d.in = c.in
             /\ d.id = c.id /\ d.leaving = c.leaving /\ d.cards = c.cards
             /\ d = c \/ (Raises(t, s, w) /\ c.state = "playing")
             /\ Raises(t, s, w) /\ c.state = "playing" => ~d.acted
             /\ d.state # "playing" => d = c
<1> DEFINE c == t.seat[v]
<1> DEFINE d == w.seat[v]
<1>1. c \in SeatRec
  BY DEF TableOK, TableRec
<1>2. CASE Raises(t, s, w)
  <2>1. IF c.state = "playing" THEN d = [c EXCEPT !.acted = FALSE] ELSE d = c
    BY <1>2 DEF Raises, Reopened
  <2>2. CASE c.state = "playing"
    <3>1. d = [c EXCEPT !.acted = FALSE]
      BY <2>1, <2>2
    <3> HIDE DEF c, d
    <3>2. /\ d.state = c.state /\ d.chips = c.chips /\ d.bet = c.bet /\ d.in = c.in
          /\ d.id = c.id /\ d.leaving = c.leaving /\ d.cards = c.cards /\ ~d.acted
      BY <1>1, <3>1 DEF SeatRec
    <3> QED
      BY <1>2, <2>2, <3>2 DEF c, d
  <2>3. CASE c.state # "playing"
    BY <2>1, <2>3
  <2> QED
    BY <2>2, <2>3
<1>3. CASE ~Raises(t, s, w)
  <2>1. d = c
    BY <1>3 DEF Moves, Folds, Stays, OthersSame
  <2> QED
    BY <1>3, <2>1
<1> QED
  BY <1>2, <1>3

(* Seats of the hand only drop out of it.                                  *)
LEMMA MovesInHand ==
  ASSUME NEW t, TableOK(t), NEW s \in Active(t), NEW w, Moves(t, s, w), t.bet \in Nat,
         SeatSteady(t.seat[s], t.bet)
  PROVE  /\ InHand(w) \subseteq InHand(t) /\ InHand(t) \ {s} \subseteq InHand(w)
         /\ Active(w) \subseteq Active(t) /\ s \notin Unacted(w)
         /\ ~Raises(t, s, w) => Unacted(w) = Unacted(t) \ {s}
<1>1. /\ w.seat[s].state \in {"folded", "playing", "allin"} /\ t.seat[s].state = "playing"
      /\ w.seat[s].state = "playing" => w.seat[s].acted
  BY MovesSeat DEF Active
<1>2. \A v \in Seats \ {s} : /\ w.seat[v].state = t.seat[v].state
                             /\ w.seat[v] = t.seat[v] \/ Raises(t, s, w)
  BY MovesOthers
<1> QED
  BY <1>1, <1>2 DEF InHand, Active, Unacted

(* A turn leaves the round steady.                                         *)
LEMMA TurnSteady ==
  ASSUME NEW t, TableOK(t), Steady(t), NEW s \in Active(t), NEW w, Turned(t, s, w),
         w.bet >= t.bet
  PROVE  Steady(w)
<1>1. s \in Seats /\ t.bet \in Nat /\ w.bet \in Nat /\ TableOK(w)
  BY DEF Active, TableOK, TableRec, Turned
<1>2. SeatSteady(t.seat[s], t.bet) /\ t.seat[s].chips > 0 /\ Matched(t)
  BY <1>1 DEF Steady, SeatSteady, Active
<1>3. Moves(t, s, w)
  BY <1>2 DEF Turned
<1>4. SeatSteady(w.seat[s], w.bet) /\ Before(w.seat[s]) = Before(t.seat[s])
  BY <1>1, <1>2, <1>3, MovesSeat
<1>5. ASSUME NEW v \in Seats \ {s}
      PROVE  SeatSteady(w.seat[v], w.bet) /\ Before(w.seat[v]) = Before(t.seat[v])
  <2>1. /\ w.seat[v].state = t.seat[v].state /\ w.seat[v].chips = t.seat[v].chips
        /\ w.seat[v].bet = t.seat[v].bet /\ w.seat[v].in = t.seat[v].in
        /\ w.seat[v] = t.seat[v] \/ (Raises(t, s, w) /\ t.seat[v].state = "playing")
        /\ Raises(t, s, w) /\ t.seat[v].state = "playing" => ~w.seat[v].acted
    BY <1>3, MovesOthers
  <2>2. SeatSteady(t.seat[v], t.bet) /\ t.seat[v].bet \in Nat
    BY DEF Steady, TableOK, TableRec, SeatRec
  <2>3. ~Raises(t, s, w) => w.bet = t.bet
    BY <1>3 DEF Moves, Folds, Stays
  <2>4. w.seat[v].bet <= w.bet
    BY <1>1, <2>1, <2>2 DEF SeatSteady
  <2> QED
    BY <2>1, <2>2, <2>3, <2>4 DEF SeatSteady, Before
<1>6. Matched(w)
  <2>1. InHand(w) \subseteq InHand(t) /\ Active(w) \subseteq Active(t) /\ InHand(w) \subseteq Seats
    BY <1>1, <1>2, <1>3, MovesInHand DEF InHand
  <2> QED
    BY <1>2, <1>4, <1>5, <2>1, MatchedKept
<1> QED
  BY <1>4, <1>5, <1>6 DEF Steady

(* So does folding some.                                                   *)
LEMMA FoldsAllSteady ==
  ASSUME NEW t, TableOK(t), Steady(t), NEW S \in SUBSET Active(t), NEW w, FoldsAll(t, S, w)
  PROVE  Steady(w)
<1>1. ASSUME NEW s \in S
      PROVE  SeatSteady(w.seat[s], w.bet) /\ w.seat[s].state = "folded"
  <2>1. /\ w.bet = t.bet /\ w.seat[s].state = "folded" /\ PutsIn(t.seat[s], w.seat[s], 0)
        /\ s \in Seats
    BY DEF FoldsAll, Active
  <2>2. t.seat[s].bet \in Nat /\ t.seat[s].bet <= t.bet
    BY <2>1 DEF TableOK, TableRec, SeatRec, Steady, SeatSteady
  <2>3. w.seat[s].bet = t.seat[s].bet
    BY <2>1, <2>2 DEF PutsIn
  <2> QED
    BY <2>1, <2>2, <2>3 DEF SeatSteady
<1>2. \A s \in Seats \ S : w.seat[s] = t.seat[s] /\ SeatSteady(w.seat[s], w.bet)
  BY DEF FoldsAll, Steady
<1>3. InHand(w) \subseteq InHand(t) \ S /\ Active(w) \subseteq Active(t) /\ InHand(w) \subseteq Seats
  BY <1>1, <1>2 DEF InHand, Active
<1>4. Matched(w)
  <2>1. \A s \in InHand(w) : Before(w.seat[s]) = Before(t.seat[s])
    BY <1>2, <1>3
  <2> QED
    BY <1>3, <2>1, MatchedKept DEF Steady
<1> QED
  BY <1>1, <1>2, <1>4 DEF Steady

(* What follows an action leaves the next one in turn, or the hand is over.*)
LEMMA ProceedReady ==
  ASSUME NEW t, TableOK(t), t.live, Steady(t), NEW u \in Proceed(t)
  PROVE  /\ TableOK(u)
         /\ u.live => /\ Ready(u)
                      /\ \/ NewStreet(t, u)
                         \/ /\ u.seat = t.seat /\ u.bet = t.bet /\ u.phase = t.phase
                            /\ Unacted(t) # {} /\ u.action = FirstFrom(t.action + 1, Unacted(t))
<1>1. /\ TableOK(u)
      /\ \/ u \in DoShowdown(t)
         \/ /\ NewStreet(t, u) /\ Unacted(t) = {}
            /\ \A s, v \in Active(t) : t.seat[s].bet = t.seat[v].bet
         \/ /\ ~IsBettingRoundComplete(t)
            /\ u.seat = t.seat /\ u.bet = t.bet /\ u.phase = t.phase
            /\ Unacted(t) # {} => u.action = FirstFrom(t.action + 1, Unacted(t))
  BY ProceedIs
<1>2. CASE u \in DoShowdown(t)
  <2>1. Sitting(t) = {}
    BY DEF Sitting, Steady, SeatSteady
  <2>2. ~u.live
    BY <1>2, <2>1, DoShowdownIs DEF Ended
  <2> QED
    BY <1>1, <2>2
<1>3. CASE NewStreet(t, u) /\ Unacted(t) = {}
  <2>1. \A s \in Seats : /\ u.seat[s].state = t.seat[s].state /\ u.seat[s].chips = t.seat[s].chips
                         /\ u.seat[s].in = t.seat[s].in /\ u.seat[s].bet = 0 /\ ~u.seat[s].acted
    BY <1>3 DEF NewStreet
  <2>2. u.bet = 0 /\ u.action \in Unacted(u)
    BY <1>3 DEF NewStreet
  <2>3. \A s \in Seats : SeatSteady(u.seat[s], u.bet)
    BY <2>1, <2>2 DEF Steady, SeatSteady
  <2>4. Active(u) = Active(t) /\ InHand(u) = InHand(t)
    BY <2>1 DEF Active, InHand
  <2>5. ASSUME NEW s \in Active(t), NEW v \in InHand(t)
        PROVE  /\ Before(u.seat[v]) <= Before(u.seat[s])
               /\ v \in Active(t) => Before(u.seat[v]) = Before(u.seat[s])
    <3>1. s \in Seats /\ v \in Seats
      BY DEF Active, InHand
    <3>2. /\ t.seat[s].in \in Nat /\ t.seat[s].bet \in Nat /\ t.seat[v].in \in Nat
          /\ t.seat[v].bet \in Nat /\ t.bet \in Nat
      BY <3>1 DEF TableOK, TableRec, SeatRec
    <3>3. \A x \in Active(t) : x \in Seats /\ t.seat[x].state = "playing" /\ t.seat[x].acted
      BY <1>3 DEF Unacted, Active
    <3>4. t.seat[s].bet = t.bet /\ t.seat[v].bet <= t.bet
          /\ (v \in Active(t) => t.seat[v].bet = t.bet)
      BY <3>1, <3>3 DEF Steady, SeatSteady
    <3>5. /\ Before(t.seat[v]) <= Before(t.seat[s])
          /\ v \in Active(t) => Before(t.seat[v]) = Before(t.seat[s])
      BY DEF Steady, Matched
    <3>6. Before(u.seat[v]) = t.seat[v].in - 0 /\ Before(u.seat[s]) = t.seat[s].in - 0
      BY <2>1, <3>1 DEF Before
    <3> QED
      BY <3>2, <3>4, <3>5, <3>6 DEF Before
  <2>6. Matched(u)
    BY <2>4, <2>5 DEF Matched
  <2> QED
    BY <1>1, <1>3, <2>2, <2>3, <2>6 DEF Ready, Steady
<1>4. CASE ~IsBettingRoundComplete(t) /\ u \notin DoShowdown(t) /\ ~(NewStreet(t, u) /\ Unacted(t) = {})
  <2>1. /\ u.seat = t.seat /\ u.bet = t.bet /\ u.phase = t.phase
        /\ Unacted(t) # {} => u.action = FirstFrom(t.action + 1, Unacted(t))
    BY <1>1, <1>4
  <2>2. Unacted(t) # {}
    <3> SUFFICES ASSUME Unacted(t) = {} PROVE FALSE
      OBVIOUS
    <3>1. \A s \in Active(t) : s \in Seats /\ t.seat[s].acted /\ t.seat[s].state = "playing"
      BY DEF Unacted, Active
    <3>2. \A s \in Active(t) : t.seat[s].bet = t.bet
      BY <3>1 DEF Steady, SeatSteady
    <3> QED
      BY <1>4, <3>2 DEF IsBettingRoundComplete
  <2>3. u.action \in Unacted(t)
    <3>1. Unacted(t) \in SUBSET Seats
      BY DEF Unacted, Active
    <3>2. t.action + 1 \in 0 .. NumSeats
      <4>1. t.action \in Seats
        BY DEF TableOK, TableRec
      <4> QED
        BY <4>1, SeatAfter
    <3> QED
      BY <2>1, <2>2, <3>1, <3>2, FirstFromIn
  <2>4. Unacted(u) = Unacted(t) /\ Active(u) = Active(t) /\ InHand(u) = InHand(t)
    BY <2>1 DEF Unacted, Active, InHand
  <2>5. Steady(u)
    BY <2>1, <2>4 DEF Steady, Matched
  <2> QED
    BY <1>1, <2>1, <2>2, <2>3, <2>4, <2>5 DEF Ready
<1> QED
  BY <1>1, <1>2, <1>3, <1>4

(* Until the next street begins, who is still to be asked has what he had. *)
Untouched(t, u) ==
  u.live =>
    /\ t.bet = 0 => u.bet = 0
    /\ \/ u.bet = 0
       \/ \A s \in Active(u) :
            /\ s \in Active(t)
            /\ u.seat[s].id = t.seat[s].id /\ u.seat[s].chips = t.seat[s].chips
            /\ u.seat[s].bet = t.seat[s].bet

(* What follows an action touches nobody still to be asked.                *)
LEMMA ProceedUntouched ==
  ASSUME NEW t, TableOK(t), t.live, Steady(t), NEW u \in Proceed(t), NEW t0, t.bet = t0.bet,
         \A s \in Active(t) : /\ s \in Active(t0)
                              /\ t.seat[s].id = t0.seat[s].id /\ t.seat[s].bet = t0.seat[s].bet
                              /\ t.seat[s].chips = t0.seat[s].chips
  PROVE  Untouched(t0, u)
<1> SUFFICES ASSUME u.live PROVE Untouched(t0, u)
  BY DEF Untouched
<1>1. CASE NewStreet(t, u)
  BY <1>1 DEF NewStreet, Untouched
<1>2. CASE u.seat = t.seat /\ u.bet = t.bet
  <2>1. Active(u) = Active(t)
    BY <1>2 DEF Active
  <2> QED
    BY <1>2, <2>1 DEF Untouched
<1> QED
  BY <1>1, <1>2, ProceedReady

(* The clock leaves somebody to act.                                       *)
LEMMA CheckTimeoutReady ==
  ASSUME NEW t, TableOK(t), t.live, Ready(t), NEW u \in CheckTimeout(t)
  PROVE  /\ TableOK(u) /\ (u.live => Ready(u)) /\ Untouched(t, u)
<1>1. CASE u = t
  BY <1>1 DEF Untouched
<1>2. CASE u # t
  <2> DEFINE s == Current(t)
  <2>1. s \in Unacted(t)
    BY <1>2, CheckTimeoutIs
  <2>2. PICK w : /\ Turned(t, s, w) /\ u \in Proceed(w) /\ w.bet = t.bet
                 /\ PutsIn(t.seat[s], w.seat[s], 0)
                 /\ t.seat[s].chips > 0 => Folds(t, s, w) \/ Stays(t, s, w)
    BY <1>2, CheckTimeoutIs
  <2> HIDE DEF s
  <2>3. s \in Active(t) /\ s \in Seats /\ w.bet \in Nat /\ t.seat[s] \in SeatRec
    BY <2>1, <2>2 DEF Unacted, Active, TableOK, TableRec, Turned
  <2>4. w.bet >= t.bet
    BY <2>2, <2>3
  <2>5. Steady(w) /\ TableOK(w) /\ w.live
    BY <2>2, <2>3, <2>4, TurnSteady DEF Ready, Turned, SameHand
  <2>6. Moves(t, s, w) /\ SeatSteady(t.seat[s], t.bet) /\ t.bet \in Nat
    BY <2>2, <2>3 DEF Ready, Steady, SeatSteady, Turned, Active, TableOK, TableRec
  <2>7. ASSUME NEW v \in Active(w)
        PROVE  /\ v \in Active(t)
               /\ w.seat[v].id = t.seat[v].id /\ w.seat[v].bet = t.seat[v].bet
               /\ w.seat[v].chips = t.seat[v].chips
    <3>1. v \in Active(t) /\ v \in Seats
      BY <2>3, <2>6, MovesInHand DEF Active
    <3>2. CASE v = s
      <4>1. /\ w.seat[s].id = t.seat[s].id /\ w.seat[s].bet = t.seat[s].bet + 0
            /\ w.seat[s].chips = t.seat[s].chips - 0
        BY <2>2 DEF PutsIn
      <4>2. t.seat[s].bet \in Nat /\ t.seat[s].chips \in Nat
        BY <2>3 DEF SeatRec
      <4> QED
        BY <3>1, <3>2, <4>1, <4>2
    <3>3. CASE v # s
      BY <2>3, <2>6, <3>1, <3>3, MovesOthers
    <3> QED
      BY <3>2, <3>3
  <2>8. Untouched(t, u)
    BY <2>2, <2>5, <2>7, ProceedUntouched
  <2> QED
    BY <2>2, <2>5, <2>8, ProceedReady
<1> QED
  BY <1>1, <1>2

(* So does a fold out of turn.                                             *)
LEMMA FoldsAllReady ==
  ASSUME NEW t, TableOK(t), t.live, Ready(t), NEW S \in SUBSET Active(t), NEW w,
         FoldsAll(t, S, w), NEW u \in Proceed(w)
  PROVE  /\ TableOK(u) /\ (u.live => Ready(u)) /\ Untouched(t, u)
<1>1. Steady(w) /\ TableOK(w) /\ w.live /\ w.bet = t.bet
  BY FoldsAllSteady DEF Ready, FoldsAll
<1>2. ASSUME NEW v \in Active(w) PROVE v \in Active(t) /\ w.seat[v] = t.seat[v]
  <2>1. v \notin S
    BY DEF FoldsAll, Active
  <2> QED
    BY <2>1 DEF FoldsAll, Active
<1>3. Untouched(t, u)
  BY <1>1, <1>2, ProceedUntouched
<1> QED
  BY <1>1, <1>3, ProceedReady

(* So does an action its sender can pay for.                               *)
LEMMA RespondReady ==
  ASSUME NEW t, TableOK(t), t.live, Ready(t), NEW p, NEW a \in Bids, NEW u \in Respond(t, p, a),
         \A s \in Active(t) : t.seat[s].id = p => Covered(t, s, a)
  PROVE  TableOK(u) /\ (u.live => Ready(u))
<1>1. CASE u = t
  BY <1>1
<1>2. CASE u # t
  <2> DEFINE s == Current(t)
  <2> DEFINE w == Apply(t, s, a)
  <2>1. /\ s \in Unacted(t) /\ t.seat[s].id = p /\ Turned(t, s, w) /\ u \in Proceed(w)
        /\ t.seat[s].chips > 0 /\ Covered(t, s, a) => w.bet >= t.bet
    BY <1>2, RespondIs
  <2> HIDE DEF s, w
  <2>2. s \in Active(t) /\ s \in Seats /\ t.seat[s].state = "playing"
    BY <2>1 DEF Unacted, Active
  <2>3. t.seat[s].chips > 0
    BY <2>2 DEF Ready, Steady, SeatSteady
  <2>4. w.bet >= t.bet
    BY <2>1, <2>2, <2>3
  <2>5. Steady(w) /\ TableOK(w) /\ w.live
    BY <2>1, <2>2, <2>4, TurnSteady DEF Ready, Turned, SameHand
  <2> QED
    BY <2>1, <2>5, ProceedReady
<1> QED
  BY <1>1, <1>2

(* A hand whose players all can cover their blinds.                        *)
LEMMA FreshDeal ==
  ASSUME NEW t, TableOK(t), MayStart(t), CanCover(t)
  PROVE  LET d == Deal(t) IN
         /\ TableOK(d) /\ d.live /\ d.phase = "preflop" /\ d.dealer = Positions(t).dealer
         /\ d.bet = BigBlind /\ d.raise = BigBlind /\ d.bank = t.bank /\ d.gone = t.gone
         /\ d.action = t.action /\ Cardinality(Taken(t)) >= 2
         /\ Active(d) = Taken(t) /\ InHand(d) = Taken(t) /\ Unacted(d) = Taken(t)
         /\ Taken(d) = Taken(t)
         /\ \A s \in Seats :
              /\ Blind(t, s) \in Nat /\ d.seat[s].bet = Blind(t, s) /\ d.seat[s].in = Blind(t, s)
              /\ d.seat[s].chips = t.seat[s].chips - Blind(t, s)
              /\ d.seat[s].id = t.seat[s].id /\ d.seat[s].leaving = t.seat[s].leaving
              /\ s \in Taken(t) => d.seat[s].chips > 0 /\ d.seat[s].cards
              /\ s \notin Taken(t) => d.seat[s].state = "empty" /\ Blind(t, s) = 0
         /\ Steady(d)
<1> DEFINE d == Deal(t)
<1> DEFINE pos == Positions(t)
<1>1. t \in TableRec /\ Cardinality(Taken(t)) >= 2 /\ t.hand < MaxHands
  BY EnoughTaken DEF TableOK
<1>2. /\ d.live /\ d.phase = "preflop" /\ d.dealer = pos.dealer /\ d.raise = BigBlind
      /\ d.bet = d.seat[pos.bb].bet /\ d.action = t.action /\ d.gone = t.gone
      /\ d.bank = t.bank
      /\ \A s \in Seats : DealtIn(t.seat[s], d.seat[s], Blind(t, s))
  BY <1>1, DealIs
<1>3. TableOK(d) /\ Active(d) = Taken(t)
  BY DealOK
<1>4. /\ pos.sb \in Taken(t) /\ pos.bb \in Taken(t) /\ pos.sb # pos.bb /\ Taken(t) \subseteq Seats
  BY <1>1, PositionsAre DEF Taken
<1>5. SmallBlind \in Nat /\ BigBlind \in Nat /\ SmallBlind > 0 /\ SmallBlind <= BigBlind
  BY TableAssumption
<1>6. \A s \in Taken(t) : t.seat[s].chips > 0
  BY DEF CanCover
<1> HIDE DEF d
<1>7. ASSUME NEW s \in Seats
      PROVE  /\ Blind(t, s) \in Nat /\ Blind(t, s) <= BigBlind
             /\ d.seat[s].bet = Blind(t, s) /\ d.seat[s].in = Blind(t, s)
             /\ d.seat[s].chips = t.seat[s].chips - Blind(t, s)
             /\ d.seat[s].id = t.seat[s].id /\ d.seat[s].leaving = t.seat[s].leaving
             /\ s \in Taken(t) => d.seat[s].chips > 0 /\ d.seat[s].cards
             /\ s \notin Taken(t) => d.seat[s].state = "empty" /\ Blind(t, s) = 0
             /\ ~d.seat[s].acted /\ d.seat[s].state \in {"empty", "playing"}
             /\ d.seat[s].state = "playing" => s \in Taken(t)
             /\ s \in Taken(t) => d.seat[s].state = "playing"
  <2> DEFINE b == Blind(t, s)
  <2> DEFINE n == t.seat[s].chips
  <2> DEFINE m == Lesser(b, n)
  <2>1. b \in Nat /\ b <= BigBlind /\ (s \notin Taken(t) => b = 0)
    BY <1>4, <1>5 DEF Blind, pos
  <2>2. n \in Nat /\ (s \in Taken(t) => n > 0)
    BY <1>1, <1>6 DEF TableRec, SeatRec
  <2> HIDE DEF b, n
  <2>3. /\ d.seat[s].id = t.seat[s].id /\ d.seat[s].leaving = t.seat[s].leaving
        /\ ~d.seat[s].acted /\ d.seat[s].chips = n - m /\ d.seat[s].bet = m /\ d.seat[s].in = m
        /\ d.seat[s].state = IF t.seat[s].state = "empty" THEN "empty"
                             ELSE IF m > 0 /\ m = n THEN "allin" ELSE "playing"
        /\ d.seat[s].cards <=> d.seat[s].state = "playing"
    BY <1>2 DEF DealtIn, b, n
  <2>4. s \in Taken(t) => d.seat[s].state = "playing"
    BY <1>3 DEF Active
  <2>5. s \notin Taken(t) => d.seat[s].state = "empty" /\ m = b
    <3>1. s \notin Taken(t) => t.seat[s].state = "empty"
      BY DEF Taken
    <3> QED
      BY <2>1, <2>2, <2>3, <3>1 DEF Lesser
  <2>6. s \in Taken(t) => m = b /\ n - m > 0
    <3>1. s \in Taken(t) => ~(m > 0 /\ m = n)
      BY <2>3, <2>4
    <3> QED
      BY <2>1, <2>2, <3>1 DEF Lesser
  <2>7. m = b
    BY <2>5, <2>6
  <2> HIDE DEF m
  <2> QED
    BY <2>1, <2>3, <2>4, <2>5, <2>6, <2>7 DEF b, n
<1>8. Blind(t, pos.bb) = BigBlind
  BY <1>4 DEF Blind, pos
<1>9. d.bet = BigBlind
  BY <1>2, <1>4, <1>7, <1>8
<1>10. Active(d) = Taken(t) /\ InHand(d) = Taken(t) /\ Unacted(d) = Taken(t) /\ Taken(d) = Taken(t)
  <2>1. \A s \in Seats : d.seat[s].state = "playing" <=> s \in Taken(t)
    BY <1>7
  <2>2. \A s \in Seats : d.seat[s].state # "empty" <=> s \in Taken(t)
    BY <1>7
  <2>3. \A s \in Seats : d.seat[s].state # "allin" /\ ~d.seat[s].acted
    BY <1>7
  <2>4. InHand(d) = Taken(t)
    BY <1>4, <2>1, <2>3 DEF InHand
  <2>5. Unacted(d) = Taken(t)
    BY <1>3, <1>4, <2>3 DEF Unacted
  <2>6. Taken(d) = Taken(t)
    BY <1>4, <2>2 DEF Taken
  <2> QED
    BY <1>3, <2>4, <2>5, <2>6
<1>11. Steady(d)
  <2>1. ASSUME NEW s \in Seats PROVE SeatSteady(d.seat[s], d.bet) /\ Before(d.seat[s]) = 0
    <3>1. d.seat[s].bet <= BigBlind /\ Before(d.seat[s]) = 0
      BY <1>7 DEF Before
    <3>2. d.seat[s].state # "sitting" /\ ~d.seat[s].acted
          /\ (d.seat[s].state = "playing" => d.seat[s].chips > 0)
      BY <1>7
    <3> QED
      BY <1>9, <3>1, <3>2 DEF SeatSteady
  <2>2. Matched(d)
    <3>1. \A s \in Active(d) : Before(d.seat[s]) = 0
      BY <2>1 DEF Active
    <3>2. \A s \in InHand(d) : Before(d.seat[s]) = 0
      BY <2>1 DEF InHand
    <3> QED
      BY <3>1, <3>2 DEF Matched
  <2> QED
    BY <2>1, <2>2 DEF Steady
<1> QED
  BY <1>1, <1>2, <1>3, <1>7, <1>9, <1>10, <1>11 DEF d, pos

(* And so does the start of a hand.                                        *)
LEMMA StartHandReady ==
  ASSUME "short" \notin Events, TableOK(table), StartHand
  PROVE  /\ TableOK(table') /\ (table'.live => Ready(table'))
         /\ table' = OpenRound(Deal(table))
<1> DEFINE d == Deal(table)
<1>1. /\ MayStart(table) /\ CanCover(table)
      /\ table' \in IF Cardinality(Active(d)) <= 1 THEN DoShowdown(d) ELSE {OpenRound(d)}
  BY DEF StartHand
<1>2. /\ TableOK(d) /\ Steady(d) /\ Cardinality(Taken(table)) >= 2
      /\ Active(d) = Taken(table) /\ Unacted(d) = Taken(table)
  BY <1>1, FreshDeal
<1> HIDE DEF d
<1>3. Active(d) # {} /\ ~(Cardinality(Active(d)) <= 1)
  <2>1. Taken(table) \in SUBSET Seats
    BY DEF Taken
  <2>2. Cardinality(Taken(table)) \in Nat
    BY <2>1, TwoAtLeast
  <2> QED
    BY <1>2, <2>2, FS_EmptySet
<1>4. table' = OpenRound(d)
  BY <1>1, <1>3
<1>5. TableOK(table') /\ table'.seat = d.seat /\ table'.bet = d.bet /\ table'.action \in Unacted(d)
  <2> DEFINE u == OpenRound(d)
  <2>1. TableOK(u) /\ u.seat = d.seat /\ u.bet = d.bet /\ u.action \in Unacted(d)
    BY <1>2, <1>3, OpenRoundIs
  <2> HIDE DEF u
  <2> QED
    BY <1>4, <2>1 DEF u
<1>6. Ready(table')
  BY <1>2, <1>5 DEF Ready, Steady, SeatSteady, Matched, Unacted, Active, InHand
<1> QED
  BY <1>4, <1>5, <1>6 DEF d

(* A message with the clock, the grace period and the action.              *)
LEMMA ProcessActionReady ==
  ASSUME "overraise" \notin Events, TableOK(table), table.live => Ready(table),
         NEW p, NEW a \in Bids, NEW late \in BOOLEAN, NEW lapsed,
         ProcessAction(p, a, late, lapsed)
  PROVE  TableOK(table') /\ (table'.live => Ready(table'))
<1>1. table.live /\ Ready(table)
  BY ProcessActionIs
<1>2. PICK t1, t2 :
        /\ t1 = table \/ t1 \in CheckTimeout(table)
        /\ t2 = t1 \/ (t1.live /\ \E q \in lapsed : t2 \in Lapse(t1, q))
        /\ table' = t2 \/ (t2.live /\ table' \in Respond(t2, p, a))
  BY ProcessActionIs
<1>3. a.type = "raise" => \A s \in SeatOf(table, p) : a.amount <= table.seat[s].bet + table.seat[s].chips
  BY DEF ProcessAction
<1>4. TableOK(t1) /\ (t1.live => Ready(t1)) /\ Untouched(table, t1)
  <2>1. CASE t1 = table
    BY <1>1, <2>1 DEF Untouched
  <2>2. CASE t1 \in CheckTimeout(table)
    BY <1>1, <2>2, CheckTimeoutReady
  <2> QED
    BY <1>2, <2>1, <2>2
<1>5. TableOK(t2) /\ (t2.live => Ready(t2)) /\ (t2 = t1 \/ (t1.live /\ Untouched(t1, t2)))
  <2>1. CASE t2 = t1
    BY <1>4, <2>1
  <2>2. CASE t2 # t1
    <3>1. PICK q \in lapsed : t1.live /\ t2 \in Lapse(t1, q)
      BY <1>2, <2>2
    <3>2. PICK S, w : S \in SUBSET Active(t1) /\ FoldsAll(t1, S, w) /\ t2 \in Proceed(w)
      BY <1>4, <3>1, LapseIs
    <3> QED
      BY <1>4, <3>1, <3>2, FoldsAllReady
  <2> QED
    BY <2>1, <2>2
<1>6. CASE table' # t2
  <2>1. t2.live /\ table' \in Respond(t2, p, a) /\ Ready(t2)
    BY <1>2, <1>5, <1>6
  <2>2. t1.live
    BY <1>5, <2>1
  <2>3. Untouched(table, t2)
    BY <1>4, <1>5, <2>1, <2>2 DEF Untouched
  <2>4. ASSUME NEW s \in Active(t2), t2.seat[s].id = p PROVE Covered(t2, s, a)
    <3>1. t2.bet = 0 \/ (/\ s \in Active(table) /\ table.seat[s].id = p
                         /\ t2.seat[s].chips = table.seat[s].chips
                         /\ t2.seat[s].bet = table.seat[s].bet)
      BY <2>1, <2>3, <2>4 DEF Untouched
    <3>2. s \in Active(table) /\ table.seat[s].id = p => s \in SeatOf(table, p)
      BY DEF Active, SeatOf, Taken
    <3> QED
      BY <1>3, <3>1, <3>2 DEF Covered
  <2> QED
    BY <1>5, <2>1, <2>4, RespondReady
<1> QED
  BY <1>5, <1>6

(* A seat that is not in the hand is given up.                             *)
LEMMA LeavesReady ==
  ASSUME NEW t, TableOK(t), t.live => Ready(t), NEW s \in Seats, NEW u, Leaves(t, s, u),
         t.live => s \notin InHand(t)
  PROVE  TableOK(u) /\ (u.live => Ready(u))
<1> SUFFICES ASSUME u.live PROVE TableOK(u) /\ Ready(u)
  BY DEF Leaves
<1>1. /\ TableOK(u) /\ t.live /\ Ready(t) /\ u.bet = t.bet /\ u.action = t.action
      /\ u.seat[s].state = "empty" /\ u.seat[s].bet = 0
      /\ \A v \in Seats \ {s} : u.seat[v] = t.seat[v]
  BY DEF Leaves, OthersSame
<1>2. Active(u) = Active(t) /\ InHand(u) = InHand(t) /\ Unacted(u) = Unacted(t) /\ s \notin InHand(t)
  BY <1>1 DEF Active, InHand, Unacted
<1>3. \A v \in InHand(t) : u.seat[v] = t.seat[v]
  BY <1>1, <1>2 DEF InHand
<1>4. Matched(u)
  <2>1. InHand(u) \subseteq InHand(t) /\ Active(u) \subseteq Active(t)
    BY <1>2
  <2>2. \A v \in InHand(u) : Before(u.seat[v]) = Before(t.seat[v])
    BY <1>2, <1>3
  <2> QED
    BY <1>1, <2>1, <2>2, MatchedKept DEF Ready, Steady
<1>5. \A v \in Seats : SeatSteady(u.seat[v], u.bet)
  <2>1. t.bet \in Nat
    BY DEF TableOK, TableRec
  <2>2. SeatSteady(u.seat[s], u.bet)
    BY <1>1, <2>1 DEF SeatSteady
  <2> QED
    BY <1>1, <2>2 DEF Ready, Steady
<1> QED
  BY <1>1, <1>2, <1>4, <1>5 DEF Ready, Steady

(* A lost connection.                                                      *)
LEMMA DisconnectReady ==
  ASSUME TableOK(table), table.live => Ready(table), NEW p \in Players, Disconnect(p)
  PROVE  TableOK(table') /\ (table'.live => Ready(table'))
<1>1. PICK s \in SeatOf(table, p) :
        \/ FoldsAll(table, {}, table')
        \/ s \notin InHand(table) /\ Leaves(table, s, table')
  BY DisconnectIs
<1>2. CASE FoldsAll(table, {}, table')
  <2>1. /\ TableOK(table') /\ table'.bet = table.bet /\ table'.live = table.live
        /\ table'.action = table.action /\ \A v \in Seats : table'.seat[v] = table.seat[v]
    BY <1>2 DEF FoldsAll
  <2>2. /\ Active(table') = Active(table) /\ InHand(table') = InHand(table)
        /\ Unacted(table') = Unacted(table)
    BY <2>1 DEF Active, InHand, Unacted
  <2>3. Matched(table) => Matched(table')
    <3>1. \A v \in InHand(table') : Before(table'.seat[v]) = Before(table.seat[v])
      BY <2>1 DEF InHand
    <3> QED
      BY <2>2, <3>1, MatchedKept
  <2> QED
    BY <2>1, <2>2, <2>3 DEF Ready, Steady
<1>3. CASE s \notin InHand(table) /\ Leaves(table, s, table')
  <2>1. s \in Seats
    BY DEF SeatOf, Taken
  <2> QED
    BY <1>3, <2>1, LeavesReady
<1> QED
  BY <1>1, <1>2, <1>3

(* A cash-out.                                                             *)
LEMMA RequestCashOutReady ==
  ASSUME TableOK(table), table.live => Ready(table), NEW p \in Players, RequestCashOut(p)
  PROVE  TableOK(table') /\ (table'.live => Ready(table'))
<1>1. PICK s \in SeatOf(table, p) :
        \/ /\ table.live /\ s \in Active(table)
           /\ \E w : FoldsAll(table, {s}, w) /\ table' \in Proceed(w)
        \/ /\ table.live /\ s \in InHand(table) \ Active(table)
           /\ TableOK(table') /\ OthersSame(table, s, table')
           /\ PutsIn(table.seat[s], table'.seat[s], 0)
           /\ table'.seat[s].state = table.seat[s].state
           /\ table'.seat[s].acted = table.seat[s].acted
           /\ SameHand(table, table') /\ table'.bet = table.bet
        \/ /\ table.live => s \notin InHand(table)
           /\ Leaves(table, s, table')
  BY RequestCashOutIs
<1>2. s \in Seats /\ table.seat[s] \in SeatRec
  BY DEF SeatOf, Taken, TableOK, TableRec
<1>3. ASSUME table.live, s \in Active(table), NEW w, FoldsAll(table, {s}, w), table' \in Proceed(w)
      PROVE  TableOK(table') /\ (table'.live => Ready(table'))
  <2>1. {s} \in SUBSET Active(table)
    BY <1>3
  <2> QED
    BY <1>3, <2>1, FoldsAllReady
<1>4. CASE /\ table.live /\ TableOK(table') /\ OthersSame(table, s, table')
           /\ PutsIn(table.seat[s], table'.seat[s], 0)
           /\ table'.seat[s].state = table.seat[s].state
           /\ table'.seat[s].acted = table.seat[s].acted
           /\ SameHand(table, table') /\ table'.bet = table.bet
  <2>1. /\ table'.seat[s].chips = table.seat[s].chips /\ table'.seat[s].bet = table.seat[s].bet
        /\ table'.seat[s].in = table.seat[s].in
    <3>1. /\ table.seat[s].chips \in Nat /\ table.seat[s].bet \in Nat /\ table.seat[s].in \in Nat
      BY <1>2 DEF SeatRec
    <3> QED
      BY <1>4, <3>1 DEF PutsIn
  <2>2. \A v \in Seats \ {s} : table'.seat[v] = table.seat[v]
    BY <1>4 DEF OthersSame
  <2>3. \A v \in Seats : /\ table'.seat[v].state = table.seat[v].state
                         /\ table'.seat[v].chips = table.seat[v].chips
                         /\ table'.seat[v].bet = table.seat[v].bet
                         /\ table'.seat[v].in = table.seat[v].in
                         /\ table'.seat[v].acted = table.seat[v].acted
    BY <1>4, <2>1, <2>2
  <2>4. /\ Active(table') = Active(table) /\ InHand(table') = InHand(table)
        /\ Unacted(table') = Unacted(table)
    BY <2>3 DEF Active, InHand, Unacted
  <2>5. Matched(table) => Matched(table')
    <3>1. \A v \in InHand(table') : Before(table'.seat[v]) = Before(table.seat[v])
      BY <2>3 DEF InHand, Before
    <3> QED
      BY <2>4, <3>1, MatchedKept
  <2> QED
    BY <1>4, <2>3, <2>4, <2>5 DEF Ready, Steady, SeatSteady, SameHand
<1>5. CASE (table.live => s \notin InHand(table)) /\ Leaves(table, s, table')
  BY <1>2, <1>5, LeavesReady
<1> QED
  BY <1>1, <1>3, <1>4, <1>5

(* What every table is if nobody starts a hand he cannot pay the blind of, *)
(* asks for a raise he does not have, or joins a hand in progress.         *)
LEMMA NextReady ==
  ASSUME {"short", "overraise", "join"} \cap Events = {}, TableOK(table),
         table.live => Ready(table), [Next]_vars
  PROVE  TableOK(table') /\ (table'.live => Ready(table'))
<1>0. "short" \notin Events /\ "overraise" \notin Events /\ "join" \notin Events
  OBVIOUS
<1>1. CASE StartHand
  BY <1>0, <1>1, StartHandReady
<1>2. ASSUME NEW p \in Players, NEW a \in Bids, NEW late \in BOOLEAN, NEW lapsed,
             ProcessAction(p, a, late, lapsed)
      PROVE  TableOK(table') /\ (table'.live => Ready(table'))
  BY <1>0, <1>2, ProcessActionReady
<1>3. ASSUME NEW p \in Players, NEW s \in Seats, JoinTable(p, s)
      PROVE  TableOK(table') /\ (table'.live => Ready(table'))
  <2>1. TableOK(table') /\ ~table.live /\ table'.live = table.live
    BY <1>0, <1>3, JoinTableIs
  <2> QED
    BY <2>1
<1>4. ASSUME NEW p \in Players, Disconnect(p)
      PROVE  TableOK(table') /\ (table'.live => Ready(table'))
  BY <1>4, DisconnectReady
<1>5. ASSUME NEW p \in Players, RequestCashOut(p)
      PROVE  TableOK(table') /\ (table'.live => Ready(table'))
  BY <1>5, RequestCashOutReady
<1>6. CASE UNCHANGED table
  BY <1>6
<1> QED
  BY <1>1, <1>2, <1>3, <1>4, <1>5, <1>6 DEF Next, Reconnect, vars

(* While a hand goes on, the seat to act is one that still has to act, and *)
(* the round is steady. Assumes that every hand dealt is one the players   *)
(* can cover, that nobody raises more than he has, and that nobody joins   *)
(* inside a hand.                                                          *)
THEOREM TableReady ==
  ASSUME {"short", "overraise", "join"} \cap Events = {}
  PROVE  Spec => [](TableOK(table) /\ (table.live => Ready(table)))
<1> DEFINE Inv == TableOK(table) /\ (table.live => Ready(table))
<1>1. Init => Inv
  BY InitIs
<1>2. Inv /\ [Next]_vars => Inv'
  BY NextReady
<1> QED
  BY <1>1, <1>2, PTL DEF Spec

(* Whatever is folded, called, raised, shoved or timed out, and whoever    *)
(* disconnects or cashes out meanwhile: as long as the hand goes on, there *)
(* is somebody to act (GetCurrentPlayer), so it is never stranded.  Not so *)
(* if a raise may exceed its sender's stack (MCGameStateOverraise), a hand *)
(* start with a player who is all-in by his blind, or a player sit down    *)
(* while it is played.                                                     *)
THEOREM TableSomebodyToAct ==
  ASSUME {"short", "overraise", "join"} \cap Events = {}
  PROVE  Spec => []SomebodyToAct
<1>1. TableOK(table) /\ (table.live => Ready(table)) => SomebodyToAct
  <2> SUFFICES ASSUME TableOK(table), table.live, Ready(table) PROVE Current(table) # NoSeat
    BY DEF SomebodyToAct
  <2>1. table.action \in Unacted(table) /\ table.action \in Seats
    BY DEF Ready, Unacted, Active
  <2> QED
    BY <2>1, SeatNumbers DEF Current
<1> QED
  BY <1>1, TableReady, PTL

(* The same for the bets of the streets before this one: who can still act *)
(* put the same in, and nobody put in more (IsBettingRoundComplete lets no *)
(* unmatched bet through).                                                 *)
THEOREM TableStreetsMatched ==
  ASSUME {"short", "overraise", "join"} \cap Events = {}
  PROVE  Spec => []StreetsMatched
<1>1. TableOK(table) /\ (table.live => Ready(table)) => StreetsMatched
  BY DEF Ready, Steady, Matched, Before, StreetsMatched
<1> QED
  BY <1>1, TableReady, PTL

-----------------------------------------------------------------------------
(* The turn goes round.  What happened to the table t while it was played  *)
(* on to u: a later street has begun, the bet has been raised, or the turn *)
(* is at the next seat, counted from t's, of those still to act.           *)
Later == Follows \cup {<<"preflop", "turn">>, <<"preflop", "river">>, <<"flop", "river">>}

Clockwise(t, u) ==
  u.live =>
    \/ <<t.phase, u.phase>> \in Later
    \/ u.phase = t.phase /\ u.bet > t.bet
    \/ /\ u.phase = t.phase /\ u.bet = t.bet
       /\ \A v \in Unacted(u) : Distance(t.action, u.action) <= Distance(t.action, v)

(* And nobody has been asked again.                                        *)
Passed(t, u) ==
  u.live =>
    \/ <<t.phase, u.phase>> \in Later
    \/ u.phase = t.phase /\ u.bet > t.bet
    \/ /\ u.phase = t.phase /\ u.bet = t.bet /\ Unacted(u) \subseteq Unacted(t)
       /\ \A v \in Unacted(u) : Distance(t.action, u.action) <= Distance(t.action, v)

(* The turn has not moved, and nobody is to act again.                     *)
LEMMA PassedNot ==
  ASSUME NEW t, TableOK(t), NEW u, u.phase = t.phase, u.bet = t.bet, u.action = t.action,
         Unacted(u) \subseteq Unacted(t)
  PROVE  Passed(t, u)
<1>1. t.action \in Seats /\ Unacted(u) \subseteq Seats
  BY DEF TableOK, TableRec, Unacted, Active
<1>2. t.action \in 0 .. NumSeats
  BY <1>1, SeatAfter
<1>3. Distance(t.action, t.action) = 0 /\ \A v \in Unacted(u) : Distance(t.action, v) \in 0 .. NumSeats - 1
  BY <1>1, <1>2, DistanceNat
<1>4. \A v \in Unacted(u) : 0 <= Distance(t.action, v)
  BY <1>3, SeatNumbers
<1> QED
  BY <1>3, <1>4 DEF Passed

(* The turn has been passed on twice.                                      *)
LEMMA PassedTwice ==
  ASSUME NEW t, TableOK(t), NEW u, TableOK(u), u.live, Ready(u), NEW w, TableOK(w),
         w.live => Ready(w), Passed(t, u), Passed(u, w)
  PROVE  Passed(t, w)
<1> SUFFICES ASSUME w.live PROVE Passed(t, w)
  BY DEF Passed
<1>1. t.bet \in Nat /\ u.bet \in Nat /\ w.bet \in Nat
      /\ t.action \in Seats /\ u.action \in Seats /\ w.action \in Seats
  BY DEF TableOK, TableRec
<1>2. CASE <<t.phase, u.phase>> \in Later
  <2>1. <<t.phase, w.phase>> \in Later
    BY <1>2 DEF Passed, Later, Follows
  <2> QED
    BY <2>1 DEF Passed
<1>3. CASE <<u.phase, w.phase>> \in Later
  <2>1. <<t.phase, w.phase>> \in Later
    BY <1>3 DEF Passed, Later, Follows
  <2> QED
    BY <2>1 DEF Passed
<1>4. CASE ~(<<t.phase, u.phase>> \in Later) /\ ~(<<u.phase, w.phase>> \in Later)
  <2>1. t.phase = u.phase /\ u.phase = w.phase /\ u.bet >= t.bet /\ w.bet >= u.bet
    BY <1>1, <1>4 DEF Passed
  <2>2. CASE w.bet > t.bet
    BY <2>1, <2>2 DEF Passed
  <2>3. CASE ~(w.bet > t.bet)
    <3>1. t.bet = u.bet /\ u.bet = w.bet
      BY <1>1, <2>1, <2>3
    <3>2. /\ Unacted(u) \subseteq Unacted(t) /\ Unacted(w) \subseteq Unacted(u)
          /\ \A v \in Unacted(u) : Distance(t.action, u.action) <= Distance(t.action, v)
          /\ \A v \in Unacted(w) : Distance(u.action, w.action) <= Distance(u.action, v)
      BY <1>1, <1>4, <3>1 DEF Passed
    <3>3. w.action \in Unacted(w) /\ Unacted(w) \subseteq Seats
      BY DEF Ready, Unacted, Active
    <3>4. t.action \in 0 .. NumSeats /\ u.action \in 0 .. NumSeats
      BY <1>1, SeatAfter
    <3>5. ASSUME NEW v \in Unacted(w)
          PROVE  Distance(t.action, v) = Distance(t.action, u.action) + Distance(u.action, v)
      <4>1. v \in Seats /\ Distance(t.action, u.action) <= Distance(t.action, v)
        BY <3>2, <3>3
      <4> QED
        BY <1>1, <3>4, <4>1, DistanceAdds
    <3>6. ASSUME NEW v \in Unacted(w)
          PROVE  Distance(t.action, w.action) <= Distance(t.action, v)
      <4>1. /\ Distance(t.action, v) = Distance(t.action, u.action) + Distance(u.action, v)
            /\ Distance(t.action, w.action) = Distance(t.action, u.action) + Distance(u.action, w.action)
            /\ Distance(u.action, w.action) <= Distance(u.action, v)
        BY <3>2, <3>3, <3>5
      <4>2. /\ Distance(t.action, u.action) \in 0 .. NumSeats - 1
            /\ Distance(u.action, w.action) \in 0 .. NumSeats - 1
            /\ Distance(u.action, v) \in 0 .. NumSeats - 1
        BY <1>1, <3>3, <3>4, DistanceNat
      <4> QED
        BY <4>1, <4>2, SeatNumbers
    <3> QED
      BY <2>1, <3>1, <3>2, <3>6 DEF Passed
  <2> QED
    BY <2>2, <2>3
<1> QED
  BY <1>2, <1>3, <1>4

(* A turn, and what follows it.                                            *)
LEMMA TurnPasses ==
  ASSUME NEW t, TableOK(t), t.live, Ready(t), NEW w, Turned(t, t.action, w), w.bet >= t.bet,
         NEW u \in Proceed(w)
  PROVE  /\ TableOK(u) /\ u.gone = t.gone /\ (u.live => Ready(u))
         /\ Clockwise(t, u)
         /\ (~Folds(t, t.action, w) /\ ~Stays(t, t.action, w) => w.bet > t.bet)
              => Passed(t, u)
<1> DEFINE s == t.action
<1>1. /\ s \in Active(t) /\ s \in Unacted(t) /\ s \in Seats /\ t.bet \in Nat /\ w.bet \in Nat
      /\ Steady(t) /\ SeatSteady(t.seat[s], t.bet) /\ t.seat[s].chips > 0
  BY DEF Ready, Steady, SeatSteady, Unacted, Active, TableOK, TableRec, Turned
<1>2. TableOK(w) /\ SameHand(t, w) /\ Moves(t, s, w)
  BY <1>1 DEF Turned
<1>3. Steady(w) /\ w.live /\ w.action = s /\ w.phase = t.phase /\ w.gone = t.gone
  BY <1>1, <1>2, TurnSteady DEF SameHand
<1>4. /\ TableOK(u)
      /\ u.live => /\ Ready(u)
                   /\ \/ NewStreet(w, u)
                      \/ /\ u.seat = w.seat /\ u.bet = w.bet /\ u.phase = w.phase
                         /\ Unacted(w) # {} /\ u.action = FirstFrom(w.action + 1, Unacted(w))
  BY <1>2, <1>3, ProceedReady
<1>5. u.gone = t.gone
  <2>1. \/ u \in DoShowdown(w)
        \/ NewStreet(w, u)
        \/ u.gone = w.gone
    BY <1>2, <1>3, ProceedIs
  <2>2. Sitting(w) = {}
    BY <1>3 DEF Sitting, Steady, SeatSteady
  <2>3. u \in DoShowdown(w) => u.gone = w.gone
    BY <1>2, <2>2, DoShowdownIs DEF Ended
  <2> QED
    BY <1>3, <2>1, <2>3 DEF NewStreet
<1>6. ASSUME u.live
      PROVE  /\ Clockwise(t, u)
             /\ (~Folds(t, s, w) /\ ~Stays(t, s, w) => w.bet > t.bet) => Passed(t, u)
  <2>1. CASE NewStreet(w, u)
    BY <1>3, <2>1 DEF NewStreet, Passed, Clockwise, Later
  <2>2. CASE w.bet > t.bet /\ ~NewStreet(w, u)
    BY <1>3, <1>4, <1>6, <2>2 DEF Passed, Clockwise
  <2>3. CASE ~(w.bet > t.bet) /\ ~NewStreet(w, u)
    <3>1. w.bet = t.bet
      BY <1>1, <2>3
    <3>3. s \notin Unacted(w)
      BY <1>1, <1>2, MovesInHand
    <3>4. (~Folds(t, s, w) /\ ~Stays(t, s, w) => w.bet > t.bet)
            => Unacted(w) = Unacted(t) \ {s}
      <4> SUFFICES ASSUME Folds(t, s, w) \/ Stays(t, s, w) PROVE Unacted(w) = Unacted(t) \ {s}
        BY <2>3
      <4>1. OthersSame(t, s, w)
        BY DEF Folds, Stays
      <4> QED
        BY <1>1, <3>3, <4>1 DEF OthersSame, Unacted, Active
    <3>5. /\ u.seat = w.seat /\ u.bet = w.bet /\ u.phase = w.phase
          /\ Unacted(w) # {} /\ u.action = FirstFrom(s + 1, Unacted(w))
      BY <1>3, <1>4, <1>6, <2>3
    <3>6. Unacted(u) = Unacted(w) /\ Unacted(w) \in SUBSET Seats
      BY <3>5 DEF Unacted, Active
    <3>7. s + 1 \in 0 .. NumSeats
      BY <1>1, SeatAfter
    <3>8. /\ u.action \in Unacted(w)
          /\ \A v \in Unacted(w) : Distance(s + 1, u.action) <= Distance(s + 1, v)
      BY <3>5, <3>6, <3>7, FirstFromIn
    <3>9. ASSUME NEW v \in Unacted(w)
          PROVE  Distance(s, v) = Distance(s + 1, v) + 1 /\ Distance(s + 1, v) \in 0 .. NumSeats - 1
      <4>1. v \in Seats /\ v # s
        BY <3>3, <3>6
      <4> QED
        BY <1>1, <3>7, <4>1, NextDistance, DistanceNat
    <3>10. ASSUME NEW v \in Unacted(w) PROVE Distance(s, u.action) <= Distance(s, v)
      <4>1. /\ Distance(s, v) = Distance(s + 1, v) + 1 /\ Distance(s + 1, v) \in 0 .. NumSeats - 1
            /\ Distance(s, u.action) = Distance(s + 1, u.action) + 1
            /\ Distance(s + 1, u.action) \in 0 .. NumSeats - 1
            /\ Distance(s + 1, u.action) <= Distance(s + 1, v)
        BY <3>8, <3>9
      <4> QED
        BY <4>1, SeatNumbers
    <3>11. Clockwise(t, u)
      BY <1>3, <3>1, <3>5, <3>6, <3>10 DEF Clockwise
    <3>12. Unacted(w) = Unacted(t) \ {s} => Passed(t, u)
      BY <1>3, <3>1, <3>5, <3>6, <3>10 DEF Passed
    <3> QED
      BY <3>4, <3>11, <3>12
  <2> QED
    BY <2>1, <2>2, <2>3
<1>7. ~u.live => Clockwise(t, u) /\ Passed(t, u)
  BY DEF Clockwise, Passed
<1> QED
  BY <1>4, <1>5, <1>6, <1>7

(* A message passes the turn on in order.                                  *)
LEMMA ProcessActionPasses ==
  ASSUME "overraise" \notin Events, TableOK(table), table.live => Ready(table), table.gone = {},
         NEW p, NEW a \in Bids, NEW late \in BOOLEAN, NEW lapsed,
         ProcessAction(p, a, late, lapsed)
  PROVE  table'.gone = {} /\ (~(late /\ BetsNothing(a)) => Clockwise(table, table'))
<1>1. table.live /\ Ready(table) /\ lapsed = {}
  BY ProcessActionIs
<1>2. PICK t1, t2 :
        /\ t1 = table \/ (late /\ t1 \in CheckTimeout(table))
        /\ t2 = t1 \/ (t1.live /\ \E q \in lapsed : t2 \in Lapse(t1, q))
        /\ table' = t2 \/ (t2.live /\ table' \in Respond(t2, p, a))
  BY ProcessActionIs
<1>3. a.type = "raise" => \A s \in SeatOf(table, p) : a.amount <= table.seat[s].bet + table.seat[s].chips
  BY DEF ProcessAction
<1>4. t2 = t1
  BY <1>1, <1>2
<1>5. /\ TableOK(t1) /\ t1.gone = {} /\ (t1.live => Ready(t1)) /\ Untouched(table, t1)
      /\ Passed(table, t1)
  <2>1. CASE t1 = table
    <3>1. Passed(table, t1)
      BY <2>1, PassedNot
    <3> QED
      BY <1>1, <2>1, <3>1 DEF Untouched
  <2>2. CASE t1 # table
    <3> DEFINE s == Current(table)
    <3>1. t1 \in CheckTimeout(table)
      BY <1>2, <2>2
    <3>2. s = table.action
      BY <1>1 DEF Ready, Current
    <3>3. PICK w : /\ Turned(table, s, w) /\ t1 \in Proceed(w) /\ w.bet = table.bet
                   /\ table.seat[s].chips > 0 => Folds(table, s, w) \/ Stays(table, s, w)
      BY <2>2, <3>1, CheckTimeoutIs
    <3> HIDE DEF s
    <3>4. table.seat[s].chips > 0 /\ table.bet \in Nat
      BY <1>1, <3>2 DEF Ready, Steady, SeatSteady, Unacted, Active, TableOK, TableRec
    <3>5. w.bet >= table.bet
      BY <3>3, <3>4
    <3>6. /\ TableOK(t1) /\ t1.gone = table.gone /\ (t1.live => Ready(t1)) /\ Passed(table, t1)
      BY <1>1, <3>2, <3>3, <3>4, <3>5, TurnPasses
    <3>7. Untouched(table, t1)
      BY <1>1, <3>1, CheckTimeoutReady
    <3> QED
      BY <3>6, <3>7
  <2> QED
    BY <2>1, <2>2
<1>6. CASE table' = t1
  BY <1>5, <1>6 DEF Passed, Clockwise
<1>7. CASE table' # t1
  <2> DEFINE s == Current(t1)
  <2> DEFINE w == Apply(t1, s, a)
  <2>1. t1.live /\ table' \in Respond(t1, p, a) /\ Ready(t1)
    BY <1>2, <1>4, <1>5, <1>7
  <2>2. s = t1.action
    BY <2>1 DEF Ready, Current
  <2>3. /\ s \in Unacted(t1) /\ t1.seat[s].id = p /\ Turned(t1, s, w) /\ table' \in Proceed(w)
        /\ t1.seat[s].chips > 0 /\ Covered(t1, s, a) =>
              /\ w.bet >= t1.bet
              /\ ~Folds(t1, s, w) /\ ~Stays(t1, s, w) => w.bet > t1.bet \/ BetsNothing(a)
    BY <1>5, <1>7, <2>1, RespondIs
  <2> HIDE DEF s, w
  <2>4. s \in Active(t1) /\ t1.seat[s].chips > 0
    BY <2>1, <2>3 DEF Ready, Steady, SeatSteady, Unacted, Active
  <2>5. Covered(t1, s, a)
    <3>1. t1.bet = 0 \/ (/\ s \in Active(table) /\ table.seat[s].id = p
                         /\ t1.seat[s].chips = table.seat[s].chips
                         /\ t1.seat[s].bet = table.seat[s].bet)
      BY <1>5, <2>1, <2>3, <2>4 DEF Untouched
    <3>2. s \in Active(table) /\ table.seat[s].id = p => s \in SeatOf(table, p)
      BY DEF Active, SeatOf, Taken
    <3> QED
      BY <1>3, <3>1, <3>2 DEF Covered
  <2>6. /\ TableOK(table') /\ table'.gone = t1.gone /\ (table'.live => Ready(table'))
        /\ Clockwise(t1, table') /\ (~BetsNothing(a) => Passed(t1, table'))
    BY <1>5, <2>1, <2>2, <2>3, <2>4, <2>5, TurnPasses
  <2>7. CASE ~BetsNothing(a)
    <3>1. Passed(table, table')
      BY <1>5, <2>1, <2>6, <2>7, PassedTwice
    <3> QED
      BY <1>5, <2>6, <3>1 DEF Passed, Clockwise
  <2>8. CASE BetsNothing(a) /\ ~late
    BY <1>2, <1>5, <2>6, <2>8
  <2> QED
    BY <1>5, <2>6, <2>7, <2>8
<1> QED
  BY <1>6, <1>7

(* Nobody is away, and the turn goes on as it should.                      *)
LEMMA NextPasses ==
  ASSUME {"short", "overraise", "join", "grace", "cashout"} \cap Events = {},
         TableOK(table), table.live => Ready(table), table.gone = {}, [Next]_vars
  PROVE  table'.gone = {} /\ (table.live /\ ~TimedOutAndAsked => Clockwise(table, table'))
<1>0. /\ "short" \notin Events /\ "overraise" \notin Events /\ "join" \notin Events
      /\ "grace" \notin Events /\ "cashout" \notin Events
  OBVIOUS
<1>1. CASE StartHand
  <2> DEFINE d == Deal(table)
  <2>1. table' = OpenRound(d) /\ ~table.live /\ MayStart(table) /\ CanCover(table) /\ TableOK(d)
    BY <1>0, <1>1, StartHandReady, StartHandIs
  <2>2. d.gone = table.gone /\ Active(d) # {}
    <3>1. table \in TableRec /\ Cardinality(Taken(table)) >= 2 /\ table.hand < MaxHands
      BY <2>1, EnoughTaken DEF TableOK
    <3>2. d.gone = table.gone
      BY <3>1, DealIs
    <3>3. Active(d) # {}
      BY <2>1, DealOK
    <3> QED
      BY <3>2, <3>3
  <2> HIDE DEF d
  <2>3. OpenRound(d).gone = d.gone
    BY <2>1, <2>2, OpenRoundIs
  <2> QED
    BY <2>1, <2>2, <2>3
<1>2. ASSUME NEW p \in Players, NEW a \in Bids, NEW late \in BOOLEAN, NEW lapsed,
             ProcessAction(p, a, late, lapsed)
      PROVE  table'.gone = {} /\ (~TimedOutAndAsked => Clockwise(table, table'))
  <2>1. table'.gone = {} /\ (~(late /\ BetsNothing(a)) => Clockwise(table, table'))
    BY <1>0, <1>2, ProcessActionIs, ProcessActionPasses
  <2>2. late /\ BetsNothing(a) => TimedOutAndAsked
    <3> SUFFICES ASSUME late, BetsNothing(a) PROVE TimedOutAndAsked
      OBVIOUS
    <3>1. a = [type |-> "bet", amount |-> 0]
      BY DEF BetsNothing, Bids
    <3>2. lapsed = {}
      <4>1. lapsed \subseteq table.gone
        BY <1>2 DEF ProcessAction
      <4> QED
        BY <4>1
    <3>3. late = TRUE
      OBVIOUS
    <3>4. ProcessAction(p, [type |-> "bet", amount |-> 0], TRUE, lapsed)
      BY <1>2, <3>1, <3>3
    <3> QED
      BY <3>2, <3>4 DEF TimedOutAndAsked
  <2> QED
    BY <2>1, <2>2
<1>3. ASSUME NEW p \in Players, NEW s \in Seats, JoinTable(p, s)
      PROVE  table'.gone = {} /\ ~table.live
  BY <1>0, <1>3, JoinTableIs
<1>4. ASSUME NEW s \in Seats, Leaves(table, s, table')
      PROVE  table'.gone = {} /\ Clockwise(table, table')
  <2>1. /\ table'.gone = table.gone /\ table'.action = table.action /\ table'.bet = table.bet
        /\ table'.phase = table.phase /\ table'.seat[s].state = "empty"
        /\ \A v \in Seats \ {s} : table'.seat[v] = table.seat[v]
    BY <1>4 DEF Leaves, OthersSame
  <2>2. Unacted(table') \subseteq Unacted(table)
    BY <2>1 DEF Unacted, Active
  <2> QED
    BY <2>1, <2>2, PassedNot DEF Passed, Clockwise
<1>5. ASSUME NEW p \in Players, Disconnect(p) \/ RequestCashOut(p)
      PROVE  table'.gone = {} /\ Clockwise(table, table')
  <2>1. \E s \in SeatOf(table, p) : Leaves(table, s, table')
    BY <1>0, <1>5, DisconnectIs, RequestCashOutIs
  <2> QED
    BY <1>4, <2>1 DEF SeatOf, Taken
<1>6. CASE UNCHANGED table
  <2>1. Unacted(table') = Unacted(table)
    BY <1>6
  <2>2. Passed(table, table')
    BY <1>6, <2>1, PassedNot
  <2> QED
    BY <1>6, <2>2 DEF Passed, Clockwise
<1> QED
  BY <1>1, <1>2, <1>3, <1>5, <1>6 DEF Next, Reconnect, vars

(* While the bet stands, the turn goes clockwise and passes over nobody    *)
(* who still has to answer it (NextActionSeat), be it passed on by an      *)
(* action or by the clock, or by both in one call, with empty seats, folded*)
(* and all-in players between.  Not so if a player who is in the hand may  *)
(* leave when it is not his turn: his fold passes the turn on as well; and *)
(* not for the one step that times a player out and, by a bet of nothing of*)
(* the next, asks him again.                                               *)
THEOREM TableNobodySkipped ==
  ASSUME {"short", "overraise", "join", "grace", "cashout"} \cap Events = {}
  PROVE  Spec => NobodySkipped
<1> DEFINE Inv == TableOK(table) /\ (table.live => Ready(table)) /\ table.gone = {}
<1> DEFINE Fair == SameStreet /\ table'.bet = table.bet /\ ~TimedOutAndAsked =>
                     \A s \in Unacted(table') :
                       Distance(table.action, s) >= Distance(table.action, table'.action)
<1>1. Init => Inv
  BY InitIs
<1>2. Inv /\ [Next]_vars => Inv' /\ (table.live /\ ~TimedOutAndAsked => Clockwise(table, table'))
  <2> SUFFICES ASSUME Inv, [Next]_vars PROVE Inv' /\ (table.live /\ ~TimedOutAndAsked => Clockwise(table, table'))
    OBVIOUS
  <2>1. TableOK(table') /\ (table'.live => Ready(table'))
    BY NextReady
  <2>2. table'.gone = {} /\ (table.live /\ ~TimedOutAndAsked => Clockwise(table, table'))
    BY NextPasses
  <2> QED
    BY <2>1, <2>2
<1>3. Inv /\ Inv' /\ (table.live /\ ~TimedOutAndAsked => Clockwise(table, table')) => Fair
  <2> SUFFICES ASSUME Inv, Inv', table.live, table'.live, Clockwise(table, table'),
                      table.phase = table'.phase, table'.bet = table.bet,
                      NEW s \in Unacted(table')
               PROVE  Distance(table.action, s) >= Distance(table.action, table'.action)
    BY DEF SameStreet
  <2>1. table.bet \in Nat /\ table.action \in Seats /\ table'.action \in Seats /\ s \in Seats
    BY DEF TableOK, TableRec, Unacted, Active
  <2>2. <<table.phase, table'.phase>> \notin Later
    BY DEF Later, Follows
  <2>3. Distance(table.action, table'.action) <= Distance(table.action, s)
    BY <2>1, <2>2 DEF Clockwise
  <2>4. table.action \in 0 .. NumSeats
    BY <2>1, SeatAfter
  <2>5. /\ Distance(table.action, s) \in 0 .. NumSeats - 1
        /\ Distance(table.action, table'.action) \in 0 .. NumSeats - 1
    BY <2>1, <2>4, DistanceNat
  <2> QED
    BY <2>3, <2>5, SeatNumbers
<1> HIDE DEF Fair
<1>4. Inv /\ [Next]_vars => [Fair]_vars
  BY <1>2, <1>3
<1>5. Inv /\ [Next]_vars => Inv'
  BY <1>2
<1>6. Spec => [][Fair]_vars
  BY <1>1, <1>4, <1>5, PTL DEF Spec
<1> QED
  BY <1>6 DEF Fair, NobodySkipped

-----------------------------------------------------------------------------
(* The chips of the table: what everybody has, behind and in the pot.      *)
Held(t) == [s \in Seats |-> IF s \in Taken(t) THEN t.seat[s].chips + t.seat[s].in ELSE 0]

(* What seats hold are numbers.                                            *)
LEMMA HeldIs ==
  ASSUME NEW t, TableOK(t)
  PROVE  /\ Held(t) \in [Seats -> Nat] /\ Sum(Held(t), Seats) \in Nat
         /\ \A s \in Seats : /\ t.seat[s].chips \in Nat /\ t.seat[s].in \in Nat
                             /\ t.seat[s].bet \in Nat
<1>1. \A s \in Seats : /\ t.seat[s].chips \in Nat /\ t.seat[s].in \in Nat /\ t.seat[s].bet \in Nat
  BY DEF TableOK, TableRec, SeatRec
<1>2. \A s \in Seats : Held(t)[s] \in Nat
  BY <1>1 DEF Held
<1>3. Held(t) \in [Seats -> Nat]
  BY <1>2 DEF Held
<1>4. Sum(Held(t), Seats) \in Nat
  BY <1>2, SeatNumbers, SumNat
<1> QED
  BY <1>1, <1>3, <1>4

(* No player holds more than all together.                                 *)
LEMMA HeldBound ==
  ASSUME NEW t, TableOK(t), NEW s \in Taken(t)
  PROVE  t.seat[s].chips + t.seat[s].in <= Sum(Held(t), Seats)
<1> DEFINE f == Held(t)
<1>1. s \in Seats /\ f[s] = t.seat[s].chips + t.seat[s].in
  BY DEF Taken, Held
<1>2. IsFiniteSet(Seats) /\ \A x \in Seats : f[x] \in Nat
  BY SeatNumbers, HeldIs
<1> HIDE DEF f
<1>3. {s} \in SUBSET Seats
  BY <1>1
<1>4. Sum(f, {s}) <= Sum(f, Seats)
  BY <1>2, <1>3, SumSubset
<1>5. Sum(f, {s}) = f[s]
  <2>1. Sum(f, {} \cup {s}) = f[s] + Sum(f, {})
    <3>1. IsFiniteSet({}) /\ s \notin {} /\ \A x \in {} \cup {s} : f[x] \in Int
      BY <1>1, <1>2, FS_EmptySet
    <3> QED
      BY <3>1, SumAdd
  <2>2. Sum(f, {}) = 0 /\ {} \cup {s} = {s} /\ f[s] \in Int
    BY <1>1, <1>2, SumEmpty
  <2> QED
    BY <2>1, <2>2
<1> QED
  BY <1>1, <1>4, <1>5 DEF f

(* A sum over some seats, as one over all of them.                         *)
LEMMA SumOverSeats ==
  ASSUME NEW S \in SUBSET Seats, NEW f, NEW g, \A s \in S : f[s] \in Nat /\ g[s] = f[s],
         \A s \in Seats \ S : g[s] = 0
  PROVE  Sum(f, S) = Sum(g, Seats)
<1>1. IsFiniteSet(S) /\ IsFiniteSet(Seats \ S)
  BY SeatNumbers, FS_Subset
<1>2. \A s \in Seats : g[s] \in Int
  OBVIOUS
<1>3. S \cap (Seats \ S) = {} /\ S \cup (Seats \ S) = Seats
  OBVIOUS
<1>4. Sum(g, S \cup (Seats \ S)) = Sum(g, S) + Sum(g, Seats \ S)
  BY <1>1, <1>2, <1>3, SumUnion
<1>5. Sum(g, Seats \ S) = 0
  BY <1>1, SumZero
<1>6. Sum(g, S) = Sum(f, S) /\ Sum(f, S) \in Int
  <2>1. \A s \in S : f[s] \in Int /\ g[s] = f[s]
    OBVIOUS
  <2>2. Sum(g, S) = Sum(f, S)
    BY <1>1, <2>1, SumEqual
  <2>3. Sum(f, S) \in Int
    BY <1>1, <2>1, SumInt
  <2> QED
    BY <2>2, <2>3
<1> QED
  BY <1>3, <1>4, <1>5, <1>6

(* ChipsConserved's sum.                                                   *)
LEMMA TotalHeld ==
  ASSUME NEW t, TableOK(t)
  PROVE  Total([s \in Taken(t) |-> t.seat[s].chips + t.seat[s].in]) = Sum(Held(t), Seats)
<1> DEFINE f == [s \in Taken(t) |-> t.seat[s].chips + t.seat[s].in]
<1> DEFINE g == Held(t)
<1>1. Taken(t) \in SUBSET Seats
  BY DEF Taken
<1>2. \A s \in Taken(t) : f[s] \in Nat /\ g[s] = f[s]
  BY <1>1, HeldIs DEF Held
<1>3. \A s \in Seats \ Taken(t) : g[s] = 0
  BY DEF Held
<1>4. DOMAIN f = Taken(t)
  OBVIOUS
<1> HIDE DEF f, g
<1>5. Sum(f, Taken(t)) = Sum(g, Seats)
  BY <1>1, <1>2, <1>3, SumOverSeats
<1>6. Total(f) = Sum(f, Taken(t))
  BY <1>4, TotalIs
<1> QED
  BY <1>5, <1>6 DEF f, g

(* The books of a table are balanced: its players hold what the wallets    *)
(* brought, nobody is about to be swept, and no seat is taken twice.       *)
Balanced(t) ==
  /\ t.bank = Sum(Held(t), Seats) /\ t.bank <= MaxBank
  /\ t.gone = {} /\ NobodyLeaving(t)
  /\ \A s, u \in Taken(t) : t.seat[s].id = t.seat[u].id => s = u
  /\ \A s \in Seats :
       /\ t.seat[s].bet <= t.seat[s].in
       /\ s \notin Taken(t) => t.seat[s].chips <= MaxBank /\ t.seat[s].in = 0
  /\ t.bet <= MaxBank /\ t.raise <= MaxBank + BigBlind

(* No amount at a balanced table exceeds MaxBank.                          *)
LEMMA BalancedBounds ==
  ASSUME NEW t, TableOK(t), Balanced(t), NEW s \in Seats
  PROVE  /\ t.seat[s].chips \in 0 .. MaxBank /\ t.seat[s].in \in 0 .. MaxBank
         /\ t.seat[s].bet \in 0 .. MaxBank /\ t.bank \in 0 .. MaxBank
<1>1. /\ t.seat[s].chips \in Nat /\ t.seat[s].in \in Nat /\ t.seat[s].bet \in Nat
      /\ Sum(Held(t), Seats) \in Nat /\ MaxBank \in Nat
  BY HeldIs, TableAssumption
<1>2. t.bank \in 0 .. MaxBank /\ t.seat[s].bet <= t.seat[s].in
  BY <1>1 DEF Balanced
<1>3. CASE s \in Taken(t)
  <2>1. t.seat[s].chips + t.seat[s].in <= t.bank
    BY <1>3, HeldBound DEF Balanced
  <2> QED
    BY <1>1, <1>2, <2>1
<1>4. CASE s \notin Taken(t)
  BY <1>1, <1>2, <1>4 DEF Balanced
<1> QED
  BY <1>3, <1>4

(* Chips change hands between a seat's stack and its stake, if at all.     *)
Kept(t, u) ==
  /\ u.bank = t.bank /\ u.gone = t.gone
  /\ \A s \in Seats :
       LET c == t.seat[s]
           d == u.seat[s]
       IN  /\ d.id = c.id /\ d.leaving = c.leaving /\ (d.state = "empty" <=> c.state = "empty")
           /\ d.chips + d.in = c.chips + c.in /\ d.bet <= d.in
           /\ c.state = "empty" => d = c

(* Books stay balanced if every seat keeps what it holds.                  *)
LEMMA KeptBalanced ==
  ASSUME NEW t, TableOK(t), Balanced(t), NEW u, TableOK(u), Kept(t, u),
         u.bet \in {0, t.bet} \/ (\E s \in Seats : u.bet = u.seat[s].bet),
         u.raise \in {t.raise, BigBlind, u.bet - t.bet}
  PROVE  Balanced(u)
<1>1. Taken(u) = Taken(t)
  BY DEF Kept, Taken
<1>2. \A s \in Seats : Held(u)[s] = Held(t)[s] /\ Held(t)[s] \in Int
  <2>1. \A s \in Seats : u.seat[s].chips + u.seat[s].in = t.seat[s].chips + t.seat[s].in
    BY DEF Kept
  <2>2. \A s \in Seats : Held(u)[s] = Held(t)[s]
    BY <1>1, <2>1 DEF Held
  <2>3. \A s \in Seats : Held(t)[s] \in Int
    BY HeldIs
  <2> QED
    BY <2>2, <2>3
<1>3. Sum(Held(u), Seats) = Sum(Held(t), Seats)
  BY <1>2, SeatNumbers, SumEqual
<1>4. u.bank = Sum(Held(u), Seats) /\ u.bank <= MaxBank /\ u.gone = {}
  BY <1>3 DEF Kept, Balanced
<1>5. NobodyLeaving(u)
  BY DEF Kept, Balanced, NobodyLeaving
<1>6. \A s, v \in Taken(u) : u.seat[s].id = u.seat[v].id => s = v
  <2>1. \A s \in Taken(t) : s \in Seats /\ u.seat[s].id = t.seat[s].id
    BY DEF Kept, Taken
  <2> QED
    BY <1>1, <2>1 DEF Balanced
<1>7. \A s \in Seats : /\ u.seat[s].bet <= u.seat[s].in
                       /\ s \notin Taken(u) => u.seat[s].chips <= MaxBank /\ u.seat[s].in = 0
  <2>1. \A s \in Seats : s \notin Taken(t) => u.seat[s] = t.seat[s]
    BY DEF Kept, Taken
  <2> QED
    BY <1>1, <2>1 DEF Kept, Balanced
<1>8. \A s \in Seats : u.seat[s].bet <= MaxBank
  <2> SUFFICES ASSUME NEW s \in Seats PROVE u.seat[s].bet <= MaxBank
    OBVIOUS
  <2>1. /\ u.seat[s].chips \in Nat /\ u.seat[s].in \in Nat /\ u.seat[s].bet \in Nat
        /\ u.seat[s].bet <= u.seat[s].in /\ MaxBank \in Nat /\ Sum(Held(u), Seats) \in Nat
    BY <1>7, HeldIs, TableAssumption
  <2>2. CASE s \in Taken(u)
    <3>1. u.seat[s].chips + u.seat[s].in <= Sum(Held(u), Seats)
      BY <2>2, HeldBound
    <3> QED
      BY <1>4, <2>1, <3>1
  <2>3. CASE s \notin Taken(u)
    BY <1>7, <2>1, <2>3
  <2> QED
    BY <2>2, <2>3
<1>9. t.bet \in Nat /\ t.raise \in Nat /\ u.bet \in Nat /\ u.raise \in Nat
      /\ MaxBank \in Nat /\ BigBlind \in Nat
  BY TableAssumption DEF TableOK, TableRec
<1>10. u.bet <= MaxBank
  BY <1>8, <1>9 DEF Balanced
<1>11. u.raise <= MaxBank + BigBlind
  BY <1>9, <1>10 DEF Balanced
<1> QED
  BY <1>4, <1>5, <1>6, <1>7, <1>10, <1>11 DEF Balanced

(* A turn, for the seat that takes it, whatever the bets of the others.    *)
LEMMA MovesPaid ==
  ASSUME NEW t, TableOK(t), NEW s \in Active(t), NEW w, TableOK(w), Moves(t, s, w),
         t.seat[s].bet <= t.seat[s].in
  PROVE  LET c == t.seat[s]
             d == w.seat[s]
         IN  /\ d.state \in {"folded", "playing", "allin"} /\ d.id = c.id
             /\ d.leaving = c.leaving /\ d.cards = c.cards
             /\ d.chips + d.in = c.chips + c.in /\ c.in <= d.in /\ d.bet <= d.in
             /\ d.state = "playing" => d.acted /\ d.chips > 0
             /\ d.state # "folded" /\ (t.bet > 0 \/ c.in > 0) => d.in > 0
             /\ w.bet \in {t.bet, d.bet} /\ (t.bet > 0 => w.bet > 0)
             /\ Raises(t, s, w) => d.state # "folded"
<1> DEFINE c == t.seat[s]
<1> DEFINE d == w.seat[s]
<1>1. /\ s \in Seats /\ c.chips \in Nat /\ c.in \in Nat /\ c.bet \in Nat /\ t.bet \in Nat
      /\ d.chips \in Nat /\ d.in \in Nat /\ d.bet \in Nat /\ w.bet \in Nat /\ c.bet <= c.in
      /\ c.state = "playing" /\ c.acted \in BOOLEAN
  BY HeldIs DEF Active, TableOK, TableRec, SeatRec
<1>2. PICK m \in Nat : PutsIn(c, d, m) /\ (Folds(t, s, w) => m = 0)
  <2>1. CASE Folds(t, s, w)
    BY <2>1 DEF Folds
  <2>2. CASE ~Folds(t, s, w)
    BY <2>2 DEF Moves, Stays, Raises
  <2> QED
    BY <2>1, <2>2
<1>3. /\ d.id = c.id /\ d.cards = c.cards /\ d.chips + d.in = c.chips + c.in
      /\ c.in <= d.in /\ d.bet <= d.in /\ c.bet <= d.bet
  BY <1>1, <1>2 DEF PutsIn
<1> HIDE DEF c, d
<1>4. CASE Folds(t, s, w)
  <2>1. w.bet = t.bet /\ d.state = "folded" /\ d.leaving = c.leaving /\ ~Raises(t, s, w)
    BY <1>4 DEF Folds, Raises, c, d
  <2> QED
    BY <1>1, <1>3, <2>1 DEF c, d
<1>5. CASE Stays(t, s, w) /\ ~Raises(t, s, w)
  <2>1. PICK n \in Nat :
          /\ w.bet = t.bet /\ d.leaving = c.leaving /\ d.acted
          /\ PutsIn(c, d, n)
          /\ \/ d.state = "allin" /\ n > 0
             \/ d.state = "playing" /\ d.chips > 0 /\ d.bet >= t.bet
    BY <1>5 DEF Stays, c, d
  <2>2. d.in = c.in + n
    BY <2>1 DEF PutsIn
  <2>3. t.bet > 0 \/ c.in > 0 => d.in > 0
    BY <1>1, <1>3, <2>1, <2>2
  <2> QED
    BY <1>1, <1>3, <1>5, <2>1, <2>3 DEF c, d
<1>6. CASE Raises(t, s, w)
  <2>1. /\ w.bet = d.bet /\ (w.bet > 0 \/ w.bet = t.bet) /\ d.leaving = c.leaving /\ d.acted
        /\ \/ d.state = "allin"
           \/ d.state = "playing" /\ d.chips > 0
    BY <1>6 DEF Raises, c, d
  <2> QED
    BY <1>1, <1>3, <2>1 DEF c, d
<1> QED
  BY <1>4, <1>5, <1>6 DEF Moves

(* Who is in the hand, and who still has to act, after an action.          *)
LEMMA MovesSets ==
  ASSUME NEW t, TableOK(t), NEW s \in Active(t), NEW w, TableOK(w), Moves(t, s, w),
         t.seat[s].bet <= t.seat[s].in
  PROVE  /\ InHand(w) \subseteq InHand(t) /\ InHand(t) \ {s} \subseteq InHand(w)
         /\ Active(w) \subseteq Active(t) /\ s \notin Unacted(w) /\ s \in Seats
         /\ Taken(w) = Taken(t)
         /\ ~Raises(t, s, w) => Unacted(w) = Unacted(t) \ {s}
         /\ Raises(t, s, w) => s \in InHand(w) /\ Unacted(w) = Active(t) \ {s}
<1>1. /\ w.seat[s].state \in {"folded", "playing", "allin"} /\ t.seat[s].state = "playing"
      /\ w.seat[s].state = "playing" => w.seat[s].acted
      /\ Raises(t, s, w) => w.seat[s].state # "folded"
      /\ s \in Seats
  BY MovesPaid DEF Active
<1>2. \A v \in Seats \ {s} : /\ w.seat[v].state = t.seat[v].state
                             /\ w.seat[v] = t.seat[v] \/ Raises(t, s, w)
                             /\ Raises(t, s, w) /\ t.seat[v].state = "playing" => ~w.seat[v].acted
  BY MovesOthers
<1>3. Raises(t, s, w) => Unacted(w) = Active(t) \ {s}
  BY <1>1, <1>2 DEF Active, Unacted
<1> QED
  BY <1>1, <1>2, <1>3 DEF InHand, Active, Unacted, Taken

(* A hand that is worth playing: two are in it, and however they act there *)
(* will be somebody left in it who has put something in, to take the pots. *)
Paid(t) == \A s \in InHand(t) \ Unacted(t) : t.seat[s].in > 0

Anchored(t) ==
  \/ \A s \in InHand(t) : t.seat[s].in > 0
  \/ \E s \in InHand(t) :
       /\ t.seat[s].in > 0
       /\ s \in Unacted(t) =>
            \A v \in Unacted(t) : Distance(t.action, v) <= Distance(t.action, s)

Contested(t) ==
  /\ \A s \in Seats :
       /\ t.seat[s].state # "sitting"
       /\ t.seat[s].state = "playing" => t.seat[s].chips > 0
       /\ s \in Taken(t) => t.seat[s].cards
  /\ Unacted(t) # {} => t.action \in Unacted(t)
  /\ \A x : \E s \in InHand(t) : s # x
  /\ Paid(t) /\ Anchored(t)
  /\ IF t.phase = "preflop" THEN t.bet > 0 ELSE \A s \in InHand(t) : t.seat[s].in > 0

Idle(t) == \A s \in Seats : t.seat[s].in = 0

Funded(t) == TableOK(t) /\ Balanced(t) /\ IF t.live THEN Contested(t) ELSE Idle(t)

(* The table in the middle of a turn.                                      *)
Turning(t, w) ==
  /\ TableOK(w) /\ w.live /\ Balanced(w) /\ w.phase = t.phase /\ w.action = t.action
  /\ \A s \in Seats :
       /\ w.seat[s].state # "sitting"
       /\ w.seat[s].state = "playing" => w.seat[s].chips > 0
       /\ s \in Taken(w) => w.seat[s].cards
  /\ Paid(w) /\ \E s \in InHand(w) : w.seat[s].in > 0
  /\ IF w.phase = "preflop" THEN w.bet > 0 ELSE \A s \in InHand(w) : w.seat[s].in > 0

(* A turn leaves somebody who has put something in.                        *)
LEMMA TurnFunded ==
  ASSUME NEW t, Funded(t), t.live, t.action \in Unacted(t), NEW w, Turned(t, t.action, w)
  PROVE  Turning(t, w)
<1> DEFINE s == t.action
<1>1. /\ TableOK(t) /\ Balanced(t) /\ Contested(t) /\ t.bet \in Nat
  BY DEF Funded, TableOK, TableRec
<1>2. /\ s \in Active(t) /\ s \in Seats /\ t.seat[s].state = "playing" /\ t.seat[s].chips > 0
      /\ s \in InHand(t)
  BY <1>1 DEF Unacted, Active, InHand, Contested
<1>3. TableOK(w) /\ SameHand(t, w) /\ w.raise \in {t.raise, w.bet - t.bet} /\ Moves(t, s, w)
  BY <1>2 DEF Turned
<1>4. t.seat[s].bet <= t.seat[s].in
  BY <1>1, <1>2 DEF Balanced
<1>5. /\ w.seat[s].state \in {"folded", "playing", "allin"} /\ w.seat[s].id = t.seat[s].id
      /\ w.seat[s].leaving = t.seat[s].leaving /\ w.seat[s].cards = t.seat[s].cards
      /\ w.seat[s].chips + w.seat[s].in = t.seat[s].chips + t.seat[s].in
      /\ t.seat[s].in <= w.seat[s].in /\ w.seat[s].bet <= w.seat[s].in
      /\ w.seat[s].state = "playing" => w.seat[s].acted /\ w.seat[s].chips > 0
      /\ w.seat[s].state # "folded" /\ (t.bet > 0 \/ t.seat[s].in > 0) => w.seat[s].in > 0
      /\ w.bet \in {t.bet, w.seat[s].bet} /\ (t.bet > 0 => w.bet > 0)
  BY <1>1, <1>2, <1>3, <1>4, MovesPaid
<1>6. /\ InHand(w) \subseteq InHand(t) /\ InHand(t) \ {s} \subseteq InHand(w)
      /\ Active(w) \subseteq Active(t) /\ s \notin Unacted(w) /\ Taken(w) = Taken(t)
      /\ ~Raises(t, s, w) => Unacted(w) = Unacted(t) \ {s}
      /\ Raises(t, s, w) => s \in InHand(w) /\ Unacted(w) = Active(t) \ {s}
  BY <1>1, <1>2, <1>3, <1>4, MovesSets
<1>7. \A v \in Seats \ {s} :
        /\ w.seat[v].state = t.seat[v].state /\ w.seat[v].chips = t.seat[v].chips
        /\ w.seat[v].bet = t.seat[v].bet /\ w.seat[v].in = t.seat[v].in
        /\ w.seat[v].id = t.seat[v].id /\ w.seat[v].leaving = t.seat[v].leaving
        /\ w.seat[v].cards = t.seat[v].cards
        /\ w.seat[v].state # "playing" => w.seat[v] = t.seat[v]
  BY <1>1, <1>2, <1>3, MovesOthers
<1> HIDE DEF s
<1>8. Kept(t, w)
  <2>1. \A v \in Seats : t.seat[v].bet <= t.seat[v].in
    BY <1>1 DEF Balanced
  <2> QED
    BY <1>2, <1>3, <1>5, <1>7, <2>1 DEF Kept, SameHand
<1>9. Balanced(w)
  BY <1>1, <1>2, <1>3, <1>5, <1>8, KeptBalanced
<1>10. /\ w.live /\ w.phase = t.phase /\ w.action = t.action
  BY <1>3 DEF SameHand
<1>11. ASSUME NEW v \in Seats
       PROVE  /\ w.seat[v].state # "sitting"
              /\ w.seat[v].state = "playing" => w.seat[v].chips > 0
              /\ v \in Taken(w) => w.seat[v].cards
  <2>1. /\ t.seat[v].state # "sitting"
        /\ t.seat[v].state = "playing" => t.seat[v].chips > 0
        /\ v \in Taken(t) => t.seat[v].cards
    BY <1>1 DEF Contested
  <2> QED
    BY <1>5, <1>6, <1>7, <2>1
<1>12. \A v \in InHand(w) : t.seat[v].in <= w.seat[v].in /\ v \in Seats /\ t.seat[v].in \in Nat
                            /\ w.seat[v].in \in Nat /\ v \in InHand(t)
  <2>1. \A v \in Seats : t.seat[v].in \in Nat /\ w.seat[v].in \in Nat
    BY <1>1, <1>3, HeldIs
  <2> QED
    BY <1>5, <1>6, <1>7, <2>1 DEF InHand
<1>13. s \in InHand(w) => w.seat[s].in > 0
  <2>1. CASE t.phase = "preflop"
    <3>1. t.bet > 0
      BY <1>1, <2>1 DEF Contested
    <3> QED
      BY <1>5, <3>1 DEF InHand
  <2>2. CASE t.phase # "preflop"
    <3>1. t.seat[s].in > 0
      BY <1>1, <1>2, <2>2 DEF Contested
    <3> QED
      BY <1>5, <3>1 DEF InHand
  <2> QED
    BY <2>1, <2>2
<1>14. Paid(w)
  <2> SUFFICES ASSUME NEW v \in InHand(w) \ Unacted(w), v # s PROVE w.seat[v].in > 0
    BY <1>13 DEF Paid
  <2>1. v \in InHand(t) /\ v \in Seats /\ t.seat[v].in <= w.seat[v].in
        /\ t.seat[v].in \in Nat /\ w.seat[v].in \in Nat
    BY <1>12
  <2>2. v \notin Unacted(t)
    BY <1>6 DEF Unacted
  <2> QED
    BY <1>1, <2>1, <2>2 DEF Contested, Paid
<1>15. \E v \in InHand(w) : w.seat[v].in > 0
  <2>1. PICK x \in InHand(t) : x # s
    BY <1>1 DEF Contested
  <2>2. x \in InHand(w)
    BY <1>6, <2>1
  <2>3. CASE \A v \in InHand(t) : t.seat[v].in > 0
    BY <1>12, <2>1, <2>2, <2>3
  <2>4. ASSUME NEW v \in InHand(t), t.seat[v].in > 0,
               v \in Unacted(t) =>
                 \A y \in Unacted(t) : Distance(s, y) <= Distance(s, v)
        PROVE  \E y \in InHand(w) : w.seat[y].in > 0
    <3>1. CASE v # s
      BY <1>6, <1>12, <2>4, <3>1
    <3>2. CASE v = s
      <4>1. x \notin Unacted(t)
        <5> SUFFICES ASSUME x \in Unacted(t) PROVE FALSE
          OBVIOUS
        <5>1. x \in Seats /\ s \in 0 .. NumSeats
          BY <1>2, <2>1, SeatAfter DEF InHand
        <5>2. Distance(s, x) \in 0 .. NumSeats - 1 /\ Distance(s, s) = 0
              /\ (Distance(s, x) = 0 => s = x)
          BY <1>2, <5>1, DistanceNat
        <5>3. s \in Unacted(t)
          BY DEF s
        <5>4. Distance(s, x) <= Distance(s, s)
          BY <2>4, <3>2, <5>3
        <5>5. Distance(s, x) = 0
          BY <5>2, <5>4, SeatNumbers
        <5> QED
          BY <2>1, <5>2, <5>5
      <4>2. t.seat[x].in > 0
        BY <1>1, <2>1, <4>1 DEF Contested, Paid
      <4> QED
        BY <1>12, <2>2, <4>2
    <3> QED
      BY <3>1, <3>2
  <2> QED
    BY <1>1, <2>3, <2>4 DEF Contested, Anchored, s
<1>16. IF w.phase = "preflop" THEN w.bet > 0 ELSE \A v \in InHand(w) : w.seat[v].in > 0
  <2>1. CASE t.phase = "preflop"
    BY <1>1, <1>5, <1>10, <2>1 DEF Contested
  <2>2. CASE t.phase # "preflop"
    <3>1. \A v \in InHand(t) : t.seat[v].in > 0
      BY <1>1, <2>2 DEF Contested
    <3> QED
      BY <1>10, <1>12, <2>2, <3>1
  <2> QED
    BY <2>1, <2>2
<1> QED
  BY <1>3, <1>9, <1>10, <1>11, <1>14, <1>15, <1>16 DEF Turning

(* Whoever has put something in and is last to act stays last to act.      *)
LEMMA AnchorKept ==
  ASSUME NEW t, Funded(t), t.live, t.action \in Unacted(t), NEW w, Turned(t, t.action, w),
         NEW u, TableOK(u), u.seat = w.seat,
         Unacted(w) # {} => u.action = FirstFrom(t.action + 1, Unacted(w))
  PROVE  Anchored(u)
<1> DEFINE s == t.action
<1>1. /\ TableOK(t) /\ Balanced(t) /\ Contested(t) /\ s \in Unacted(t)
  BY DEF Funded
<1>2. /\ s \in Active(t) /\ s \in Seats /\ t.seat[s].state = "playing" /\ t.seat[s].chips > 0
  BY <1>1 DEF Unacted, Active, Contested
<1>3. TableOK(w) /\ Moves(t, s, w) /\ Turning(t, w)
  BY <1>2, TurnFunded DEF Turned
<1>4. t.seat[s].bet <= t.seat[s].in
  BY <1>1, <1>2 DEF Balanced
<1>5. /\ InHand(w) \subseteq InHand(t) /\ InHand(t) \ {s} \subseteq InHand(w)
      /\ s \notin Unacted(w)
      /\ ~Raises(t, s, w) => Unacted(w) = Unacted(t) \ {s}
      /\ Raises(t, s, w) => s \in InHand(w)
  BY <1>1, <1>2, <1>3, <1>4, MovesSets
<1>6. Paid(w) /\ InHand(u) = InHand(w) /\ Unacted(u) = Unacted(w)
  BY <1>3 DEF Turning, InHand, Unacted, Active
<1>7. CASE Unacted(w) = {}
  BY <1>6, <1>7 DEF Paid, Anchored
<1>8. CASE Raises(t, s, w)
  <2>1. s \in InHand(w) \ Unacted(w)
    BY <1>5, <1>8
  <2>2. w.seat[s].in > 0
    BY <1>6, <2>1 DEF Paid
  <2> QED
    BY <1>6, <2>1, <2>2 DEF Anchored
<1>9. CASE Unacted(w) # {} /\ ~Raises(t, s, w)
  <2> HIDE DEF s
  <2>1. ASSUME NEW v \in InHand(w), v # s
        PROVE  w.seat[v].in = t.seat[v].in /\ v \in Seats /\ v \in InHand(t)
    <3>1. v \in Seats \ {s} /\ v \in InHand(t)
      BY <1>5, <2>1 DEF InHand
    <3> QED
      BY <1>1, <1>2, <1>3, <3>1, MovesOthers
  <2>2. CASE \A v \in InHand(t) : t.seat[v].in > 0
    <3>1. ASSUME NEW v \in InHand(w) PROVE w.seat[v].in > 0
      <4>1. CASE v = s
        BY <1>5, <1>6, <4>1 DEF Paid
      <4>2. CASE v # s
        BY <2>1, <2>2, <4>2
      <4> QED
        BY <4>1, <4>2
    <3> QED
      BY <1>6, <3>1 DEF Anchored
  <2>3. ASSUME NEW v \in InHand(t), t.seat[v].in > 0,
               v \in Unacted(t) => \A y \in Unacted(t) : Distance(s, y) <= Distance(s, v)
        PROVE  Anchored(u)
    <3>1. v \in Seats /\ s \in 0 .. NumSeats /\ s + 1 \in 0 .. NumSeats
      BY <1>2, SeatAfter DEF InHand
    <3>2. CASE v = s
      <4>1. PICK x \in Unacted(w) : TRUE
        BY <1>9
      <4>2. x \in Seats /\ x # s /\ x \in Unacted(t)
        BY <1>5, <1>9, <4>1 DEF Unacted, Active
      <4>3. Distance(s, x) <= Distance(s, s)
        BY <1>1, <2>3, <3>2, <4>2 DEF s
      <4>4. Distance(s, x) \in 0 .. NumSeats - 1 /\ Distance(s, s) = 0
            /\ (Distance(s, x) = 0 => s = x)
        BY <1>2, <3>1, <4>2, DistanceNat
      <4> QED
        BY <4>2, <4>3, <4>4, SeatNumbers
    <3>3. CASE v # s
      <4>1. v \in InHand(w) /\ w.seat[v].in > 0
        BY <1>5, <2>1, <2>3, <3>3
      <4>2. CASE v \notin Unacted(w)
        BY <1>6, <4>1, <4>2 DEF Anchored
      <4>3. CASE v \in Unacted(w)
        <5> DEFINE a == u.action
        <5>1. Unacted(w) \in SUBSET Seats /\ Unacted(w) \subseteq Unacted(t) \ {s}
          BY <1>5, <1>9 DEF Unacted, Active
        <5>2. /\ a \in Unacted(w) /\ a \in Seats
              /\ \A y \in Unacted(w) : Distance(s + 1, a) <= Distance(s + 1, y)
          <6>1. a = FirstFrom(s + 1, Unacted(w))
            BY <1>9 DEF s
          <6> HIDE DEF a
          <6>2. FirstFrom(s + 1, Unacted(w)) \in Unacted(w)
                /\ \A y \in Unacted(w) :
                     Distance(s + 1, FirstFrom(s + 1, Unacted(w))) <= Distance(s + 1, y)
            BY <1>9, <3>1, <5>1, FirstFromIn
          <6> QED
            BY <5>1, <6>1, <6>2
        <5> HIDE DEF a
        <5>3. ASSUME NEW y \in Unacted(w)
              PROVE  /\ y \in Seats /\ Distance(s, y) = Distance(s + 1, y) + 1
                     /\ Distance(s + 1, y) = Distance(s + 1, a) + Distance(a, y)
                     /\ Distance(a, y) \in 0 .. NumSeats - 1
                     /\ Distance(s + 1, a) \in 0 .. NumSeats - 1
          <6>1. y \in Seats /\ y # s /\ a \in 0 .. NumSeats
            BY <5>1, <5>2, SeatAfter
          <6>2. Distance(s, y) = Distance(s + 1, y) + 1
            BY <1>2, <6>1, NextDistance
          <6>3. Distance(s + 1, y) = Distance(s + 1, a) + Distance(a, y)
            BY <3>1, <5>2, <6>1, DistanceAdds
          <6>4. Distance(a, y) \in 0 .. NumSeats - 1 /\ Distance(s + 1, a) \in 0 .. NumSeats - 1
            BY <3>1, <5>2, <6>1, DistanceNat
          <6> QED
            BY <6>1, <6>2, <6>3, <6>4
        <5>4. ASSUME NEW y \in Unacted(w) PROVE Distance(a, y) <= Distance(a, v)
          <6>1. Distance(s, y) <= Distance(s, v)
            BY <2>3, <4>3, <5>1
          <6> QED
            BY <4>3, <5>3, <6>1, SeatNumbers
        <5> QED
          BY <1>6, <4>1, <5>4 DEF Anchored, a
      <4> QED
        BY <4>2, <4>3
    <3> QED
      BY <3>2, <3>3
  <2> QED
    BY <1>1, <2>2, <2>3 DEF Contested, Anchored, s
<1> QED
  BY <1>7, <1>8, <1>9

(* The showdown pays out what was put in, to the chip.                     *)
LEMMA ShowdownFunded ==
  ASSUME NEW t, NEW w, Turning(t, w), NEW u \in DoShowdown(w)
  PROVE  Funded(u)
<1> DEFINE in == PutIn(w)
<1> DEFINE live == Live(PutIn(w), Folded(w))
<1>1. TableOK(w) /\ Balanced(w) /\ Sitting(w) = {} /\ NobodyLeaving(w)
  BY DEF Turning, Sitting, Balanced
<1>2. TableOK(u)
  BY <1>1, DoShowdownIs
<1>3. PICK out \in [Seats -> Nat] :
        /\ Ended(w, u, out)
        /\ \A s \in Seats : s \notin live => out[s] = 0
        /\ live # {} /\ live \subseteq Dealt(w) => Sum(out, Seats) = Sum(in, Seats)
  BY <1>1, DoShowdownIs
<1>4. \A s \in Seats : s \in live <=> s \in Taken(w) /\ w.seat[s].in > 0 /\ w.seat[s].state # "folded"
  BY DEF Live, Contributors, PutIn, Folded
<1>5. live \subseteq Seats
  BY DEF Live, Contributors, PutIn
<1> HIDE DEF live, in
<1>6. live # {}
  <2>1. PICK s \in InHand(w) : w.seat[s].in > 0
    BY DEF Turning
  <2>2. s \in Seats /\ s \in Taken(w) /\ w.seat[s].state # "folded"
    BY DEF InHand, Taken
  <2> QED
    BY <1>4, <2>1, <2>2
<1>7. live \subseteq Dealt(w)
  BY <1>4, <1>5 DEF Turning, Dealt
<1>8. Sum(out, Seats) = Sum(in, Seats)
  BY <1>3, <1>6, <1>7
<1>9. /\ ~u.live /\ u.gone = w.gone /\ u.bet = 0 /\ u.raise = w.raise /\ u.bank = w.bank
  BY <1>1, <1>3 DEF Ended
<1>10. ASSUME NEW s \in Seats
       PROVE  /\ u.seat[s].id = w.seat[s].id /\ ~u.seat[s].leaving
              /\ u.seat[s].chips = w.seat[s].chips + out[s]
              /\ u.seat[s].bet = 0 /\ u.seat[s].in = 0
              /\ s \in Taken(u) <=> s \in Taken(w)
  <2>1. ~w.seat[s].leaving
    BY <1>1 DEF NobodyLeaving
  <2> QED
    BY <1>3, <2>1 DEF Ended, Taken
<1>11. Taken(u) = Taken(w)
  BY <1>10 DEF Taken
<1>12. Sum(Held(u), Seats) = Sum(Held(w), Seats)
  <2> DEFINE f == [s \in Seats |-> IF s \in Taken(w) THEN w.seat[s].chips ELSE 0]
  <2>1. \A s \in Seats : /\ w.seat[s].chips \in Nat /\ w.seat[s].in \in Nat
                         /\ out[s] \in Nat /\ f[s] \in Nat
    BY <1>1, HeldIs
  <2>2. \A s \in Seats : in[s] \in Int /\ Held(w)[s] = f[s] + in[s]
    BY <2>1 DEF in, PutIn, Held
  <2>3. \A s \in Seats : Held(u)[s] = f[s] + out[s]
    <3>1. \A s \in Seats : s \notin Taken(w) => out[s] = 0
      BY <1>3, <1>4
    <3> QED
      BY <1>10, <1>11, <2>1, <3>1 DEF Held
  <2> HIDE DEF f
  <2>4. /\ \A s \in Seats : f[s] \in Int /\ in[s] \in Int /\ out[s] \in Int
        /\ \A s \in Seats : f[s] \in Int /\ in[s] \in Int /\ Held(w)[s] = f[s] + in[s]
        /\ \A s \in Seats : f[s] \in Int /\ out[s] \in Int /\ Held(u)[s] = f[s] + out[s]
    BY <2>1, <2>2, <2>3
  <2>5. Sum(Held(w), Seats) = Sum(f, Seats) + Sum(in, Seats)
    BY <2>4, SeatNumbers, SumPlus
  <2>6. Sum(Held(u), Seats) = Sum(f, Seats) + Sum(out, Seats)
    BY <2>4, SeatNumbers, SumPlus
  <2> QED
    BY <1>8, <2>5, <2>6
<1>13. Balanced(u)
  <2>1. u.bank = Sum(Held(u), Seats) /\ u.bank <= MaxBank /\ u.gone = {} /\ NobodyLeaving(u)
    BY <1>1, <1>9, <1>10, <1>12 DEF Balanced, NobodyLeaving
  <2>2. \A s, v \in Taken(u) : u.seat[s].id = u.seat[v].id => s = v
    <3>1. \A s \in Taken(w) : s \in Seats /\ u.seat[s].id = w.seat[s].id
      BY <1>10 DEF Taken
    <3> QED
      BY <1>1, <1>11, <3>1 DEF Balanced
  <2>3. ASSUME NEW s \in Seats
        PROVE  /\ u.seat[s].bet <= u.seat[s].in
               /\ s \notin Taken(u) => u.seat[s].chips <= MaxBank /\ u.seat[s].in = 0
    <3>1. s \notin Taken(w) => out[s] = 0 /\ w.seat[s].chips <= MaxBank /\ w.seat[s].chips \in Nat
      BY <1>1, <1>3, <1>4, HeldIs DEF Balanced
    <3> QED
      BY <1>10, <1>11, <3>1
  <2>4. u.bet <= MaxBank /\ u.raise <= MaxBank + BigBlind
    BY <1>1, <1>9, TableAssumption DEF Balanced
  <2> QED
    BY <2>1, <2>2, <2>3, <2>4 DEF Balanced
<1> QED
  BY <1>2, <1>9, <1>10, <1>13 DEF Funded, Idle

(* And what follows it keeps the books.                                    *)
LEMMA ProceedFunded ==
  ASSUME NEW t, Funded(t), t.live, t.action \in Unacted(t), NEW w, Turned(t, t.action, w),
         NEW u \in Proceed(w)
  PROVE  Funded(u)
<1>1. Turning(t, w)
  BY TurnFunded
<1>2. TableOK(w) /\ w.live /\ Balanced(w) /\ w.action = t.action
  BY <1>1 DEF Turning
<1>3. /\ TableOK(u)
      /\ \/ u \in DoShowdown(w)
         \/ /\ NewStreet(w, u) /\ Unacted(w) = {} /\ Cardinality(InHand(w)) > 1
         \/ /\ ~IsBettingRoundComplete(w)
            /\ u.seat = w.seat /\ u.bet = w.bet /\ u.bank = w.bank /\ u.live = w.live
            /\ u.phase = w.phase /\ u.gone = w.gone /\ u.raise = w.raise
            /\ Unacted(w) # {} => u.action = FirstFrom(w.action + 1, Unacted(w))
  BY <1>2, ProceedIs
<1>4. Cardinality(InHand(w)) > 1 => \A x : \E s \in InHand(w) : s # x
  <2>1. InHand(w) \in SUBSET Seats
    BY DEF InHand
  <2>2. Cardinality(InHand(w)) \in Nat
    BY <2>1, TwoAtLeast
  <2>3. Cardinality(InHand(w)) > 1 => Cardinality(InHand(w)) >= 2
    BY <2>2
  <2> QED
    BY <2>1, <2>3, TwoAtLeast
<1>5. CASE u \in DoShowdown(w)
  BY <1>1, <1>5, ShowdownFunded
<1>6. CASE NewStreet(w, u) /\ Unacted(w) = {} /\ Cardinality(InHand(w)) > 1
  <2>1. /\ u.live /\ u.bet = 0 /\ u.raise = BigBlind /\ u.gone = w.gone /\ u.bank = w.bank
        /\ u.phase # "preflop" /\ u.action \in Unacted(u)
    BY <1>6 DEF NewStreet, Follows
  <2>2. \A s \in Seats :
          /\ u.seat[s].id = w.seat[s].id /\ u.seat[s].chips = w.seat[s].chips
          /\ u.seat[s].in = w.seat[s].in /\ u.seat[s].state = w.seat[s].state
          /\ u.seat[s].cards = w.seat[s].cards /\ u.seat[s].leaving = w.seat[s].leaving
          /\ u.seat[s].bet = 0
    BY <1>6 DEF NewStreet
  <2>3. InHand(u) = InHand(w) /\ Taken(u) = Taken(w) /\ InHand(w) \subseteq Seats
    BY <2>2 DEF InHand, Taken
  <2>4. \A s \in InHand(u) : u.seat[s].in > 0
    BY <1>1, <1>6, <2>2, <2>3 DEF Turning, Paid
  <2>5. Balanced(u)
    <3>1. \A s \in Seats : /\ w.seat[s].in \in Nat /\ w.seat[s].chips \in Nat
                           /\ w.seat[s].bet \in Nat /\ u.seat[s].in \in Nat
      BY <1>2, <1>3, HeldIs
    <3>2. \A s \in Seats : Held(u)[s] = Held(w)[s] /\ Held(w)[s] \in Int
      <4>1. \A s \in Seats : Held(u)[s] = Held(w)[s]
        BY <2>2, <2>3 DEF Held
      <4> QED
        BY <1>2, <4>1, HeldIs
    <3>3. Sum(Held(u), Seats) = Sum(Held(w), Seats)
      BY <3>2, SeatNumbers, SumEqual
    <3>4. \A s, v \in Taken(u) : u.seat[s].id = u.seat[v].id => s = v
      <4>1. \A s \in Taken(w) : s \in Seats /\ u.seat[s].id = w.seat[s].id
        BY <2>2 DEF Taken
      <4> QED
        BY <1>2, <2>3, <4>1 DEF Balanced
    <3>5. NobodyLeaving(u)
      BY <1>2, <2>2 DEF Balanced, NobodyLeaving
    <3>6. \A s \in Seats :
            /\ u.seat[s].bet <= u.seat[s].in
            /\ s \notin Taken(u) => u.seat[s].chips <= MaxBank /\ u.seat[s].in = 0
      BY <1>2, <2>2, <2>3, <3>1 DEF Balanced
    <3>7. u.bet <= MaxBank /\ u.raise <= MaxBank + BigBlind
      BY <2>1, TableAssumption
    <3> QED
      BY <1>2, <2>1, <3>3, <3>4, <3>5, <3>6, <3>7 DEF Balanced
  <2>6. Contested(u)
    <3>1. \A s \in Seats :
            /\ u.seat[s].state # "sitting"
            /\ u.seat[s].state = "playing" => u.seat[s].chips > 0
            /\ s \in Taken(u) => u.seat[s].cards
      BY <1>1, <2>2, <2>3 DEF Turning
    <3>2. Paid(u) /\ Anchored(u)
      BY <2>4 DEF Paid, Anchored
    <3> QED
      BY <1>4, <1>6, <2>1, <2>3, <2>4, <3>1, <3>2 DEF Contested
  <2> QED
    BY <1>3, <2>1, <2>5, <2>6 DEF Funded
<1>7. CASE /\ ~IsBettingRoundComplete(w)
           /\ u.seat = w.seat /\ u.bet = w.bet /\ u.bank = w.bank /\ u.live = w.live
           /\ u.phase = w.phase /\ u.gone = w.gone /\ u.raise = w.raise
           /\ Unacted(w) # {} => u.action = FirstFrom(w.action + 1, Unacted(w))
  <2>1. /\ InHand(u) = InHand(w) /\ Taken(u) = Taken(w) /\ Unacted(u) = Unacted(w)
        /\ Held(u) = Held(w)
    BY <1>7 DEF InHand, Taken, Unacted, Active, Held
  <2>2. Balanced(u)
    BY <1>2, <1>7, <2>1 DEF Balanced, NobodyLeaving
  <2>3. Cardinality(InHand(w)) > 1
    <3>1. InHand(w) \in SUBSET Seats
      BY DEF InHand
    <3>2. Cardinality(InHand(w)) \in Nat
      BY <3>1, TwoAtLeast
    <3> QED
      BY <1>7, <3>2 DEF IsBettingRoundComplete
  <2>4. Unacted(u) # {} => u.action \in Unacted(u)
    <3>1. Unacted(w) \in SUBSET Seats
      BY DEF Unacted, Active
    <3>2. w.action + 1 \in 0 .. NumSeats
      <4>1. w.action \in Seats
        BY <1>2 DEF TableOK, TableRec
      <4> QED
        BY <4>1, SeatAfter
    <3>3. Unacted(w) # {} => FirstFrom(w.action + 1, Unacted(w)) \in Unacted(w)
      BY <3>1, <3>2, FirstFromIn
    <3> QED
      BY <1>7, <2>1, <3>3
  <2>5. Anchored(u)
    <3>1. Unacted(w) # {} => u.action = FirstFrom(t.action + 1, Unacted(w))
      BY <1>2, <1>7
    <3>2. u.seat = w.seat
      BY <1>7
    <3> QED
      BY <1>3, <3>1, <3>2, AnchorKept
  <2>6. Paid(u)
    BY <1>1, <1>7, <2>1 DEF Turning, Paid
  <2>7. \A s \in Seats :
            /\ u.seat[s].state # "sitting"
            /\ u.seat[s].state = "playing" => u.seat[s].chips > 0
            /\ s \in Taken(u) => u.seat[s].cards
    BY <1>1, <1>7, <2>1 DEF Turning
  <2>8. IF u.phase = "preflop" THEN u.bet > 0 ELSE \A s \in InHand(u) : u.seat[s].in > 0
    BY <1>1, <1>7, <2>1 DEF Turning
  <2>9. \A x : \E s \in InHand(u) : s # x
    BY <1>4, <2>1, <2>3
  <2>10. Contested(u)
    BY <2>4, <2>5, <2>6, <2>7, <2>8, <2>9 DEF Contested
  <2> QED
    BY <1>2, <1>3, <1>7, <2>2, <2>10 DEF Funded
<1> QED
  BY <1>3, <1>5, <1>6, <1>7

(* The clock.                                                              *)
LEMMA CheckTimeoutFunded ==
  ASSUME NEW t, Funded(t), t.live, NEW u \in CheckTimeout(t)
  PROVE  Funded(u)
<1> SUFFICES ASSUME u # t PROVE Funded(u)
  OBVIOUS
<1> DEFINE s == Current(t)
<1>1. TableOK(t) /\ Contested(t)
  BY DEF Funded
<1>2. s \in Unacted(t) /\ \E w : Turned(t, s, w) /\ u \in Proceed(w)
  BY <1>1, CheckTimeoutIs
<1>3. t.action \in Unacted(t) /\ s = t.action
  BY <1>1, <1>2 DEF Contested, Current
<1> HIDE DEF s
<1> QED
  BY <1>2, <1>3, ProceedFunded

(* A client's action.                                                      *)
LEMMA RespondFunded ==
  ASSUME NEW t, Funded(t), t.live, NEW p, NEW a \in Bids, NEW u \in Respond(t, p, a)
  PROVE  Funded(u)
<1> SUFFICES ASSUME u # t PROVE Funded(u)
  OBVIOUS
<1> DEFINE s == Current(t)
<1> DEFINE w == Apply(t, s, a)
<1>1. TableOK(t) /\ Contested(t)
  BY DEF Funded
<1>2. s \in Unacted(t) /\ Turned(t, s, w) /\ u \in Proceed(w)
  BY <1>1, RespondIs
<1> HIDE DEF w
<1>3. t.action \in Unacted(t) /\ s = t.action
  BY <1>1, <1>2 DEF Contested, Current
<1> HIDE DEF s
<1> QED
  BY <1>2, <1>3, ProceedFunded

(* A message.                                                              *)
LEMMA ProcessActionFunded ==
  ASSUME Funded(table), NEW p, NEW a \in Bids, NEW late \in BOOLEAN, NEW lapsed,
         ProcessAction(p, a, late, lapsed)
  PROVE  Funded(table')
<1>1. table.live /\ lapsed = {}
  BY ProcessActionIs DEF Funded, Balanced
<1>2. PICK t1, t2 :
        /\ t1 = table \/ t1 \in CheckTimeout(table)
        /\ t2 = t1 \/ (t1.live /\ \E q \in lapsed : t2 \in Lapse(t1, q))
        /\ table' = t2 \/ (t2.live /\ table' \in Respond(t2, p, a))
  BY ProcessActionIs
<1>3. Funded(t1) /\ t2 = t1
  BY <1>1, <1>2, CheckTimeoutFunded
<1> QED
  BY <1>2, <1>3, RespondFunded

(* The blinds are in the pot, and the big blind is the last to act, or the *)
(* other player of a pair has posted too.                                  *)
LEMMA DealAnchored ==
  ASSUME NEW t, TableOK(t), MayStart(t), CanCover(t), CountedRight(t)
  PROVE  Anchored(OpenRound(Deal(t)))
<1> DEFINE d == Deal(t)
<1> DEFINE pos == Positions(t)
<1> DEFINE u == OpenRound(d)
<1> DEFINE S == Taken(t)
<1>1. /\ TableOK(d) /\ d.phase = "preflop" /\ d.dealer = pos.dealer
      /\ Cardinality(S) >= 2 /\ Active(d) = S /\ InHand(d) = S /\ Unacted(d) = S
      /\ \A s \in Seats : Blind(t, s) \in Nat /\ d.seat[s].in = Blind(t, s)
  BY FreshDeal
<1>2. /\ pos.dealer \in S /\ pos.sb \in S /\ pos.bb \in S /\ pos.sb # pos.bb
  BY <1>1, PositionsAre DEF TableOK
<1>3. S \in SUBSET Seats
  BY DEF Taken
<1>4. SmallBlind > 0 /\ BigBlind > 0 /\ SmallBlind \in Nat /\ BigBlind \in Nat
  BY TableAssumption
<1>5. Blind(t, pos.sb) > 0 /\ Blind(t, pos.bb) > 0
  BY <1>2, <1>4 DEF Blind
<1>6. Cardinality(S) # 2 => u.action = FirstFrom(pos.bb + 1, S)
  <2> SUFFICES ASSUME Cardinality(S) # 2 PROVE u.action = FirstFrom(pos.bb + 1, S)
    OBVIOUS
  <2>1. Cardinality(S) \in Nat
    BY <1>3, TwoAtLeast
  <2>2. FirstFrom((pos.dealer + 3) % NumSeats, S) = FirstFrom(pos.bb + 1, S)
    BY <1>1, <2>1 DEF CountedRight
  <2> HIDE DEF d, pos, S
  <2>3. OpenRound(d).action =
          FirstFrom((IF d.phase # "preflop" THEN d.dealer + 1
                     ELSE IF Cardinality(Active(d)) = 2 THEN d.dealer
                     ELSE d.dealer + 3) % NumSeats,
                    IF Unacted(d) # {} THEN Unacted(d) ELSE Active(d))
    BY <1>1, <1>2, OpenRoundIs
  <2>4. u.action = FirstFrom((pos.dealer + 3) % NumSeats, S)
    BY <1>1, <1>2, <2>3
  <2> QED
    BY <2>2, <2>4
<1>7. TableOK(u) /\ u.seat = d.seat
  <2> HIDE DEF d, pos, S
  <2> QED
    BY <1>1, <1>2, OpenRoundIs
<1> HIDE DEF d, u, pos, S
<1>8. InHand(u) = S /\ Unacted(u) = S /\ \A s \in S : u.seat[s].in = Blind(t, s)
  BY <1>1, <1>3, <1>7 DEF InHand, Unacted, Active
<1>9. ASSUME Cardinality(S) = 2 PROVE Anchored(u)
  <2>1. S = {pos.sb, pos.bb}
    <3>1. IsFiniteSet(S) /\ IsFiniteSet(S \ {pos.sb})
      BY <1>3, SeatNumbers, FS_Subset
    <3>2. Cardinality(S \ {pos.sb}) = 1
      BY <1>2, <1>9, <3>1, FS_RemoveElement
    <3>3. S \ {pos.sb} \in SUBSET Seats
      BY <1>3
    <3>4. \A x, y \in S \ {pos.sb} : x = y
      BY <3>2, <3>3, TwoAtLeast
    <3> QED
      BY <1>2, <3>4
  <2> QED
    BY <1>5, <1>8, <2>1 DEF Anchored
<1>10. ASSUME Cardinality(S) # 2 PROVE Anchored(u)
  <2> DEFINE b == pos.bb
  <2> DEFINE a == u.action
  <2>1. b \in Seats /\ b + 1 \in 0 .. NumSeats /\ b \in 0 .. NumSeats
    BY <1>2, <1>3, SeatAfter
  <2>2. a \in S /\ \A v \in S : Distance(b + 1, a) <= Distance(b + 1, v)
    <3>1. a = FirstFrom(b + 1, S)
      BY <1>6, <1>10
    <3> HIDE DEF a, b
    <3>2. S # {}
      BY <1>2
    <3> QED
      BY <1>3, <2>1, <3>1, <3>2, FirstFromIn
  <2> HIDE DEF a
  <2>3. a \in Seats /\ a \in 0 .. NumSeats
    BY <1>3, <2>2, SeatAfter
  <2>4. Distance(b + 1, b) = NumSeats - 1
    BY <2>1, DistanceIs, SeatNumbers
  <2>5. b \in S
    BY <1>2
  <2> HIDE DEF b
  <2>6. ASSUME NEW v \in S PROVE Distance(a, v) <= Distance(a, b)
    <3>1. v \in Seats
      BY <1>3
    <3>2. Distance(b + 1, v) = Distance(b + 1, a) + Distance(a, v)
      BY <2>1, <2>2, <2>3, <3>1, DistanceAdds
    <3>3. Distance(b + 1, b) = Distance(b + 1, a) + Distance(a, b)
      BY <2>1, <2>2, <2>3, <2>5, DistanceAdds
    <3>4. /\ Distance(b + 1, v) \in 0 .. NumSeats - 1 /\ Distance(b + 1, a) \in 0 .. NumSeats - 1
          /\ Distance(a, v) \in 0 .. NumSeats - 1 /\ Distance(a, b) \in 0 .. NumSeats - 1
      BY <2>1, <2>3, <3>1, DistanceNat
    <3> QED
      BY <2>4, <3>2, <3>3, <3>4, SeatNumbers
  <2>7. u.seat[b].in > 0
    BY <1>5, <1>8, <2>5 DEF b
  <2> QED
    BY <1>8, <2>5, <2>6, <2>7 DEF Anchored, a
<1> QED
  BY <1>9, <1>10 DEF u, d

(* The start of a hand.                                                    *)
LEMMA StartHandFunded ==
  ASSUME Events \subseteq {"overraise"}, Funded(table), StartHand
  PROVE  Funded(table')
<1> DEFINE d == Deal(table)
<1> DEFINE u == OpenRound(d)
<1>0. "short" \notin Events /\ "gaps" \notin Events /\ TableOK(table)
  BY DEF Funded
<1>1. /\ MayStart(table) /\ CanCover(table) /\ CountedRight(table) /\ ~table.live
      /\ TableOK(table') /\ table' = u
  BY <1>0, StartHandReady, StartHandIs
<1>2. Balanced(table) /\ \A s \in Seats : table.seat[s].in = 0
  BY <1>1 DEF Funded, Idle
<1>3. /\ TableOK(d) /\ d.live /\ d.phase = "preflop"
      /\ d.bet = BigBlind /\ d.bank = table.bank /\ d.gone = table.gone
      /\ Cardinality(Taken(table)) >= 2
      /\ Active(d) = Taken(table) /\ InHand(d) = Taken(table) /\ Unacted(d) = Taken(table)
      /\ Taken(d) = Taken(table)
      /\ \A s \in Seats :
           /\ Blind(table, s) \in Nat /\ d.seat[s].bet = Blind(table, s)
           /\ d.seat[s].in = Blind(table, s)
           /\ d.seat[s].chips = table.seat[s].chips - Blind(table, s)
           /\ d.seat[s].id = table.seat[s].id /\ d.seat[s].leaving = table.seat[s].leaving
           /\ s \in Taken(table) => d.seat[s].chips > 0 /\ d.seat[s].cards
           /\ s \notin Taken(table) => d.seat[s].state = "empty" /\ Blind(table, s) = 0
  BY <1>0, <1>1, FreshDeal
<1>4. Anchored(u)
  BY <1>0, <1>1, DealAnchored
<1>5. Taken(table) \in SUBSET Seats /\ \A x : \E s \in Taken(table) : s # x
  <2>1. Taken(table) \in SUBSET Seats
    BY DEF Taken
  <2> QED
    BY <1>3, <2>1, TwoAtLeast
<1> HIDE DEF d
<1>6. /\ u.seat = d.seat /\ u.bet = d.bet /\ u.bank = d.bank /\ u.live = d.live
      /\ u.phase = d.phase /\ u.gone = d.gone /\ u.raise = BigBlind
      /\ u.action \in Unacted(d)
  <2>1. Active(d) # {} /\ Unacted(d) # {}
    BY <1>3, <1>5
  <2> QED
    BY <1>3, <2>1, OpenRoundIs
<1> HIDE DEF u
<1>7. /\ InHand(u) = Taken(table) /\ Unacted(u) = Taken(table) /\ Taken(u) = Taken(table)
      /\ Active(u) = Taken(table)
  BY <1>3, <1>6 DEF InHand, Unacted, Active, Taken
<1>8. BigBlind \in Nat /\ BigBlind > 0 /\ MaxBank \in Nat
  BY TableAssumption
<1>9. \A s \in Seats : table.seat[s].chips \in Nat
  BY <1>0, HeldIs
<1>10. Sum(Held(u), Seats) = Sum(Held(table), Seats)
  <2>1. \A s \in Seats : Held(u)[s] = Held(table)[s]
    BY <1>2, <1>3, <1>6, <1>7, <1>9 DEF Held
  <2>2. \A s \in Seats : Held(table)[s] \in Int /\ Held(u)[s] = Held(table)[s]
    BY <1>0, <2>1, HeldIs
  <2> QED
    BY <2>2, SeatNumbers, SumEqual
<1>11. u.bet <= MaxBank
  <2> DEFINE b == Positions(table).bb
  <2>1. b \in Taken(table) /\ Blind(table, b) = BigBlind
    <3>1. b \in Taken(table) /\ Positions(table).sb # b
      BY <1>0, <1>3, PositionsAre DEF TableOK
    <3> QED
      BY <3>1 DEF Blind
  <2> HIDE DEF b
  <2>2. b \in Seats /\ d.seat[b].chips = table.seat[b].chips - BigBlind /\ d.seat[b].chips > 0
    BY <1>3, <1>5, <2>1
  <2>3. table.seat[b].chips \in 0 .. MaxBank
    BY <1>0, <1>2, <2>2, BalancedBounds
  <2> QED
    BY <1>3, <1>6, <1>8, <2>2, <2>3
<1>12. Balanced(u)
  <2>1. u.bank = Sum(Held(u), Seats) /\ u.bank <= MaxBank /\ u.gone = {}
    BY <1>2, <1>3, <1>6, <1>10 DEF Balanced
  <2>2. NobodyLeaving(u)
    BY <1>2, <1>3, <1>6 DEF Balanced, NobodyLeaving
  <2>3. \A s, v \in Taken(u) : u.seat[s].id = u.seat[v].id => s = v
    <3>1. \A s \in Taken(table) : u.seat[s].id = table.seat[s].id
      BY <1>3, <1>5, <1>6
    <3> QED
      BY <1>2, <1>7, <3>1 DEF Balanced
  <2>4. \A s \in Seats :
          /\ u.seat[s].bet <= u.seat[s].in
          /\ s \notin Taken(u) => u.seat[s].chips <= MaxBank /\ u.seat[s].in = 0
    BY <1>2, <1>3, <1>6, <1>7, <1>9 DEF Balanced
  <2> QED
    BY <1>6, <1>8, <1>11, <2>1, <2>2, <2>3, <2>4 DEF Balanced
<1>13. Contested(u)
  <2>1. \A s \in Seats :
          /\ u.seat[s].state # "sitting"
          /\ u.seat[s].state = "playing" => u.seat[s].chips > 0
          /\ s \in Taken(u) => u.seat[s].cards
    <3>1. ASSUME NEW s \in Seats, s \in Taken(table)
          PROVE  u.seat[s].state = "playing" /\ u.seat[s].chips > 0 /\ u.seat[s].cards
      BY <1>3, <1>6, <3>1 DEF Active
    <3>2. ASSUME NEW s \in Seats, s \notin Taken(table)
          PROVE  u.seat[s].state = "empty" /\ s \notin Taken(u)
      BY <1>3, <1>6, <1>7, <3>2
    <3> QED
      BY <3>1, <3>2
  <2>2. Paid(u)
    BY <1>7 DEF Paid
  <2> QED
    BY <1>3, <1>4, <1>5, <1>6, <1>7, <1>8, <2>1, <2>2 DEF Contested
<1> QED
  BY <1>1, <1>3, <1>6, <1>12, <1>13 DEF Funded

(* One seat's holdings change.                                             *)
LEMMA HeldChanged ==
  ASSUME NEW t, TableOK(t), NEW u, TableOK(u), NEW s \in Seats,
         \A x \in Seats \ {s} : Held(u)[x] = Held(t)[x]
  PROVE  Sum(Held(u), Seats) = Sum(Held(t), Seats) - Held(t)[s] + Held(u)[s]
<1> DEFINE f == Held(t)
<1> DEFINE g == Held(u)
<1>1. \A x \in Seats : f[x] \in Int /\ g[x] \in Int
  BY HeldIs
<1>2. \A x \in Seats \ {s} : g[x] = f[x]
  OBVIOUS
<1>3. IsFiniteSet(Seats)
  BY SeatNumbers
<1> HIDE DEF f, g
<1>4. Sum(g, Seats) = Sum(f, Seats) - f[s] + g[s]
  BY <1>1, <1>2, <1>3, SumChanged
<1> QED
  BY <1>4 DEF f, g

(* Somebody sits down between two hands.                                   *)
LEMMA JoinTableFunded ==
  ASSUME Events \subseteq {"overraise"}, Funded(table), NEW p \in Players, NEW s \in Seats,
         JoinTable(p, s)
  PROVE  Funded(table')
<1> DEFINE c == table.seat[s]
<1> DEFINE d == table'.seat[s]
<1>0. "join" \notin Events /\ TableOK(table) /\ Balanced(table)
  BY DEF Funded
<1>1. /\ TableOK(table') /\ \A v \in Seats \ {s} : table'.seat[v] = table.seat[v]
      /\ ~table.live /\ ~table'.live
      /\ SeatOf(table, p) = {} /\ c.state = "empty"
      /\ d.id = p /\ d.chips = BuyIn /\ d.state = "sitting"
      /\ d.bet = c.bet /\ d.in = c.in /\ d.leaving = c.leaving
      /\ table'.bank = table.bank + BuyIn /\ table'.bank <= MaxBank
      /\ table'.bet = table.bet /\ table'.raise = table.raise /\ table'.gone = table.gone
  BY <1>0, JoinTableIs DEF OthersSame
<1>2. Idle(table) /\ Idle(table')
  BY <1>0, <1>1 DEF Funded, Idle
<1>3. s \notin Taken(table) /\ Taken(table') = Taken(table) \cup {s}
  BY <1>1 DEF Taken
<1>4. BuyIn \in Nat /\ table.bank \in Int
  BY <1>0, TableAssumption DEF TableOK, TableRec
<1>5. table'.bank = Sum(Held(table'), Seats)
  <2> DEFINE f == Held(table)
  <2> DEFINE g == Held(table')
  <2>1. /\ \A x \in Seats : f[x] \in Int /\ g[x] \in Int
        /\ Sum(f, Seats) \in Nat
    BY <1>0, <1>1, HeldIs
  <2>2. \A x \in Seats \ {s} : g[x] = f[x]
    BY <1>1, <1>3 DEF Held
  <2>3. f[s] = 0 /\ g[s] = BuyIn
    BY <1>1, <1>2, <1>3, <1>4 DEF Held, Idle
  <2> HIDE DEF f, g
  <2>4. Sum(g, Seats) = Sum(f, Seats) - f[s] + g[s]
    BY <1>0, <1>1, <2>2, HeldChanged DEF f, g
  <2>5. table.bank = Sum(f, Seats)
    BY <1>0 DEF Balanced, f
  <2> QED
    BY <1>1, <1>4, <2>1, <2>3, <2>4, <2>5 DEF g
<1>6. NobodyLeaving(table')
  BY <1>0, <1>1 DEF Balanced, NobodyLeaving
<1>7. \A x, y \in Taken(table') : table'.seat[x].id = table'.seat[y].id => x = y
  <2>1. \A x \in Taken(table) : x \in Seats \ {s} /\ table.seat[x].id # p
    BY <1>1, <1>3 DEF SeatOf, Taken
  <2>2. \A x \in Taken(table) : table'.seat[x].id = table.seat[x].id
    BY <1>1, <2>1
  <2> QED
    BY <1>0, <1>1, <1>3, <2>1, <2>2 DEF Balanced
<1>8. \A x \in Seats :
        /\ table'.seat[x].bet <= table'.seat[x].in
        /\ x \notin Taken(table') => table'.seat[x].chips <= MaxBank /\ table'.seat[x].in = 0
  <2>1. ASSUME NEW x \in Seats \ {s}
        PROVE  /\ table'.seat[x].bet <= table'.seat[x].in
               /\ x \notin Taken(table') => table'.seat[x].chips <= MaxBank /\ table'.seat[x].in = 0
    BY <1>0, <1>1, <1>3 DEF Balanced
  <2>2. d.bet <= d.in /\ s \in Taken(table')
    BY <1>0, <1>1, <1>3 DEF Balanced
  <2> QED
    BY <2>1, <2>2
<1>9. Balanced(table')
  BY <1>0, <1>1, <1>5, <1>6, <1>7, <1>8 DEF Balanced
<1> QED
  BY <1>1, <1>2, <1>9 DEF Funded

(* Somebody leaves, with his stack, between two hands.                     *)
LEMMA LeavesFunded ==
  ASSUME Funded(table), ~table.live, NEW s \in Taken(table), Leaves(table, s, table')
  PROVE  Funded(table')
<1> DEFINE c == table.seat[s]
<1> DEFINE d == table'.seat[s]
<1>0. TableOK(table) /\ Balanced(table) /\ Idle(table) /\ s \in Seats
  BY DEF Funded, Taken
<1>1. /\ TableOK(table') /\ \A v \in Seats \ {s} : table'.seat[v] = table.seat[v]
      /\ d.state = "empty" /\ d.bet = 0 /\ d.in = 0
      /\ d.chips \in {0, c.chips} /\ d.leaving \in {FALSE, c.leaving}
      /\ table'.bank = table.bank - c.chips
      /\ table'.bet = table.bet /\ table'.raise = table.raise /\ table'.live = table.live
      /\ table'.gone = table.gone
  BY DEF Leaves, OthersSame
<1>2. Idle(table')
  BY <1>0, <1>1 DEF Idle
<1>3. Taken(table') = Taken(table) \ {s}
  BY <1>1 DEF Taken
<1>4. c.chips \in 0 .. MaxBank /\ table.bank \in 0 .. MaxBank /\ MaxBank \in Nat
  BY <1>0, BalancedBounds, TableAssumption
<1>5. table'.bank = Sum(Held(table'), Seats) /\ table'.bank <= MaxBank
  <2> DEFINE f == Held(table)
  <2> DEFINE g == Held(table')
  <2>1. /\ \A x \in Seats : f[x] \in Int /\ g[x] \in Int
        /\ Sum(f, Seats) \in Nat
    BY <1>0, <1>1, HeldIs
  <2>2. \A x \in Seats \ {s} : g[x] = f[x]
    BY <1>1, <1>3 DEF Held
  <2>3. f[s] = c.chips /\ g[s] = 0
    BY <1>0, <1>3, <1>4 DEF Held, Idle
  <2> HIDE DEF f, g
  <2>4. Sum(g, Seats) = Sum(f, Seats) - f[s] + g[s]
    BY <1>0, <1>1, <2>2, HeldChanged DEF f, g
  <2>5. table.bank = Sum(f, Seats)
    BY <1>0 DEF Balanced, f
  <2>6. table'.bank = Sum(g, Seats)
    BY <1>1, <1>4, <2>1, <2>3, <2>4, <2>5
  <2>7. table'.bank <= MaxBank
    BY <1>1, <1>4
  <2> QED
    BY <2>6, <2>7 DEF g
<1>6. NobodyLeaving(table')
  BY <1>0, <1>1 DEF Balanced, NobodyLeaving
<1>7. \A x, y \in Taken(table') : table'.seat[x].id = table'.seat[y].id => x = y
  <2>1. \A x \in Taken(table') : x \in Taken(table) /\ table'.seat[x].id = table.seat[x].id
    BY <1>1, <1>3 DEF Taken
  <2> QED
    BY <1>0, <2>1 DEF Balanced
<1>8. \A x \in Seats :
        /\ table'.seat[x].bet <= table'.seat[x].in
        /\ x \notin Taken(table') => table'.seat[x].chips <= MaxBank /\ table'.seat[x].in = 0
  <2>1. ASSUME NEW x \in Seats \ {s}
        PROVE  /\ table'.seat[x].bet <= table'.seat[x].in
               /\ x \notin Taken(table') => table'.seat[x].chips <= MaxBank /\ table'.seat[x].in = 0
    BY <1>0, <1>1, <1>3 DEF Balanced
  <2>2. d.bet <= d.in /\ d.in = 0 /\ d.chips <= MaxBank
    BY <1>1, <1>4
  <2> QED
    BY <2>1, <2>2
<1>9. Balanced(table')
  BY <1>0, <1>1, <1>5, <1>6, <1>7, <1>8 DEF Balanced
<1> QED
  BY <1>1, <1>2, <1>9 DEF Funded

(* The first state.                                                        *)
LEMMA InitFunded ==
  ASSUME Init
  PROVE  Funded(table)
<1>1. /\ TableOK(table) /\ ~table.live /\ table.gone = {}
      /\ table.bet = 0 /\ table.raise = 0
  BY InitIs
<1>2. PICK stacks, id :
        /\ DOMAIN stacks \subseteq Seats /\ (\A s \in DOMAIN stacks : stacks[s] \in Nat)
        /\ id \in [DOMAIN stacks -> Players]
        /\ \A s, u \in DOMAIN stacks : s # u => id[s] # id[u]
        /\ Total(stacks) <= MaxBank /\ table.bank = Total(stacks)
        /\ \A s \in Seats :
             LET c == table.seat[s]
             IN  IF s \in DOMAIN stacks
                   THEN /\ c.id = id[s] /\ c.state = "sitting" /\ c.chips = stacks[s]
                        /\ c.bet = 0 /\ c.in = 0 /\ ~c.leaving
                   ELSE c = EmptySeat
  BY InitIs
<1>3. \A s \in Seats \ DOMAIN stacks :
        /\ table.seat[s].state = "empty" /\ table.seat[s].chips = 0 /\ table.seat[s].in = 0
        /\ table.seat[s].bet = 0 /\ ~table.seat[s].leaving
  BY <1>2 DEF EmptySeat
<1>4. Taken(table) = DOMAIN stacks
  BY <1>2, <1>3 DEF Taken
<1>5. table.bank = Sum(Held(table), Seats)
  <2> DEFINE g == Held(table)
  <2> DEFINE S == DOMAIN stacks
  <2>1. S \in SUBSET Seats /\ \A s \in S : stacks[s] \in Nat /\ g[s] = stacks[s]
    BY <1>2, <1>4 DEF Held
  <2>2. \A s \in Seats \ S : g[s] = 0
    BY <1>4 DEF Held
  <2> HIDE DEF g
  <2>3. Total(stacks) = Sum(stacks, S)
    BY TotalIs
  <2> HIDE DEF S
  <2>4. Sum(stacks, S) = Sum(g, Seats)
    BY <2>1, <2>2, SumOverSeats
  <2> QED
    BY <1>2, <2>3, <2>4 DEF g
<1>6. Balanced(table)
  <2>1. NobodyLeaving(table)
    BY <1>2, <1>3 DEF NobodyLeaving
  <2>2. \A s, u \in Taken(table) : table.seat[s].id = table.seat[u].id => s = u
    BY <1>2, <1>4
  <2>3. MaxBank \in Nat /\ BigBlind \in Nat
    BY TableAssumption
  <2>4. \A s \in Seats :
          /\ table.seat[s].bet <= table.seat[s].in
          /\ s \notin Taken(table) => table.seat[s].chips <= MaxBank /\ table.seat[s].in = 0
    BY <1>2, <1>3, <1>4, <2>3
  <2> QED
    BY <1>1, <1>2, <1>5, <2>1, <2>2, <2>3, <2>4 DEF Balanced
<1>7. Idle(table)
  BY <1>2, <1>3 DEF Idle
<1> QED
  BY <1>1, <1>6, <1>7 DEF Funded

(* Every step.                                                             *)
LEMMA NextFunded ==
  ASSUME Events \subseteq {"overraise"}, Funded(table), [Next]_vars
  PROVE  Funded(table')
<1>0. TableOK(table) /\ "grace" \notin Events /\ "cashout" \notin Events /\ "folded" \notin Events
  BY DEF Funded
<1>1. CASE StartHand
  BY <1>1, StartHandFunded
<1>2. ASSUME NEW p \in Players, NEW a \in Bids, NEW late \in BOOLEAN, NEW lapsed,
             ProcessAction(p, a, late, lapsed)
      PROVE  Funded(table')
  BY <1>2, ProcessActionFunded
<1>3. ASSUME NEW p \in Players, NEW s \in Seats, JoinTable(p, s)
      PROVE  Funded(table')
  BY <1>3, JoinTableFunded
<1>4. ASSUME NEW p \in Players, Disconnect(p) \/ RequestCashOut(p)
      PROVE  Funded(table')
  <2>1. PICK s \in SeatOf(table, p) : ~table.live /\ Leaves(table, s, table')
    BY <1>0, <1>4, DisconnectIs, RequestCashOutIs
  <2>2. s \in Taken(table)
    BY DEF SeatOf
  <2> QED
    BY <2>1, <2>2, LeavesFunded
<1>5. CASE UNCHANGED table
  BY <1>5
<1> QED
  BY <1>1, <1>2, <1>3, <1>4, <1>5 DEF Next, Reconnect, vars

(* Connections are players'.                                               *)
LEMMA OnlineIsPlayers == Spec => [](online \subseteq Players)
<1>1. Init => online \subseteq Players
  <2> SUFFICES ASSUME Init PROVE online \subseteq Players
    OBVIOUS
  <2> DEFINE ids(stacks) == CHOOSE f \in [DOMAIN stacks -> Players] :
                              \A s, u \in DOMAIN stacks : s # u => f[s] # f[u]
  <2>1. PICK setup \in InitialTables :
          online = {ids(setup.stacks)[s] : s \in DOMAIN setup.stacks}
    BY DEF Init
  <2> DEFINE stacks == setup.stacks
  <2>2. \E id \in [DOMAIN stacks -> Players] :
          \A s, u \in DOMAIN stacks : s # u => id[s] # id[u]
    BY TableAssumption
  <2>3. ids(stacks) \in [DOMAIN stacks -> Players]
    BY <2>2
  <2> HIDE DEF ids
  <2> QED
    BY <2>1, <2>3
<1>2. online \subseteq Players /\ [Next]_vars => (online \subseteq Players)'
  BY DEF Next, StartHand, ProcessAction, JoinTable, Disconnect, Reconnect, RequestCashOut, vars
<1> QED
  BY <1>1, <1>2, PTL DEF Spec

(* The streets of a hand.                                                  *)
LEMMA StreetsInPlay == Range(Streets) = InPlay
<1>1. DOMAIN Streets = 1 .. 4
  BY DEF Streets
<1>2. /\ Streets[1] = "preflop" /\ Streets[2] = "flop" /\ Streets[3] = "turn"
      /\ Streets[4] = "river"
  BY DEF Streets
<1>3. Range(Streets) = {Streets[i] : i \in 1 .. 4}
  BY <1>1 DEF Range
<1> QED
  BY <1>2, <1>3 DEF InPlay

(* No hand makes or burns chips, whatever is bet, called, folded, shoved   *)
(* and timed out, however the pots are split among hands of equal rank,    *)
(* and whoever comes and goes between the hands: the stacks and the pot    *)
(* are what the wallets brought ("Conservation invariant: every chip       *)
(* wagered this hand must be paid out").  Not so if the first to act is    *)
(* not the player after the big blind (MCGameStateGaps), or if players     *)
(* leave a hand before it ends (MCGameStateFoldedLeaver).                  *)
THEOREM TableChipsConserved ==
  ASSUME Events \subseteq {"overraise"}
  PROVE  Spec => []ChipsConserved
<1> DEFINE Inv == Funded(table)
<1>1. Inv /\ [Next]_vars => Inv'
  BY NextFunded
<1>2. Init => Inv
  BY InitFunded
<1>3. Inv /\ online \subseteq Players => ChipsConserved
  <2> SUFFICES ASSUME Funded(table), online \subseteq Players PROVE ChipsConserved
    OBVIOUS
  <2>1. TableOK(table) /\ Balanced(table) /\ table \in TableRec
    BY DEF Funded, TableOK
  <2>2. table.seat \in [Seats -> Seat]
    <3>1. \A s \in Seats :
            /\ table.seat[s] \in SeatRec
            /\ table.seat[s].chips \in 0 .. MaxBank /\ table.seat[s].in \in 0 .. MaxBank
            /\ table.seat[s].bet \in 0 .. MaxBank
      BY <2>1, BalancedBounds DEF TableRec
    <3>2. \A s \in Seats : table.seat[s] \in Seat
      BY <3>1 DEF SeatRec, Seat
    <3> QED
      BY <2>1, <3>2 DEF TableRec
  <2>3. /\ table.phase \in {"waiting", "complete"} \cup InPlay
        /\ table.live = (table.phase \in InPlay)
    BY <2>1 DEF TableOK, TableRec
  <2>4. /\ table.hand \in 0 .. MaxHands /\ table.dealer \in Seats /\ table.action \in Seats
        /\ table.gone \subseteq Players /\ table.bet \in Nat /\ table.raise \in Nat
    BY <2>1 DEF TableRec
  <2>5. /\ table.bet \in 0 .. MaxBank /\ table.raise \in 0 .. MaxBank + BigBlind
        /\ table.bank \in 0 .. MaxBank
    <3>1. MaxBank \in Nat /\ BigBlind \in Nat
      BY TableAssumption
    <3>2. table.bank \in 0 .. MaxBank
      BY <2>1, <3>1, HeldIs DEF Balanced
    <3> QED
      BY <2>1, <2>4, <3>1, <3>2 DEF Balanced
  <2>6. \A s, u \in Taken(table) : table.seat[s].id = table.seat[u].id => s = u
    BY <2>1 DEF Balanced
  <2>7. TypeOK
    BY <2>2, <2>3, <2>4, <2>5, <2>6, StreetsInPlay DEF TypeOK
  <2>8. table.bank = Total([s \in Taken(table) |-> table.seat[s].chips + table.seat[s].in])
    BY <2>1, TotalHeld DEF Balanced
  <2> QED
    BY <2>7, <2>8 DEF ChipsConserved
<1> QED
  BY <1>1, <1>2, <1>3, OnlineIsPlayers, PTL DEF Spec
=============================================================================
