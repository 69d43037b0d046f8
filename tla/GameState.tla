----------------------------- MODULE GameState ------------------------------
(***************************************************************************)
(* One poker table: class GameState of phase12, driven as the WebSocket    *)
(* server (cli/poker_ws_server.cpp) drives it.  A step is one call, whole: *)
(* an action may complete the betting round, deal the rest of the board,   *)
(* pay the pots, sweep the players who left and even start the next hand.  *)
(*                                                                         *)
(* Cards are abstracted to what the pots need of them: who holds some, and *)
(* at the showdown how the hands rank.  The action clock and the grace     *)
(* period of a disconnected player may have run out at any call.           *)
(***************************************************************************)
EXTENDS Integers, FiniteSets, FiniteSetsExt, PotManager

CONSTANTS
  NumSeats,        \* config_.max_players
  Players,         \* player ids
  Nobody,          \* the id of an empty seat
  SmallBlind,
  BigBlind,
  BuyIn,           \* chips a joining player brings
  MaxBank,         \* bound: chips all players together bring to the table
  Amounts,         \* the amounts of BET and RAISE messages (a BET may be of nothing)
  MaxHands,        \* bound: hands dealt
  MaxRank,         \* bound: hands rank 1 .. MaxRank at the showdown
  InitialTables,   \* the tables explored: [stacks: from seats, hand: dealt before]
  Events           \* which of the events below may happen

(* "short":     a hand starts although somebody cannot cover his blind     *)
(* "overraise": a RAISE message asks for more than its sender has          *)
(* "grace":     a player who is in the hand disconnects                    *)
(* "cashout":   a player who is in the hand leaves the table               *)
(* "folded":    a player who folded leaves or disconnects before its end   *)
(* "join":      players join while a hand is in progress                   *)
(* "gaps":      a hand starts although an empty seat next to the blinds    *)
(*              makes somebody else than the player after them act first   *)
AllEvents == {"short", "overraise", "grace", "cashout", "folded", "join", "gaps"}

Seats == 0 .. NumSeats - 1

ASSUME TableAssumption ==
  /\ NumSeats \in Nat \ {0, 1}
  /\ Nobody \notin Players
  /\ SmallBlind \in Nat \ {0} /\ BigBlind \in Nat /\ SmallBlind <= BigBlind
  /\ BuyIn \in Nat \ {0}
  /\ MaxRank \in Nat \ {0} /\ MaxHands \in Nat /\ MaxBank \in Nat
  /\ Amounts \subseteq Nat
  /\ Events \subseteq AllEvents
  /\ \A setup \in InitialTables :
       LET stacks == setup.stacks
       IN  /\ DOMAIN stacks \subseteq Seats
           /\ \A s \in DOMAIN stacks : stacks[s] \in Nat
           /\ Total(stacks) <= MaxBank
           /\ \E id \in [DOMAIN stacks -> Players] :
                \A s, u \in DOMAIN stacks : s # u => id[s] # id[u]
           /\ setup.hand \in 0 .. MaxHands

VARIABLES
  table,    \* the GameState object
  online    \* players with an open connection

vars == <<table, online>>

-----------------------------------------------------------------------------
(* A seat: PlayerState.  "cards" says that it holds hole cards.            *)
EmptySeat == [id |-> Nobody, state |-> "empty", chips |-> 0, bet |-> 0, in |-> 0,
              acted |-> FALSE, leaving |-> FALSE, cards |-> FALSE]

SeatStates == {"empty", "sitting", "playing", "folded", "allin"}

Streets == <<"preflop", "flop", "turn", "river">>

(* What DoShowdown found and paid, seat by seat.                           *)
NothingSettled == [s \in Seats |-> [in |-> 0, out |-> 0, folded |-> FALSE]]

NoSeat == NumSeats

Taken(t)   == {s \in Seats : t.seat[s].state # "empty"}
Sitting(t) == {s \in Seats : t.seat[s].state = "sitting"}
Active(t)  == {s \in Seats : t.seat[s].state = "playing"}
InHand(t)  == {s \in Seats : t.seat[s].state \in {"playing", "allin"}}
Unacted(t) == {s \in Active(t) : ~t.seat[s].acted}

SeatOf(t, p) == {s \in Taken(t) : t.seat[s].id = p}

(* The first seat of S clockwise from seat s, s itself included.           *)
Distance(s, u) == (u - s + NumSeats) % NumSeats
FirstFrom(s, S) == CHOOSE u \in S : \A v \in S : Distance(s, u) <= Distance(s, v)

(* PlayerState::Bet.                                                       *)
Pay(seat, amount) ==
  LET paid == Min({amount, seat.chips})
  IN  [seat EXCEPT !.chips = @ - paid, !.bet = @ + paid, !.in = @ + paid,
                   !.state = IF paid > 0 /\ paid = seat.chips THEN "allin" ELSE @]

(* GetCurrentPlayer.                                                       *)
Current(t) ==
  IF t.action \in Unacted(t) THEN t.action
  ELSE IF Unacted(t) = {} THEN NoSeat
  ELSE Min(Unacted(t))

(* Mutant of NextActionSeat: the first seat still to act, not the next one.*)
NextActionSeatFirst(t) ==
  IF Unacted(t) # {} THEN [t EXCEPT !.action = Min(Unacted(t))] ELSE t

NextActionSeat(t) ==
  [t EXCEPT !.action =
     IF Unacted(t) # {} THEN FirstFrom(@ + 1, Unacted(t))
     ELSE IF Active(t) # {} THEN FirstFrom(@ + 1, Active(t))
     ELSE @]

(* Mutant of IsBettingRoundComplete: bets are not compared.                *)
IsBettingRoundCompleteLoose(t) ==
  \/ Active(t) = {}
  \/ Cardinality(InHand(t)) <= 1
  \/ \E s \in Active(t) : Unacted(t) \subseteq {s}

IsBettingRoundComplete(t) ==
  \/ Active(t) = {}
  \/ Cardinality(InHand(t)) <= 1
  \/ /\ Unacted(t) = {}
     /\ \A s, u \in Active(t) : t.seat[s].bet = t.seat[u].bet

-----------------------------------------------------------------------------
(* Who has the button and who posts the blinds of the next hand: heads-up  *)
(* the button posts the small blind.                                       *)
Positions(t) ==
  LET dealer == FirstFrom(t.dealer + 1, Taken(t))
      next   == FirstFrom(dealer + 1, Taken(t))
      duel   == Cardinality(Taken(t)) = 2
  IN  [dealer |-> dealer,
       sb     |-> IF duel THEN dealer ELSE next,
       bb     |-> IF duel THEN next ELSE FirstFrom(next + 1, Taken(t))]

(* StartHand up to DealHoleCards: ResetHand, RotateDealer, PostBlinds,     *)
(* cards for those still sitting.                                          *)
Deal(t) ==
  LET reset  == [s \in Seats |->
                   [t.seat[s] EXCEPT !.bet = 0, !.in = 0, !.acted = FALSE, !.cards = FALSE,
                      !.state = IF @ = "empty" THEN @ ELSE "sitting"]]
      pos    == Positions(t)
      posted == [reset EXCEPT ![pos.sb] = Pay(@, SmallBlind), ![pos.bb] = Pay(@, BigBlind)]
  IN  [t EXCEPT !.seat = [s \in Seats |->
                            IF posted[s].state = "sitting"
                              THEN [posted[s] EXCEPT !.state = "playing", !.cards = TRUE]
                              ELSE posted[s]],
                !.hand = @ + 1,
                !.dealer = pos.dealer,
                !.bet = posted[pos.bb].bet,
                !.raise = BigBlind,
                !.live = TRUE,
                !.phase = "preflop",
                !.settled = NothingSettled]

(* StartBettingRound with somebody to act: the min-raise floor is the big  *)
(* blind again, and the first seat is found.                               *)
OpenRound(t) ==
  LET start == IF t.phase # "preflop" THEN t.dealer + 1
               ELSE IF Cardinality(Active(t)) = 2 THEN t.dealer
               ELSE t.dealer + 3
      from  == IF Unacted(t) # {} THEN Unacted(t) ELSE Active(t)
  IN  [t EXCEPT !.raise = BigBlind, !.action = FirstFrom(start % NumSeats, from)]

(* StartHand's guard: enough players sitting and no hand in progress.      *)
MayStart(t) ==
  /\ t.hand < MaxHands
  /\ t.phase \in {"waiting", "complete"}
  /\ Cardinality(Sitting(t)) >= 2

(* Nobody is busted and the blinds leave their posters something.          *)
CanCover(t) == \A s \in Taken(t) : Deal(t).seat[s].state = "playing" /\ t.seat[s].chips > 0

(* The third seat after the button, counted with the empty ones, leads to  *)
(* the player after the big blind.                                         *)
CountedRight(t) ==
  LET pos == Positions(t)
  IN  Cardinality(Taken(t)) > 2 =>
        FirstFrom((pos.dealer + 3) % NumSeats, Taken(t)) = FirstFrom(pos.bb + 1, Taken(t))

(* VacateLeavingPlayers, its stacks credited to the wallets.               *)
Vacate(t) ==
  LET swept == {s \in Taken(t) : t.seat[s].leaving}
  IN  [t EXCEPT !.seat = [s \in Seats |-> IF s \in swept THEN EmptySeat ELSE @[s]],
                !.bank = @ - Total([s \in swept |-> t.seat[s].chips])]

(* Every player back to sitting: the end of DoShowdown, after the events.  *)
ResetPlayers(t) ==
  [t EXCEPT !.seat = [s \in Seats |->
                        [t.seat[s] EXCEPT !.state = IF @ = "empty" THEN @ ELSE "sitting",
                           !.cards = FALSE, !.bet = 0, !.in = 0, !.acted = FALSE]],
            !.bet = 0]

(* Mutant of HandComplete: nobody sweeps the players who left.             *)
HandCompleteUnswept(t) ==
  IF MayStart(t) /\ CanCover(t) THEN OpenRound(Deal(t)) ELSE t

(* The HAND_COMPLETE event: onTableGameEvent sweeps the leavers and starts *)
(* the next hand, before DoShowdown has put the players back.  (A nested   *)
(* hand that nobody could bet in is not followed.)                         *)
HandComplete(t) ==
  LET swept == Vacate(t)
  IN  IF MayStart(swept) /\ CanCover(swept) THEN OpenRound(Deal(swept)) ELSE swept

(* DoShowdown for one outcome of the cards.                                *)
Settled(t, in, folded, out) ==
  LET paid == [t EXCEPT !.seat = [s \in Seats |-> [t.seat[s] EXCEPT !.chips = @ + out[s]]],
                        !.phase = "complete", !.live = FALSE,
                        !.settled = [s \in Seats |-> [in |-> in[s], out |-> out[s],
                                                      folded |-> s \in folded]]]
  IN  ResetPlayers(HandComplete(paid))

(* How the hands may compare (seats without one do not matter).            *)
Rankings(hands) ==
  {rank \in [Seats -> 1 .. MaxRank] : \A s \in Seats \ hands : rank[s] = 1}

DoShowdown(t) ==
  LET in     == [s \in Seats |-> IF s \in Taken(t) THEN t.seat[s].in ELSE 0]
      folded == {s \in Seats : t.seat[s].state = "folded"}
      dealt  == {s \in Seats : t.seat[s].cards}
  IN  UNION {{Settled(t, in, folded, out) : out \in Payouts(in, folded, dealt, rank)} :
               rank \in Rankings(dealt \ folded)}

(* AdvanceStreet, with the rest of the board dealt at once when at most    *)
(* one player can still act.                                               *)
AdvanceStreet(t) ==
  IF Cardinality(InHand(t)) <= 1 \/ Cardinality(Active(t)) <= 1 \/ t.phase = "river"
    THEN DoShowdown(t)
    ELSE LET next == CHOOSE i \in 1 .. 3 : Streets[i] = t.phase
         IN  {OpenRound([t EXCEPT !.phase = Streets[next + 1],
                                  !.bet = 0,
                                  !.seat = [s \in Seats |-> [@[s] EXCEPT !.acted = FALSE,
                                                                         !.bet = 0]]])}

(* What follows every action: the end of the round, or the next seat.      *)
Proceed(t) ==
  IF IsBettingRoundComplete(t) THEN AdvanceStreet(t) ELSE {NextActionSeat(t)}

-----------------------------------------------------------------------------
(* The actions a client may send.                                          *)
Bids == [type: {"fold", "check", "call", "allin"}, amount: {0}]
          \cup [type: {"bet", "raise"}, amount: Amounts]

ToCall(t, s) == Max({0, t.bet - t.seat[s].bet})

(* ActionValidator::Validate.                                              *)
Validate(t, s, a) ==
  LET seat    == t.seat[s]
      floor   == t.bet + Max({BigBlind, t.raise})
      allInTo == seat.bet + seat.chips
  IN  CASE a.type = "fold"  -> TRUE
        [] a.type = "check" -> ToCall(t, s) = 0
        [] a.type = "call"  -> ToCall(t, s) > 0
        [] a.type = "bet"   -> t.bet = 0 /\ (a.amount >= BigBlind \/ seat.chips <= BigBlind)
        [] a.type = "raise" -> a.amount > t.bet /\ (a.amount >= floor \/ allInTo < floor)
        [] a.type = "allin" -> seat.chips > 0

(* Everyone else has to act again after a bet.                             *)
Reopen(t, s) ==
  [t EXCEPT !.seat = [u \in Seats |-> IF u \in Active(t) \ {s}
                                        THEN [@[u] EXCEPT !.acted = FALSE] ELSE @[u]]]

(* The new bet of seat s, and the raise it makes.                          *)
Raised(t, s) ==
  LET bet == t.seat[s].bet
  IN  Reopen([t EXCEPT !.bet = bet, !.raise = IF bet - t.bet >= @ THEN bet - t.bet ELSE @], s)

(* Mutant of Apply: an all-in that raises leaves the others' flags alone.  *)
ApplyAllInSilently(t, s, a) ==
  LET seat    == [t.seat[s] EXCEPT !.acted = TRUE]
      after(c) == [t EXCEPT !.seat[s] = c]
      total   == Min({a.amount, seat.bet + seat.chips})
      shoved  == [Pay(seat, seat.chips) EXCEPT !.state = "allin"]
  IN  CASE a.type = "fold"  -> after([seat EXCEPT !.state = "folded"])
        [] a.type = "check" -> after(seat)
        [] a.type = "call"  ->
             LET paid == Pay(seat, ToCall(t, s))
             IN  after([paid EXCEPT !.state = IF paid.chips = 0 THEN "allin" ELSE @])
        [] a.type = "bet"   -> Raised(after(Pay(seat, a.amount)), s)
        [] a.type = "raise" -> Raised(after(Pay(seat, Max({0, total - seat.bet}))), s)
        [] a.type = "allin" -> [after(shoved) EXCEPT !.bet = Max({t.bet, shoved.bet})]

(* The switch of ProcessAction.                                            *)
Apply(t, s, a) ==
  LET seat    == [t.seat[s] EXCEPT !.acted = TRUE]
      after(c) == [t EXCEPT !.seat[s] = c]
      total   == Min({a.amount, seat.bet + seat.chips})
      shoved  == [Pay(seat, seat.chips) EXCEPT !.state = "allin"]
  IN  CASE a.type = "fold"  -> after([seat EXCEPT !.state = "folded"])
        [] a.type = "check" -> after(seat)
        [] a.type = "call"  ->
             LET paid == Pay(seat, ToCall(t, s))
             IN  after([paid EXCEPT !.state = IF paid.chips = 0 THEN "allin" ELSE @])
        [] a.type = "bet"   -> Raised(after(Pay(seat, a.amount)), s)
        [] a.type = "raise" -> Raised(after(Pay(seat, Max({0, total - seat.bet}))), s)
        [] a.type = "allin" -> IF shoved.bet > t.bet THEN Raised(after(shoved), s)
                                                     ELSE after(shoved)

(* Mutant of CheckTimeout: the free check is not recorded.                 *)
CheckTimeoutIdle(t) ==
  LET s == Current(t)
  IN  IF s = NoSeat THEN {t}
      ELSE IF t.bet <= t.seat[s].bet THEN Proceed(t)
      ELSE Proceed([t EXCEPT !.seat[s].state = "folded"])

(* CheckTimeout once the deadline has passed: a free check, or a fold.     *)
CheckTimeout(t) ==
  LET s == Current(t)
  IN  IF s = NoSeat THEN {t}
      ELSE IF t.bet <= t.seat[s].bet
        THEN Proceed([t EXCEPT !.seat[s].acted = TRUE])
        ELSE Proceed([t EXCEPT !.seat[s].state = "folded"])

(* Mutant of Lapse: the fold is not followed up.                           *)
LapseInPlace(t, p) ==
  LET seats == {s \in Active(t) : t.seat[s].id = p}
  IN  {[t EXCEPT !.gone = @ \ {p},
                 !.seat = [s \in Seats |->
                             IF s \in seats
                               THEN [@[s] EXCEPT !.state = "folded", !.leaving = TRUE]
                               ELSE @[s]]]}

(* The grace period of a disconnected player is over.                      *)
Lapse(t, p) ==
  LET seats == {s \in Active(t) : t.seat[s].id = p}
  IN  Proceed([t EXCEPT !.gone = @ \ {p},
                        !.seat = [s \in Seats |->
                                    IF s \in seats
                                      THEN [@[s] EXCEPT !.state = "folded", !.leaving = TRUE]
                                      ELSE @[s]]])

(* The action itself, if p is to act and the action is valid.              *)
Respond(t, p, a) ==
  LET s == Current(t)
  IN  IF s # NoSeat /\ t.seat[s].id = p /\ Validate(t, s, a)
        THEN Proceed(Apply(t, s, a))
        ELSE {t}

(* The tables a call leaves behind: the rest of it runs while the hand     *)
(* goes on.                                                                *)
Then(T, rest(_)) == UNION {IF t.live THEN rest(t) ELSE {t} : t \in T}

-----------------------------------------------------------------------------
(* ProcessAction: the clock, then the grace periods, then the action.      *)
(* late: the deadline of the current player has passed; lapsed: the        *)
(* players whose grace period is over (bound: one at a time is away).      *)
ProcessAction(p, a, late, lapsed) ==
  /\ p \in online
  /\ table.live
  /\ lapsed \subseteq table.gone
  /\ a.type = "raise" /\ "overraise" \notin Events =>
        \A s \in SeatOf(table, p) : a.amount <= table.seat[s].bet + table.seat[s].chips
  /\ LET clock  == IF late THEN CheckTimeout(table) ELSE {table}
         grace(t) == IF lapsed = {} THEN {t} ELSE UNION {Lapse(t, q) : q \in lapsed}
         act(t) == Respond(t, p, a)
     IN  table' \in Then(Then(clock, grace), act)
  /\ UNCHANGED online

(* A client presses start, or the server does.                             *)
StartHand ==
  /\ MayStart(table)
  /\ "short" \in Events \/ CanCover(table)
  /\ "gaps" \in Events \/ CountedRight(table)
  /\ LET dealt == Deal(table)
     IN  table' \in IF Cardinality(Active(dealt)) <= 1 THEN DoShowdown(dealt)
                                                       ELSE {OpenRound(dealt)}
  /\ UNCHANGED online

(* AddPlayerAtSeat, for a wallet that was debited (join_table).  (Bound:   *)
(* while another hand may be dealt.)                                       *)
JoinTable(p, s) ==
  /\ table.hand < MaxHands
  /\ table.live => "join" \in Events
  /\ SeatOf(table, p) = {}
  /\ table.seat[s].state = "empty"
  /\ table.bank + BuyIn <= MaxBank
  /\ table' = [table EXCEPT !.seat[s] = [@ EXCEPT !.id = p, !.chips = BuyIn,
                                                  !.state = "sitting"],
                            !.bank = @ + BuyIn]
  /\ online' = online \cup {p}

(* RemovePlayer, when the connection of p is lost (leaveCurrentTable): the *)
(* seat is kept while he is in the hand, else its stack is cashed out.     *)
Disconnect(p) ==
  /\ p \in online
  /\ online' = online \ {p}
  /\ \E s \in SeatOf(table, p) :
       IF s \in InHand(table)
         THEN /\ "grace" \in Events
              /\ table.gone = {}
              /\ table' = [table EXCEPT !.gone = @ \cup {p}]
         ELSE /\ table.live => "folded" \in Events
              /\ table' = [table EXCEPT
                             !.bank = @ - table.seat[s].chips,
                             !.seat[s] = [@ EXCEPT !.id = Nobody, !.state = "empty",
                                                   !.cards = FALSE, !.bet = 0, !.in = 0]]

(* A new connection of p: nothing calls ReconnectPlayer.                   *)
Reconnect(p) ==
  /\ p \notin online
  /\ SeatOf(table, p) # {}
  /\ online' = online \cup {p}
  /\ UNCHANGED table

(* RequestCashOut (leave_table): a player in the hand is folded and his    *)
(* seat is swept when it ends; anyone else gets his stack at once.         *)
RequestCashOut(p) ==
  /\ p \in online
  /\ \E s \in SeatOf(table, p) :
       CASE table.live /\ s \in Active(table) ->
              /\ "cashout" \in Events
              /\ table' \in Proceed([table EXCEPT !.seat[s].leaving = TRUE,
                                                  !.seat[s].state = "folded",
                                                  !.seat[s].acted = TRUE])
         [] table.live /\ s \in InHand(table) \ Active(table) ->
              /\ "cashout" \in Events
              /\ table' = [table EXCEPT !.seat[s].leaving = TRUE]
         [] OTHER ->
              /\ table.live => "folded" \in Events
              /\ table' = [table EXCEPT !.bank = @ - table.seat[s].chips,
                                        !.seat[s] = [EmptySeat EXCEPT
                                                       !.acted = table.seat[s].acted]]
  /\ UNCHANGED online

-----------------------------------------------------------------------------
(* A table at which the players of InitialTables have sat down.            *)
Init ==
  \E setup \in InitialTables :
    LET stacks == setup.stacks
        id == CHOOSE f \in [DOMAIN stacks -> Players] :
                \A s, u \in DOMAIN stacks : s # u => f[s] # f[u]
    IN  /\ table = [seat |-> [s \in Seats |->
                                IF s \in DOMAIN stacks
                                  THEN [EmptySeat EXCEPT !.id = id[s], !.state = "sitting",
                                                         !.chips = stacks[s]]
                                  ELSE EmptySeat],
                    phase |-> "waiting", hand |-> setup.hand, dealer |-> 0, action |-> 0, bet |-> 0,
                    raise |-> 0, live |-> FALSE, gone |-> {},
                    settled |-> NothingSettled, bank |-> Total(stacks)]
        /\ online = {id[s] : s \in DOMAIN stacks}

Next ==
  \/ StartHand
  \/ \E p \in Players, a \in Bids, late \in BOOLEAN, lapsed \in {{}, table.gone} :
       ProcessAction(p, a, late, lapsed)
  \/ \E p \in Players, s \in Seats : JoinTable(p, s)
  \/ \E p \in Players : Disconnect(p) \/ Reconnect(p) \/ RequestCashOut(p)

(* Some client sends a message, be it a CHECK, after the deadline of the   *)
(* player to act: ProcessAction is the only caller of CheckTimeout.        *)
ClockRunsOut == \E p \in Players : ProcessAction(p, [type |-> "check", amount |-> 0], TRUE, {})

Spec == Init /\ [][Next]_vars

(* Somebody who had to act has: he answered, left or was timed out.        *)
TurnTaken ==
  /\ table.live
  /\ \/ ~table'.live \/ table'.hand # table.hand \/ table'.phase # table.phase
     \/ ~(Unacted(table) \subseteq Unacted(table'))

(* WF_vars(TurnTaken \/ ClockRunsOut), its ENABLED written out (TLC         *)
(* evaluates it too slowly): a hand with a client and somebody to act does *)
(* not wait for ever, be it that the clock runs out on him.  Nothing says  *)
(* that it ever does on players who act in time.                           *)
FairSpec ==
  /\ Spec
  /\ \/ []<>~(table.live /\ online # {} /\ Current(table) # NoSeat)
     \/ []<><<TurnTaken \/ ClockRunsOut>>_vars

-----------------------------------------------------------------------------
Seat == [id: Players \cup {Nobody}, state: SeatStates, chips: 0 .. MaxBank,
         bet: 0 .. MaxBank, in: 0 .. MaxBank, acted: BOOLEAN, leaving: BOOLEAN,
         cards: BOOLEAN]

TypeOK ==
  /\ table.seat \in [Seats -> Seat]
  /\ table.phase \in {"waiting", "complete"} \cup Range(Streets)
  /\ table.hand \in 0 .. MaxHands
  /\ table.dealer \in Seats /\ table.action \in Seats
  /\ table.bet \in 0 .. MaxBank /\ table.raise \in 0 .. MaxBank + BigBlind
  /\ table.live = (table.phase \in Range(Streets))
  /\ table.gone \subseteq Players
  /\ table.bank \in 0 .. MaxBank
  /\ online \subseteq Players
  /\ \A s, u \in Taken(table) : table.seat[s].id = table.seat[u].id => s = u

(* The chips on the table, behind and in the pot, are those the wallets    *)
(* brought, and no stack is overdrawn (TypeOK): no hand makes or burns any,*)
(* however it goes on and ends.                                            *)
ChipsConserved ==
  /\ TypeOK
  /\ table.bank = Total([s \in Taken(table) |-> table.seat[s].chips + table.seat[s].in])

(* Who folded wins nothing, and nobody wins more from an opponent than he  *)
(* put in against him: the side pots of all-in players of any stacks.  (A  *)
(* folded player's excess over everyone still in goes to the last pot.)    *)
WinningsCapped ==
  LET of(s)     == table.settled[s]
      showing   == {s \in Seats : ~of(s).folded}
      topped(s) == \A v \in showing : of(v).in <= of(s).in
      from(u, s) == IF of(u).folded /\ topped(s) THEN of(u).in ELSE Min({of(s).in, of(u).in})
  IN  \A s \in Seats :
        of(s).out <= IF of(s).folded THEN 0 ELSE Total([u \in Seats |-> from(u, s)])

(* Somebody is to act as long as the hand goes on; otherwise every action  *)
(* is refused, the timeout finds nobody, and the hand is stranded.         *)
SomebodyToAct == table.live => Current(table) # NoSeat

(* The streets before this one were matched: whoever can still act put the *)
(* same in, and nobody put in more.                                        *)
StreetsMatched ==
  table.live =>
    LET before(s) == table.seat[s].in - table.seat[s].bet
    IN  \A s \in Active(table), u \in InHand(table) :
          /\ before(u) <= before(s)
          /\ u \in Active(table) => before(u) = before(s)

SameStreet == table.live /\ table'.live /\ table.phase = table'.phase

(* One call times out the player to act and bets nothing for the next one: *)
(* the first is asked again, after the others.                             *)
TimedOutAndAsked ==
  \E p \in Players, lapsed \in {{}, table.gone} :
    ProcessAction(p, [type |-> "bet", amount |-> 0], TRUE, lapsed)

(* Clockwise and without leaving anybody out: while the bet stands, the    *)
(* turn passes over nobody who still has to answer it.                     *)
NobodySkipped ==
  [][SameStreet /\ table'.bet = table.bet /\ ~TimedOutAndAsked =>
       \A s \in Unacted(table') :
         Distance(table.action, s) >= Distance(table.action, table'.action)]_vars

(* An all-in for less than a full raise leaves those who have acted with a *)
(* call or a fold: "it does not reopen betting" (CheckCapEffect).          *)
ShortAllInDoesNotReopen ==
  [][SameStreet /\ Cardinality(Active(table')) > 1 =>
       \A s \in Active(table) \cap Active(table') :
         /\ table.seat[s].acted /\ ~table'.seat[s].acted
         /\ table'.bet - table.bet < table.raise
         => ~\E m \in Bids : m.type = "raise" /\ Validate(table', s, m)]_vars

(* A seat to be swept is one whose player left during the hand.            *)
LeaversWereInHand ==
  \A s \in Taken(table) :
    table.seat[s].leaving => table.live /\ table.seat[s].state \in {"folded", "allin"}

(* Somebody who has answered is asked again although nobody bet more: a     *)
(* BET of nothing, which only a stack of at most the big blind may make.   *)
AskedAgain ==
  /\ SameStreet
  /\ table'.bet = table.bet
  /\ \E s \in Active(table) \cap Active(table') :
       table.seat[s].acted /\ ~table'.seat[s].acted

(* Every hand ends: "no ghost seat holds chips hostage forever".  Unless   *)
(* players go on betting nothing for ever, nothing else keeps it open.     *)
HandEnds == (table.live ~> ~table.live) \/ []<><<AskedAgain>>_vars

(* It does, whoever leaves and for how long, as long as one client of the  *)
(* table has a connection.                                                 *)
AttendedHandEnds ==
  (table.live ~> (~table.live \/ online = {})) \/ []<><<AskedAgain>>_vars

(* A hand ends whatever its players do.  (It does not: two short stacks    *)
(* may bet nothing in turn.)                                               *)
HandEndsAnyway == table.live ~> ~table.live
=============================================================================
