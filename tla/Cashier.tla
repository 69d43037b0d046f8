------------------------------- MODULE Cashier ------------------------------
(***************************************************************************)
(* The chips on their way between the wallets and the tables:              *)
(* cli/poker_ws_server.cpp.  Wallets are in the database, everything else  *)
(* is in the memory of the server, whose main loop handles one message at  *)
(* a time.  A handler that moves chips does it in two steps, one of them a *)
(* ledger transaction (one Move of the Wallet), and the process may die    *)
(* between them; handler is what the running one still has to do.          *)
(*                                                                         *)
(* A hand is reduced to what the cashier sees of it: chips go from stacks  *)
(* to bets, players fold, and in the end the bets go to somebody who has   *)
(* not folded (GameState and PotManager have the rest), or to nobody: that *)
(* a hand may lose chips is GameState's to say when, here any may.         *)
(***************************************************************************)
EXTENDS Integers, Sequences, FiniteSets, FiniteSetsExt, Functions

CONSTANTS
  Players, Tables,
  Nobody,         \* id of an empty seat
  Seats,          \* seat numbers of a table
  Purse,          \* chips every player starts with in his wallet
  BuyIns,         \* amounts players buy in for
  Faults          \* "crash", "ledger" (a credit fails), "alert" (a kick)

ASSUME CashierAssumption ==
  /\ Nobody \notin Players
  /\ "offline" \notin Tables
  /\ IsFiniteSet(Players) /\ IsFiniteSet(Tables) /\ IsFiniteSet(Seats)
  /\ Seats \subseteq Nat
  /\ Purse \in Nat
  /\ BuyIns \subseteq Nat \ {0}

VARIABLES
  wallet,    \* accounts.chips of every player
  seat,      \* seats of every table
  live,      \* tables with a hand in progress
  away,      \* disconnects_ of the tables: pairs of table and player
  at,        \* cl.table_id of the connection of a player, or "offline"
  tracked,   \* g_player_tables: pairs of table and player
  pending,   \* g_pending_buyins
  handler,   \* what the running handler still has to do
  burnt      \* history: the chips that hands have ended without paying

vars == <<wallet, seat, live, away, at, tracked, pending, handler, burnt>>

Money == [player: Players, table: Tables, amount: Nat]

(* bet: what the player has put into the pots of the hand.                 *)
Seat == [id: Players \cup {Nobody}, status: {"empty", "sitting", "playing", "folded"},
         chips: Nat, bet: Nat, leaving: BOOLEAN]

EmptySeat == [id |-> Nobody, status |-> "empty", chips |-> 0, bet |-> 0,
              leaving |-> FALSE]

(* due: the buy-in to bring to the table, or the chips to credit.          *)
Handler == [op: {"idle", "join", "match", "credit"}, due: Seq(Money)]

Idle == [op |-> "idle", due |-> << >>]

Crediting(due) == IF due = << >> THEN Idle ELSE [op |-> "credit", due |-> due]

Cash(p, t, n) == IF n = 0 THEN << >> ELSE <<[player |-> p, table |-> t, amount |-> n]>>

SeatsOf(t, p) == {s \in Seats : seat[t][s].id = p}

InHand(t) == {s \in Seats : seat[t][s].status = "playing"}

(* The main loop can take the next message: a hand with one player left    *)
(* was ended by the message that left him alone.  (A hand dealt too early  *)
(* goes on for ever with nobody in it.)                                    *)
Ready == handler = Idle /\ \A t \in live : Cardinality(InHand(t)) # 1

Init ==
  /\ wallet = [p \in Players |-> Purse]
  /\ seat = [t \in Tables |-> [s \in Seats |-> EmptySeat]]
  /\ live = {}
  /\ away = {}
  /\ at = [p \in Players |-> "offline"]
  /\ tracked = {}
  /\ pending = {}
  /\ handler = Idle
  /\ burnt = 0

-----------------------------------------------------------------------------
(* The handshake names a table, whether the player sits there or not.      *)
Connect(p, t) ==
  /\ Ready
  /\ at[p] = "offline"
  /\ at' = [at EXCEPT ![p] = t]
  /\ UNCHANGED <<wallet, seat, live, away, tracked, pending, handler, burnt>>

(* debitBuyIn, for the message join_table or for a match (a player stays   *)
(* in the matchmaking queue when his connection is gone).                  *)
BuyIn(p, t, n, op) ==
  /\ Ready
  /\ op = "match" \/ at[p] # "offline"
  /\ n <= wallet[p]
  /\ wallet' = [wallet EXCEPT ![p] = @ - n]
  /\ pending' = pending \cup {[player |-> p, table |-> t, amount |-> n]}
  /\ handler' = [op |-> op, due |-> Cash(p, t, n)]
  /\ UNCHANGED <<seat, live, away, at, tracked, burnt>>

(* The first empty seat; a `leaving` left behind by its last player stays. *)
SitDown(m) ==
  /\ SeatsOf(m.table, m.player) = {}
  /\ SeatsOf(m.table, Nobody) # {}
  /\ seat' = [seat EXCEPT ![m.table][Min(SeatsOf(m.table, Nobody))] =
                [@ EXCEPT !.id = m.player, !.status = "sitting", !.chips = m.amount]]

(* GameServer::JoinTable took the player: join_table remembers the table   *)
(* on the connection, seatPlayerWithBuyIn tracks it for the anti-cheat and *)
(* drops the pending entries.                                              *)
Joined ==
  LET m == Head(handler.due) IN
  /\ handler.op \in {"join", "match"}
  /\ SitDown(m)
  /\ IF handler.op = "join"
       THEN /\ at' = [at EXCEPT ![m.player] = m.table]
            /\ UNCHANGED <<tracked, pending>>
       ELSE /\ tracked' = tracked \cup {<<m.table, m.player>>}
            /\ pending' = {b \in pending : <<b.table, b.player>> # <<m.table, m.player>>}
            /\ UNCHANGED at
  /\ handler' = Idle
  /\ UNCHANGED <<wallet, live, away, burnt>>

(* It did not: the buy-in is refunded.  Only seatPlayerWithBuyIn drops the *)
(* pending entries.                                                        *)
NotJoined ==
  LET m == Head(handler.due) IN
  /\ handler.op \in {"join", "match"}
  /\ SeatsOf(m.table, m.player) # {} \/ SeatsOf(m.table, Nobody) = {}
  /\ pending' = IF handler.op = "join" THEN pending
                ELSE {b \in pending : <<b.table, b.player>> # <<m.table, m.player>>}
  /\ handler' = Crediting(handler.due)
  /\ UNCHANGED <<wallet, seat, live, away, at, tracked, burnt>>

(* creditCashOut, refundBuyIn: the chips are in the wallet, or the ledger  *)
(* refused them and the failure is logged.                                 *)
Credit ==
  LET m == Head(handler.due) IN
  /\ handler.op = "credit"
  /\ wallet' = [wallet EXCEPT ![m.player] = @ + m.amount]
  /\ handler' = Crediting(Tail(handler.due))
  /\ UNCHANGED <<seat, live, away, at, tracked, pending, burnt>>

CreditFails ==
  /\ "ledger" \in Faults
  /\ handler.op = "credit"
  /\ handler' = Crediting(Tail(handler.due))
  /\ UNCHANGED <<wallet, seat, live, away, at, tracked, pending, burnt>>

-----------------------------------------------------------------------------
StartHand(t) ==
  LET dealt == {s \in Seats : seat[t][s].status = "sitting" /\ seat[t][s].chips > 0} IN
  /\ Ready
  /\ t \notin live
  /\ Cardinality(dealt) > 1
  /\ seat' = [seat EXCEPT ![t] = [s \in Seats |->
                IF s \in dealt THEN [@[s] EXCEPT !.status = "playing"] ELSE @[s]]]
  /\ live' = live \cup {t}
  /\ UNCHANGED <<wallet, away, at, tracked, pending, handler, burnt>>

(* PlayerState::Bet, for whatever reason.                                  *)
Bet(t, s) ==
  /\ Ready
  /\ t \in live
  /\ seat[t][s].status = "playing"
  /\ seat[t][s].chips > 0
  /\ seat' = [seat EXCEPT ![t][s].chips = @ - 1, ![t][s].bet = @ + 1]
  /\ UNCHANGED <<wallet, live, away, at, tracked, pending, handler, burnt>>

(* A fold of a player with chips behind: his own or that of the clock.     *)
Fold(t, s) ==
  /\ Ready
  /\ t \in live
  /\ seat[t][s].status = "playing"
  /\ seat[t][s].chips > 0
  /\ seat' = [seat EXCEPT ![t][s].status = "folded"]
  /\ UNCHANGED <<wallet, live, away, at, tracked, pending, handler, burnt>>

(* The grace period of a lost connection is over (ProcessAction).          *)
GraceOver(t, p) ==
  /\ Ready
  /\ t \in live
  /\ <<t, p>> \in away
  /\ away' = away \ {<<t, p>>}
  /\ seat' = [seat EXCEPT ![t] = [s \in Seats |->
                IF @[s].id = p /\ @[s].status = "playing" /\ @[s].chips > 0
                  THEN [@[s] EXCEPT !.status = "folded", !.leaving = TRUE]
                  ELSE @[s]]]
  /\ UNCHANGED <<wallet, live, at, tracked, pending, handler, burnt>>

(* leave_table: RequestCashOut.  Who is in the hand folds, unless all-in,  *)
(* and is paid when it ends; anybody else gets his stack.                  *)
LeaveTable(p, t) ==
  /\ Ready
  /\ at[p] # "offline"
  /\ tracked' = tracked \ {<<t, p>>}
  /\ \E s \in SeatsOf(t, p) :
       IF t \in live /\ seat[t][s].status = "playing"
         THEN /\ seat' = [seat EXCEPT ![t][s] =
                   [@ EXCEPT !.leaving = TRUE,
                             !.status = IF seat[t][s].chips > 0 THEN "folded" ELSE "playing"]]
              /\ UNCHANGED handler
         ELSE /\ seat' = [seat EXCEPT ![t][s] = EmptySeat]
              /\ handler' = Crediting(Cash(p, t, seat[t][s].chips))
  /\ UNCHANGED <<wallet, live, away, at, pending, burnt>>

(* RemovePlayer: the seat of a player in the hand is kept for the grace    *)
(* period; any other is vacated, but for its `leaving`.                    *)
Keeps(t, s) == t \in live /\ seat[t][s].status = "playing"

Vacated(s) == [EmptySeat EXCEPT !.leaving = s.leaving]

(* Mutant of Disconnect: the stack is credited although the seat is kept.  *)
DisconnectPays(p) ==
  LET t == at[p] IN
  /\ Ready
  /\ t # "offline"
  /\ at' = [at EXCEPT ![p] = "offline"]
  /\ \/ SeatsOf(t, p) = {} /\ UNCHANGED <<seat, away, handler>>
     \/ \E s \in SeatsOf(t, p) :
          /\ IF Keeps(t, s)
               THEN away' = away \cup {<<t, p>>} /\ UNCHANGED seat
               ELSE /\ seat' = [seat EXCEPT ![t][s] = Vacated(@)]
                    /\ UNCHANGED away
          /\ handler' = Crediting(Cash(p, t, seat[t][s].chips))
  /\ UNCHANGED <<wallet, live, tracked, pending, burnt>>

(* leaveCurrentTable: only the table the connection remembers is left.     *)
Disconnect(p) ==
  LET t == at[p] IN
  /\ Ready
  /\ t # "offline"
  /\ at' = [at EXCEPT ![p] = "offline"]
  /\ \/ SeatsOf(t, p) = {} /\ UNCHANGED <<seat, away, handler>>
     \/ \E s \in SeatsOf(t, p) :
          IF Keeps(t, s)
            THEN away' = away \cup {<<t, p>>} /\ UNCHANGED <<seat, handler>>
            ELSE /\ seat' = [seat EXCEPT ![t][s] = Vacated(@)]
                 /\ handler' = Crediting(Cash(p, t, seat[t][s].chips))
                 /\ UNCHANGED away
  /\ UNCHANGED <<wallet, live, tracked, pending, burnt>>
-----------------------------------------------------------------------------
Pot(t) == SumFunction([s \in Seats |-> seat[t][s].bet])

(* Seats of table t whose players an alert kicks: LeaveTable, no credit.   *)
Kicked(t, alerted) == {s \in Seats : seat[t][s].id \in alerted /\ <<t, seat[t][s].id>> \in tracked}

(* Mutant of Swept: leavers keep their seats.                              *)
SweptNobody(t, alerted) == {}

(* Seats swept by VacateLeavingPlayers once the kicked ones are empty.     *)
Swept(t, alerted) == {s \in Seats \ Kicked(t, alerted) :
                        seat[t][s].id # Nobody /\ seat[t][s].leaving}

(* The i-th seat of S, from the lowest.                                    *)
Nth(S, i) == CHOOSE s \in S : Cardinality({u \in S : u <= s}) = i

(* Who stays, and whether players who joined during the hand are enough    *)
(* for the next: HAND_COMPLETE then starts it inside DoShowdown.           *)
Stays(t, alerted) ==
  {s \in Seats \ (Kicked(t, alerted) \cup Swept(t, alerted)) : seat[t][s].id # Nobody}

DealtEarly(t, alerted) ==
  Cardinality({s \in Stays(t, alerted) :
                 seat[t][s].status = "sitting" /\ seat[t][s].chips > 0}) > 1

(* What the seats may lose when w wins: he, what the pots miss (hands that *)
(* nobody is eligible for, GameState's "gaps"); two of those who stay, the *)
(* blinds of a hand dealt too early, which the end of DoShowdown clears.   *)
Losses(t, w, alerted) ==
  {lost \in [Seats -> 0 .. Purse * Cardinality(Players)] :
     /\ \A s \in Seats :
          lost[s] <= (IF s = w THEN Pot(t) ELSE 0)
                     + (IF DealtEarly(t, alerted) /\ s \in Stays(t, alerted)
                          THEN seat[t][s].chips ELSE 0)
     /\ Cardinality({s \in Seats \ {w} : lost[s] > 0}) <= 2}

(* Mutant of CashOuts: what the sweep returns is dropped.                  *)
CashOutsForgotten(t, swept, stack) == << >>

(* What VacateLeavingPlayers returns: the players swept, and their stacks. *)
CashOuts(t, swept, stack) ==
  LET paid == {s \in swept : stack[s] > 0}
  IN  [i \in 1 .. Cardinality(paid) |->
         LET s == Nth(paid, i)
         IN  [player |-> seat[t][s].id, table |-> t, amount |-> stack[s]]]

(* The hand ends with w as the winner of the pots.  HAND_COMPLETE: the     *)
(* anti-cheat may kick players from every table it tracks them on (one     *)
(* that is playing elsewhere loses his connection there), the leavers are  *)
(* swept and what they own is credited; then the players sit again, in     *)
(* the next hand, if that was dealt already, without being in it.          *)
EndHand(t, w, alerted, lost) ==
  LET kicked  == Kicked(t, alerted)
      swept   == Swept(t, alerted)
      stack   == [s \in Seats |-> seat[t][s].chips + (IF s = w THEN Pot(t) ELSE 0) - lost[s]]
      after   == [s \in Seats |->
                    CASE s \in kicked               -> Vacated(seat[t][s])
                      [] s \in swept                -> EmptySeat
                      [] seat[t][s].id = Nobody     -> seat[t][s]
                      [] OTHER -> [seat[t][s] EXCEPT !.status = "sitting",
                                                     !.chips = stack[s], !.bet = 0]]
      away_at == {u \in Tables \ {t} : \E s \in Kicked(u, alerted) : Keeps(u, s)}
  IN
  /\ handler = Idle
  /\ t \in live
  /\ w \in InHand(t)
  /\ seat' = [u \in Tables |->
                IF u = t THEN after
                ELSE [s \in Seats |-> IF s \in Kicked(u, alerted) /\ ~Keeps(u, s)
                                         THEN Vacated(seat[u][s]) ELSE seat[u][s]]]
  /\ live' = IF DealtEarly(t, alerted) THEN live ELSE live \ {t}
  /\ away' = away \cup {x \in away_at \X alerted : x \in tracked}
  /\ tracked' = {x \in tracked : x[2] \notin alerted}
  /\ handler' = Crediting(CashOuts(t, swept, stack))
  /\ burnt' = burnt + SumFunction(lost)
  /\ UNCHANGED <<wallet, at, pending>>

(* Startup refunds the entries it finds.                                   *)
RecoverOrphanedBuyIns(entries) ==
  [p \in Players |-> wallet[p] +
     SumFunction([b \in {e \in entries : e.player = p} |-> b.amount])]

(* The process dies, at any point, and starts again: nothing but the       *)
(* wallets is left, and g_pending_buyins is as empty as the tables.        *)
Crash ==
  /\ "crash" \in Faults
  /\ wallet' = RecoverOrphanedBuyIns({})
  /\ seat' = [t \in Tables |-> [s \in Seats |-> EmptySeat]]
  /\ live' = {} /\ away' = {} /\ tracked' = {} /\ pending' = {}
  /\ at' = [p \in Players |-> "offline"]
  /\ handler' = Idle
  /\ UNCHANGED burnt

Alerts(t) == IF "alert" \in Faults THEN SUBSET {seat[t][s].id : s \in InHand(t)} ELSE {{}}

Handle ==
  \/ \E p \in Players : Disconnect(p)
  \/ \E p \in Players, t \in Tables :
       \/ \E n \in BuyIns, op \in {"join", "match"} : BuyIn(p, t, n, op)
       \/ Connect(p, t)
       \/ LeaveTable(p, t)
       \/ GraceOver(t, p)
  \/ \E t \in Tables, s \in Seats : Bet(t, s) \/ Fold(t, s)
  \/ \E t \in Tables :
       \/ StartHand(t)
       \/ \E w \in InHand(t), alerted \in Alerts(t) :
            \E lost \in Losses(t, w, alerted) : EndHand(t, w, alerted, lost)

Finish == Joined \/ NotJoined \/ Credit \/ CreditFails

Next == Handle \/ Finish \/ Crash

Spec == Init /\ [][Next]_vars

-----------------------------------------------------------------------------
TypeOK ==
  /\ wallet \in [Players -> Nat]
  /\ seat \in [Tables -> [Seats -> Seat]]
  /\ live \subseteq Tables
  /\ away \subseteq Tables \X Players
  /\ at \in [Players -> Tables \cup {"offline"}]
  /\ tracked \subseteq Tables \X Players
  /\ pending \subseteq Money
  /\ handler \in Handler
  /\ handler = Idle <=> handler.due = << >>
  /\ burnt \in Nat

OnTables == SumFunction([x \in Tables \X Seats |->
                          seat[x[1]][x[2]].chips + seat[x[1]][x[2]].bet])

Due == SumFunction([i \in DOMAIN handler.due |-> handler.due[i].amount])

Worth == SumFunction(wallet) + OnTables + Due

(* And with the chips known to be gone with a hand.                        *)
Booked == Worth + burnt

(* No path of a chip from wallet to table and back, and no failure on it,  *)
(* leaves it in two places: "the wallet is credited only for chips no      *)
(* longer in play" (leaveTableWithCashOut, leaveCurrentTable).  No wallet  *)
(* is overdrawn either (TypeOK).                                           *)
NoChipsMinted == TypeOK /\ Booked <= Purse * Cardinality(Players)

(* A folded player whose seat is vacated while his hand goes on leaves his *)
(* bet behind, and nothing else.                                           *)
DeadMoneyLeaves ==
  \E t \in live \cap live', s \in Seats :
    /\ InHand(t)' = InHand(t)
    /\ seat[t][s].bet > 0 /\ seat'[t][s].id = Nobody
    /\ Booked' + seat[t][s].bet = Booked

(* The end of a hand, here or at another table, that vacates the seat of a *)
(* player who is tracked there no longer.                                  *)
Kicks ==
  /\ \E t \in live : InHand(t)' # InHand(t)
  /\ \E x \in tracked \ tracked' :
       \E s \in SeatsOf(x[1], x[2]) : seat'[x[1]][s].id = Nobody

(* The only steps that lose chips, but for those the end of a hand is      *)
(* known to burn, are a crash, a credit the ledger refuses, a kick, and a  *)
(* folded player leaving with chips in the pot: all other handlers move    *)
(* them, over several messages, without loss.                              *)
LossExplained ==
  [][Booked' < Booked => Crash \/ CreditFails \/ Kicks \/ DeadMoneyLeaves]_vars

Leaving(t, p) == t \in live /\ \E s \in SeatsOf(t, p) : seat[t][s].leaving

(* Who asked to leave during a hand, or lost his connection for too long,  *)
(* does leave the table with what the hand left him (HAND_COMPLETE), at a  *)
(* table whose hands end.  (That they do is no promise of the code: the    *)
(* only clock runs inside ProcessAction, so a table whose players are all  *)
(* away, or wait for each other, keeps its hand and its leavers.)          *)
LeaversLeave ==
  \A t \in Tables : []<>(t \notin live) =>
    \A p \in Players : Leaving(t, p) ~> SeatsOf(t, p) = {}

(* "When a debit succeeds but the join hasn't completed, we record the     *)
(* entry so that startup recovery can refund any orphaned funds": a crash  *)
(* costs no more than the tables held and the cash-outs under way.         *)
OrphansRefunded ==
  [][Crash => Worth' + OnTables + (IF handler.op = "credit" THEN Due ELSE 0) >= Worth]_vars
=============================================================================
