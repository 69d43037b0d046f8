--------------------------- MODULE TournamentDesk ---------------------------
(***************************************************************************)
(* The entry fees of a tournament: the handlers /api/tournaments/join,     *)
(* leave and rebuy of cli/poker_ws_server.cpp over class TournamentServer  *)
(* and the manager of module Tournament.  A handler takes its cost with    *)
(* one ledger transaction and asks the server afterwards, or the other way *)
(* round; handler is what the running one still has to do.  Between its    *)
(* two steps the director may start the tournament, play hands or raise    *)
(* the blinds (he holds the manager's mutex only), or the process may die. *)
(***************************************************************************)
EXTENDS Tournament

CONSTANTS
  Purse,    \* chips every player starts with in his wallet
  Faults    \* "crash", "ledger" (a credit is refused)

ASSUME DeskAssumption == Purse \in Nat

VARIABLES
  wallet,    \* accounts.chips of every player
  entered,   \* player_tournament_map_: who is entered in the tournament
  handler    \* [op, player, due]

vars == <<status, entry, list, level, paid, wallet, entered, handler>>

EntryCost == BuyIn + Fee

Ops == {"idle", "join", "rebuy", "refund"}

Idle == [op |-> "idle", due |-> 0]

Init ==
  /\ ManagerInit
  /\ wallet = [p \in Players |-> Purse]
  /\ entered = {}
  /\ handler = Idle

-----------------------------------------------------------------------------
(* debitBuyIn, or the balance is too small and nothing happens.            *)
Debit(p, cost, op) ==
  /\ handler = Idle
  /\ cost <= wallet[p]
  /\ wallet' = [wallet EXCEPT ![p] = @ - cost]
  /\ handler' = [op |-> op, player |-> p, due |-> cost]
  /\ UNCHANGED <<manager, entered>>

PayEntry(p) == Debit(p, EntryCost, "join")

(* GetTournamentRebuyCost: no rebuys, no debit.                            *)
PayRebuy(p) == MaxRebuys > 0 /\ RebuyCost > 0 /\ Debit(p, RebuyCost, "rebuy")

(* JoinTournament took the player.                                         *)
Joined ==
  LET p == handler.player IN
  /\ handler.op = "join"
  /\ p \notin entered
  /\ RegisterPlayer(p)
  /\ entered' = entered \cup {p}
  /\ handler' = Idle
  /\ UNCHANGED wallet

(* The server does not ask whether it knows the player as entered.         *)
Rebought ==
  /\ handler.op = "rebuy"
  /\ Rebuy(handler.player)
  /\ handler' = Idle
  /\ UNCHANGED <<wallet, entered>>

(* Mutant of Refused: a rebuy that is refused is not refunded.             *)
RefusedKeeps ==
  /\ \/ handler.op = "join" /\ (handler.player \in entered \/ ~MayRegister(handler.player))
     \/ handler.op = "rebuy" /\ ~MayRebuy(handler.player)
  /\ handler' = IF handler.op = "rebuy" THEN Idle ELSE [handler EXCEPT !.op = "refund"]
  /\ UNCHANGED <<manager, wallet, entered>>

Refused ==
  /\ \/ handler.op = "join" /\ (handler.player \in entered \/ ~MayRegister(handler.player))
     \/ handler.op = "rebuy" /\ ~MayRebuy(handler.player)
  /\ handler' = [handler EXCEPT !.op = "refund"]
  /\ UNCHANGED <<manager, wallet, entered>>

(* Mutant of Leave: the server forgets to erase the player from its map.   *)
LeaveStaysInMap(p) ==
  /\ handler = Idle
  /\ p \in entered
  /\ UnregisterPlayer(p)
  /\ handler' = [op |-> "refund", player |-> p, due |-> EntryCost]
  /\ UNCHANGED <<wallet, entered>>

(* LeaveTournament, then the refund.  (The status it reads without the     *)
(* manager's mutex decides about the refund only, and UnregisterPlayer     *)
(* tests it again.)                                                        *)
Leave(p) ==
  /\ handler = Idle
  /\ p \in entered
  /\ UnregisterPlayer(p)
  /\ entered' = entered \ {p}
  /\ handler' = IF EntryCost > 0 THEN [op |-> "refund", player |-> p, due |-> EntryCost]
                ELSE Idle
  /\ UNCHANGED wallet

(* refundBuyIn.                                                            *)
Refund ==
  /\ handler.op = "refund"
  /\ wallet' = [wallet EXCEPT ![handler.player] = @ + handler.due]
  /\ handler' = Idle
  /\ UNCHANGED <<manager, entered>>

(* The ledger refuses; join and rebuy do not even look at the result.      *)
RefundFails ==
  /\ "ledger" \in Faults
  /\ handler.op = "refund"
  /\ handler' = Idle
  /\ UNCHANGED <<manager, wallet, entered>>

(* Tournaments are in the memory of the process only; a new one is set up  *)
(* when it starts again.                                                   *)
Crash ==
  /\ "crash" \in Faults
  /\ status' = "registration" /\ entry' = << >> /\ list' = << >>
  /\ level' = 0 /\ paid' = << >>
  /\ entered' = {}
  /\ handler' = Idle
  /\ UNCHANGED wallet

Handle == \E p \in Players : PayEntry(p) \/ PayRebuy(p) \/ Leave(p)

Finish == Joined \/ Rebought \/ Refused \/ Refund \/ RefundFails

Next == Handle \/ Finish \/ (Direct /\ UNCHANGED <<wallet, entered, handler>>) \/ Crash

Spec == Init /\ [][Next]_vars

-----------------------------------------------------------------------------
TypeOK ==
  /\ ManagerTypeOK
  /\ wallet \in [Players -> Nat]
  /\ entered \subseteq Players
  /\ handler = Idle \/ handler \in [op: Ops, player: Players, due: Nat]

Fees(e) == Fee * Cardinality(DOMAIN e)

(* The add-ons in the prize pool: no handler debits them.                  *)
Unpaid(e) == AddonCost * Cardinality({p \in DOMAIN e : e[p].addon})

Worth == SumFunction(wallet)
           + PrizePool(entry) - Unpaid(entry) + Fees(entry) + handler.due

(* The prize pool is backed: whatever joins, rebuys and leaves were tried, *)
(* refused and refunded, entries and wallets are never worth more than the *)
(* wallets were, no chips are played that were not sold, and the server's  *)
(* map and the manager know the same players, so nobody plays who could    *)
(* still leave and be refunded.                                            *)
PoolBacked ==
  /\ TypeOK
  /\ ChipsSold
  /\ Worth <= Purse * Cardinality(Players)
  /\ entered = Registered

(* Chips are lost by a crash and by a refund the ledger refuses only: all  *)
(* the other ways through the handlers keep them, whatever the director    *)
(* did between their two steps.                                            *)
EntriesKept == [][Worth' < Worth => Crash \/ RefundFails]_vars
=============================================================================
