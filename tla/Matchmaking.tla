---------------------------- MODULE Matchmaking -----------------------------
(***************************************************************************)
(* The matchmaking queue of cli/poker_ws_server.cpp (JoinMatchmaking,      *)
(* LeaveMatchmaking) with the tables, wallets and seats it works on.  The  *)
(* server handles one request at a time, so a request is one step here;    *)
(* what is between the debit and the seat of one player (a crash, a ledger *)
(* that fails, the entries kept for recovery) is in Cashier, and so is     *)
(* what a lost connection does to his seat.                                *)
(***************************************************************************)
EXTENDS Integers, Sequences, FiniteSets, FiniteSetsExt, SequencesExt

CONSTANTS
  Players,
  Games,          \* "nlhe", "plo": only compared
  Unit,           \* amounts are multiples of one Unit-th of a chip
  BuyIns,         \* amounts players ask for, in these parts of a chip
  Purse,          \* chips every player starts with
  MatchSize,      \* MATCH_TABLE_SIZE
  MaxTables,      \* g_max_tables: POKER_MAX_TABLES
  ServerTables,   \* ServerConfig::max_tables of the GameServer
  StartTables,    \* tables main() opens
  MinBuyIn,       \* default_min_buy_in of every table
  MaxBuyIn        \* default_max_buy_in

ASSUME MatchmakingAssumption ==
  /\ IsFiniteSet(Players)
  /\ BuyIns \subseteq Nat \ {0}
  /\ {Purse, MinBuyIn, MaxBuyIn, MaxTables, ServerTables, StartTables} \subseteq Nat
  /\ {MatchSize, Unit} \subseteq Nat \ {0}
  /\ StartTables <= ServerTables

VARIABLES
  wallet,    \* accounts.chips
  queue,     \* g_match_queue
  tables,    \* number of tables of the GameServer; the server closes none
  seats      \* who sits at the tables opened by matches

lobby == <<wallet, queue, tables, seats>>

Entry == [player: Players, game: Games, buyIn: BuyIns]

(* asked: the buy-in of the entry that was matched (history).              *)
Seat == [player: Players, table: Nat, chips: Nat, asked: BuyIns]

Queued == {queue[i].player : i \in DOMAIN queue}

MatchInit ==
  /\ wallet = [p \in Players |-> Purse]
  /\ queue = << >>
  /\ tables = StartTables
  /\ seats = {}

-----------------------------------------------------------------------------
(* Mutant of Compatible: std::abs is forgotten.                            *)
CompatibleAbove(e, new) == e.game = new.game /\ 2 * (new.buyIn - e.buyIn) <= new.buyIn

(* Within half of the newcomer's amount, in the newcomer's game: compared  *)
(* as the doubles the players sent (exact but for a last bit, which moves  *)
(* the limit by far less than a chip).                                     *)
Compatible(e, new) ==
  /\ e.game = new.game
  /\ 2 * (e.buyIn - new.buyIn) <= new.buyIn
  /\ 2 * (new.buyIn - e.buyIn) <= new.buyIn

(* The indices of the matched entries, which the newcomer's is one of.     *)
Matched(entries) == {i \in DOMAIN entries : Compatible(entries[i], Last(entries))}

(* Mutant of CanOpen: a player more than a table has seats.                *)
CanOpenForMore(matched) ==
  Cardinality(matched) > MatchSize /\ tables < MaxTables /\ tables < ServerTables

(* Enough for a table, and both limits allow one: at MaxTables the         *)
(* newcomer is told that the server is full, at ServerTables CreateTable   *)
(* returns no table and he is told to wait.                                *)
CanOpen(matched) ==
  Cardinality(matched) >= MatchSize /\ tables < MaxTables /\ tables < ServerTables

(* static_cast<int64_t>: what is played for is whole chips.                *)
Chips(amount) == amount \div Unit

(* Who may and can pay n.                                                  *)
Paying(entries, matched, n) ==
  {i \in matched : n \in MinBuyIn .. MaxBuyIn /\ n <= wallet[entries[i].player]}

(* The new table's players: seatPlayerWithBuyIn takes who can pay the      *)
(* newcomer's buy-in, from the last entry to the first, while there are    *)
(* seats; a buy-in without a seat is refunded.                             *)
Seated(entries, matched, n) ==
  LET paying == Paying(entries, matched, n)
  IN  {entries[i] : i \in {j \in paying : Cardinality({k \in paying : k > j}) < MatchSize}}

(* Mutant of Dequeued: the entries are erased from the first to the last,  *)
(* so that the later indices are stale.                                    *)
DequeuedForward(entries, matched) ==
  MapThenFoldSet(LAMBDA i, q : IF i \in DOMAIN q THEN RemoveAt(q, i) ELSE q, entries,
                 LAMBDA i : i, LAMBDA S : Max(S), matched)

(* Everybody matched leaves the queue, seated or not: the entries are      *)
(* erased from the last to the first.                                      *)
Dequeued(entries, matched) ==
  MapThenFoldSet(LAMBDA i, q : RemoveAt(q, i), entries,
                 LAMBDA i : i, LAMBDA S : Min(S), matched)

Debited(seated, n) ==
  [p \in Players |-> IF \E e \in seated : e.player = p THEN wallet[p] - n ELSE wallet[p]]

Join(new) ==
  LET entries == Append(queue, new)
      matched == Matched(entries)
      chips   == Chips(new.buyIn)
      seated  == Seated(entries, matched, chips)
  IN
  /\ new.player \notin Queued
  /\ IF CanOpen(matched)
       THEN /\ tables' = tables + 1
            /\ seats' = seats \cup {[player |-> e.player, table |-> tables + 1,
                                     chips |-> chips, asked |-> e.buyIn] : e \in seated}
            /\ wallet' = Debited(seated, chips)
            /\ queue' = Dequeued(entries, matched)
       ELSE /\ queue' = entries
            /\ UNCHANGED <<wallet, tables, seats>>

(* LeaveMatchmaking.                                                       *)
Leave(p) ==
  /\ \E i \in DOMAIN queue :
       /\ queue[i].player = p
       /\ \A j \in 1 .. i - 1 : queue[j].player # p
       /\ queue' = RemoveAt(queue, i)
  /\ UNCHANGED <<wallet, tables, seats>>

(* The seat is vacated and its stack credited, at once or at the end of    *)
(* the hand (Cashier has the two apart); the table stays open.             *)
GiveUpSeat(s) ==
  /\ seats' = seats \ {s}
  /\ wallet' = [wallet EXCEPT ![s.player] = @ + s.chips]
  /\ UNCHANGED <<queue, tables>>

MatchNext ==
  \/ \E new \in Entry : Join(new)
  \/ \E p \in Players : Leave(p)
  \/ \E s \in seats : GiveUpSeat(s)

MatchSpec == MatchInit /\ [][MatchNext]_lobby

-----------------------------------------------------------------------------
MatchTypeOK ==
  /\ wallet \in [Players -> Nat]
  /\ queue \in Seq(Entry)
  /\ tables \in StartTables .. ServerTables
  /\ seats \subseteq Seat

(* Players who agree on game and buy-in do not wait for each other: as     *)
(* many as fill a table are matched by the last of them, whatever others   *)
(* came, left and were matched meanwhile, as long as a table can be opened *)
(* (from then on everybody waits for ever, since no table is ever closed). *)
EnoughAreMatched ==
  tables < Min({MaxTables, ServerTables}) =>
    \A g \in Games, n \in BuyIns :
      Cardinality({i \in DOMAIN queue : queue[i].game = g /\ queue[i].buyIn = n}) < MatchSize

(* Chips are in the wallets and at the tables.                             *)
ChipsKept ==
  SumFunction(wallet) + SumFunction([s \in seats |-> s.chips]) = Purse * Cardinality(Players)

(* At most twice what the player asked for, and less than a chip short of  *)
(* two thirds of it.                                                       *)
AsAsked(s) == s.chips * Unit <= 2 * s.asked /\ 3 * (s.chips + 1) * Unit > 2 * s.asked

(* The whole chips of the newcomer's amount are what everybody plays for   *)
(* and what each of them pays, through refused seats and leaving, and they *)
(* are near what each had asked for when he came.                          *)
StakesPaid ==
  /\ MatchTypeOK /\ ChipsKept
  /\ \A s \in seats : AsAsked(s)

NewSeats == {s.player : s \in seats' \ seats}

(* One request, one seat: nobody is seated and still queued, and an entry  *)
(* that goes without a seat was withdrawn, or could not pay the newcomer's *)
(* chips, or was one of more players than the table has seats.            *)
EntriesServedOnce ==
  [][/\ NewSeats \cap Queued' = {}
     /\ \A p \in (Queued \ Queued') \ NewSeats :
          \/ Leave(p)
          \/ \E new \in Entry : /\ Join(new)
                                /\ \/ Chips(new.buyIn) \notin MinBuyIn .. Min({MaxBuyIn, wallet[p]})
                                   \/ Cardinality(Queued \ Queued') >= MatchSize]_lobby
=============================================================================
