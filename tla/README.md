# Verification of the poker server

TLA+ models of the parts of this repository that hold or move chips, TLC
configurations that check them on small instances, and TLAPS proofs of what can
be proved for every instance. Paths below are relative to the repository root.

| module | models | source |
|---|---|---|
| `ChipLedger` | the wallet ledger: several processes on one SQLite file, one SQL statement per step, refused statements, transactions left open, crashes | `phase14/src/chip_ledger.cpp`, `account_repository.cpp`, `database.cpp` |
| `Wallet` | what the ledger promises about balances: accounts open and close, and single amounts move, atomically | the same operations, each as one step |
| `ChipLedgerProofs` | the proofs about `ChipLedger`, and that it implements `Wallet` | |
| `GameState` | one table: blinds, betting, timeouts, all-ins, showdown, leavers, lost connections | `phase12/src/game_state.cpp`, `action_validator.cpp`, `player_state.cpp` |
| `PotManager` | side pots and the split of a pot | `phase12/src/pot_manager.cpp`, `showdown_evaluator.cpp` |
| `Showdown` | a hand at its showdown, its pots built and paid, and a definition of side pots without layers | `phase12/src/game_state.cpp` (the paying loop of DoShowdown) |
| `Cashier` | chips between wallets and tables: buy-in, cash-out, match, kick, crash, recovery | `cli/poker_ws_server.cpp` |
| `Matchmaking` | the queue of players, who is matched with whom and at what stake, the limits on tables | `cli/poker_ws_server.cpp`, `cli/buy_in_policy.h`, `phase13/src/game_server.cpp` |
| `Accounts` | accounts in memory and in the database, login lockout, deletion, daily bonuses, restarts | `phase13/src/auth_service.cpp`, `phase14/src/account_repository.cpp`, `cli/poker_ws_server.cpp` |
| `Tournament` | the manager of one tournament, and the director who drives it | `phase15/src/tournament.cpp` |
| `TournamentDesk` | its entry fees: join, leave and rebuy with their debits and refunds | `phase15/src/tournament_server.cpp`, `cli/poker_ws_server.cpp` |
| `Actor` | the actor with a mutex and a condition variable | `phase13/include/poker_engine/concurrency/actor.h` |
| `LockFreeActor` | the actor over a lock-free ring | `phase20/src/actor_lockfree.cpp`, `.../lockfree_queue.h` |
| `Mailbox` | what both actors promise: messages in order, once, one at a time | |
| `ActorProofs` | the proofs that the two actors implement `Mailbox` | |
| `AsyncWriter` | the queue of write tasks, its worker, Stop and FlushNow | `phase14/include/poker_engine/persistence/async_writer.h`, `phase14/src/db_writer.cpp` |
| `AsyncWriterProofs` | the proofs about `AsyncWriter` | |
| `ServerProofs` | the proofs about `Accounts` and `Matchmaking` | |
| `CashierProofs` | the proofs about `Cashier` | |
| `TournamentProofs` | the proofs about `Tournament` and `TournamentDesk` | |
| `GameStateProofs` | the proofs about `PotManager`, `Showdown` and `GameState` | |
| `Sums` | lemmas about sums over finite sets, and the induction they rest on | |
| `MC*` | the constants and small tables of the TLC runs | |

`GameState` extends `PotManager` (DoShowdown calls BuildPots and EvaluatePot);
`Showdown` puts the same operators into a specification of their own, with the
properties of a split that have nothing to do with the betting.
`Cashier` stands between the ledger and the table: its credits and debits are
single moves of `Wallet`, and its hands are a coarse view of `GameState`.
`Matchmaking` comes before it (who is seated with what) and `Accounts` beside it
(whose balance it is). `TournamentDesk` extends `Tournament`. `Actor` and
`LockFreeActor` implement `Mailbox`, as `ChipLedger` implements `Wallet`. The
definitions of `Matchmaking` and `Showdown` carry names of their own (`MatchNext`,
`ShowdownSpec`), because their proofs share a module with those of `Accounts` and
`GameState`.

## 1. The system

A C++20 poker server. One process runs `cli/poker_ws_server.cpp`: a
single-threaded loop over sockets that handles one HTTP request or WebSocket
message at a time. Tables live in memory, accounts and the ledger in SQLite,
which other processes (a second server, `cli/db_tool`) may have open as well.

```
 client --message--> main loop --debit/credit--> ChipLedger --> SQLite
                        |   ^                        |
                        |   +--HAND_COMPLETE event   +--> PostgreSQL mirror
                        v   |
                     GameServer --> Table --> GameState --> PotManager
```

| component | state | operations | who calls it |
|---|---|---|---|
| Chip ledger (phase14) | `accounts.chips`, `wallet_transactions` | ApplyDelta, Reconcile, SaveAccount, DeleteAccount | server, Register, account deletion |
| GameState (phase12) | seats, street, bets, pots, who is disconnecting or leaving | StartHand, ProcessAction, AddPlayer, RemovePlayer, RequestCashOut, VacateLeavingPlayers | Table, GameServer |
| Pots (phase12) | none (pure) | BuildPots, EvaluatePot | DoShowdown |
| Server: cashier | connections, `g_player_tables`, `g_pending_buyins` | join_table, leave_table, lost connection, match, hand end, kick, recovery | messages and events |
| Matchmaking (server) | `g_match_queue` | join, leave, status | HTTP |
| Anti-cheat (phase16) | hand statistics, alerts | analyse a hand, kick, ban | HAND_COMPLETE |
| Auth and sessions (phase13, infra/net) | tokens, sessions, account ids | Register, Login, Verify | HTTP, handshake |
| Tournaments (phase15) | entries, levels, tables, prizes | register, eliminate, rebuy, balance, pay | tournament server |
| Reconnection manager (phase19) | disconnected players, deadlines | MarkDisconnected, MarkReconnected, timeout thread | tests only |
| Actors (phase13, phase20) | mailbox, worker thread | Tell, Ask, Start, Stop | tests only |
| Async writers (phase14) | task queue, worker | Enqueue, Flush, Stop | persistence |
| Replay, hand history, spectators, tracing | logs | record, read | events; nothing flows back |
| Solvers, CFR, arena, equity | numbers | pure computation | tools |

What is hard about it:

* **interleaving**: ApplyDelta reads, checks and writes a balance in separate
  statements while other processes do the same;
* **re-entrancy**: DoShowdown emits HAND_COMPLETE in the middle of its own work,
  and the handler sweeps seats and starts the next hand;
* **long sequences of legal calls**: folds, all-ins below a full raise,
  timeouts, grace periods and departures act on the same few flags of a seat;
* **two-step transfers**: every transfer between wallet and table writes one
  side durably and keeps the other in memory, with a crash, a refusal or an
  event in between;
* **termination**: the action clock has no timer of its own;
* **copies**: an account is in a row and in two indices in memory, a tournament
  entry in the manager and in the server's map, and each is changed separately;
* **shared memory**: mailboxes, rings and task queues are drained by the worker
  and by the thread that stops it, with flags set outside the mutex.

`PROJECT.json` lists each of these at its line under `hazards`, with the
properties that would catch it, or the reason why none does yet.

What makes each part correct: the ledger never loses an update and reconciles;
a hand conserves chips, pays side pots fairly, always waits for somebody and
ends; the cashier never has a chip in two places and loses none unexplained; a
match serves every entry once, at a stake near the one asked for; memory and
database agree about every account, the deleted stay deleted, a bonus is paid
once a day; a tournament is worth what was paid in and pays its winner; a
mailbox or a task queue loses nothing, keeps the order and stops.

## 2. The models

### ChipLedger

State: `db`, the two tables as committed (`account`: status and chips per id;
`rows`: wallet_transactions; `last`: its AUTOINCREMENT counter); `work`, the
tables as the holder of SQLite's write lock, `writer`, sees them; `conn`, what
each process is in the middle of, whether SQLite is in a transaction (`open`) and
whether that one's snapshot is `stale`; `next`, the id each process hands out next
(`AuthService::next_player_id_`). Two histories say how often an id was handed
out (`handed`) and whose deletion was asked for (`erased`).

| code | actions |
|---|---|
| ApplyDelta | `Read` or `ReadFails` (BEGIN, SELECT, the tests that follow), `UpdateRow`, `ConcurrentUpdate` or `UpdateMissed`, `InsertRow`, `InsertFails`, `InsertMissed` or `OrphanRow`, `Commit` or `CommitFails`, `Report` (mirror callback and return) |
| SaveAccount | `SaveAccount` (the account row), `SeedLedger` (the signup grant) |
| DeleteAccount | `DeleteAccount` (anonymise, chips = 0), `PurgeRows` |
| other writers on the connection | `SaveHand` (a transaction of its own), `OtherWrite` (a single statement) |
| process death and restart | `Crash` |

Modelled from the way the code uses SQLite: WAL mode and deferred transactions,
so the SELECT takes a snapshot; a statement that writes takes the write lock, and
is refused (BUSY, BUSY_SNAPSHOT) if somebody has it or has committed since
(`MayWrite`). No busy timeout is set, so refusal is immediate, and
`ResultSet::Next` does not report it. What ApplyDelta looks at, `RowsAffected()`, is
`sqlite3_changes()`: a statement that ends BUSY leaves there the 1 of whatever
the connection wrote before. Hence after a refused UPDATE the call either notices
(`ConcurrentUpdate`: nothing was written before) or goes on (`UpdateMissed`). Its
INSERT may then be refused as well (`InsertMissed`) or, if the lock is free again,
write a row that no balance goes with (`OrphanRow`). Either way SQLite refuses the
COMMIT, because the UPDATE is still unfinished; nobody looks at the result, and
the transaction stays open underneath the calls that follow, until one of them commits
it (the next ApplyDelta, a SaveHand) or rolls it back. An INSERT that follows an UPDATE
of its own is never refused, because its connection has the lock. A COMMIT that
fails on the disk is rolled back by SQLite. SaveAccount and DeleteAccount notice
nothing at all. An INSERT that cannot even be prepared (out of memory) is left out.

Ids come from a counter of each process, which only its own start compares with
the table, and SaveAccount is an INSERT OR REPLACE: two processes can hand out
the same id, put the opening chips beside the old rows, and drop the account of
somebody whose name it takes (`Saved`).

### GameState and PotManager

State: `table`, one record with the seats (`chips`, `bet` on this street, `in`
during the hand, `acted`, `leaving`, whether it holds cards), the street, the
button, the seat to act, the bet, the last raise, `gone` (`disconnects_`),
`settled` (what the last showdown took and paid) and `bank` (chips brought
minus chips taken away); `online`, the players with a connection.

One action is one call with everything it does: `ProcessAction` runs the clock
(`CheckTimeout`), the lapsed grace periods (`Lapse`) and the action (`Respond`),
each of which may finish the round, deal the board out, pay the pots (`Settled`)
and, through `HandComplete`, sweep the leavers and deal the next hand before
`ResetPlayers`. The others are `StartHand`, `JoinTable`, `Disconnect`
(RemovePlayer), `Reconnect` and `RequestCashOut`. Time is not modelled: the
deadline, or a grace period, may have passed at any call.

Cards are reduced to who holds some and how the hands rank. `std::sort` leaves
ties in any order, so the odd chips of a split pot go to any of the winners.

The constant `Events` opens the parts of the environment one by one, because
some of them break a property (section 4) and would hide everything else:
`short`, `overraise`, `grace`, `cashout`, `folded`, `join`, `gaps`. With `gaps` a
hand may start although `dealer + 3` is not the seat after the big blind; without
it, StartHand waits for a table on which the count comes out right
(`CountedRight`), as it always does when no seat is empty.

A BET may be of nothing: the server passes any amount that is not negative, and
the validator lets a stack of at most the big blind make it. It asks everybody else
again and raises nothing.

Assumed of the environment: one player is away at a time; a hand dealt inside
HAND_COMPLETE is one every player can cover; no more than `MaxHands` hands. Bots are players who act at their turn.

### Cashier

State: `wallet`; per table the seats, `live` and `away`; `at` (the table a
connection remembers), `tracked` (`g_player_tables`), `pending`
(`g_pending_buyins`), and `handler`, what the running handler still has to do.

`BuyIn` (debit) is followed by `Joined` or by `NotJoined` and a credit;
`LeaveTable`, `Disconnect` and `EndHand` vacate seats and leave `Credit` or
`CreditFails` to do. No other message is handled in between, but the process may
`Crash`, which leaves only the wallets. `StartHand`, `Bet`, `Fold` and
`GraceOver` are the hand as the cashier sees it.

Reduced: a hand ends with one winner; seats are taken in order; one
connection per player; the anti-cheat may raise an alert against any set of
players at any hand end, with the consequences of level High (a kick). Banning
is not modelled.

A hand may also lose chips: `GameState` shows when (a pot nobody is eligible for,
the blinds of a hand dealt inside DoShowdown, which its end clears), and here any
`EndHand` may lose them, up to the pot and, when the next hand was dealt early
(`DealtEarly`), up to two blinds (`Losses`). `burnt` adds them up, so that a step which
loses anything else is told apart. A hand dealt early leaves the table with a hand
that nobody is in. It takes two players in the hand and two who joined during it:
the run, with two players, does not reach it, and the proofs cover it.

### Matchmaking

State: `queue` (`g_match_queue`), `tables` (how many the GameServer has),
`seats` (who sits, with how many chips, and for how many he had asked) and
`wallet`. `Join` is the whole request: append, collect the entries within half
of the newcomer's amount, open a table if both limits allow it, seat from the
last entry to the first, debit, dequeue everybody matched. `Leave` withdraws,
`GiveUpSeat` leaves a table. Amounts are the doubles of the message: they are
compared exactly, in parts of a chip (`Unit` of them are one), and what is played
for is cut to whole chips (`Chips`) and must be within the table's limits,
`MinBuyIn` and `MaxBuyIn`. There are two limits on tables: `MaxTables` (`g_max_tables`),
where the newcomer is told that the server is full but stays queued, and
`ServerTables` (`ServerConfig::max_tables`, which the server never sets and is
the smaller), where CreateTable returns no name and he is told to wait.

### Accounts

State: `row` and `bonus` (the tables accounts and daily_bonus), `byId`, `byName`
and `nextId` (what AuthService keeps), `failed` and `locked` (login attempts),
`tokens`, `table` (chips at tables), `day`, `claim` (the daily bonus under way).
`Register`, `Login`, `LoginFails`, `DeleteAccount`, `BuyIn`, `CashOut` are one
request each. A claim is `ReadBonus`, `PayBonus`, `RecordBonus`, because midnight
(`NewDay`) or a `Crash` may come between the date it reads, the credit and the
note that it was paid. "Yesterday" is the local date of 24 hours ago
(`Yesterdays`): on a day of 25 hours (`Long`) that may be today, after one of 23
(`Short`) the day before yesterday. `Crash` rebuilds memory from the rows
(`SetAccountRepository`). A statement that fails unnoticed is `busy`. The names
"deleted_<id>" are open to anybody, as in the code.

### Tournament and TournamentDesk

State: `status`, `entry` (chips, table, out, rebuys, add-on, place of everybody
registered), `list` (who sits at which table), `level`, `paid` (the order of the
payouts); the desk adds `wallet`, `entered` (`player_tournament_map_`) and
`handler`, what the running HTTP handler still has to do. The manager's methods
hold its mutex throughout and are one action each; the handlers take the money
first (`PayEntry`, `PayRebuy`) and ask afterwards (`Joined`, `Rebought`,
`Refused`, `Refund`, `RefundFails`), or the other way round (`Leave`), with the
director's `Direct` (start, a hand with any outcome, next level, add-on) and a
`Crash` in between. The director is external: only tests call these methods.

### Actor, LockFreeActor, Mailbox

`Mailbox` is the promise: what was told, how many of them have been begun, and
the message a handler is running with. In `Actor` a step is what a thread does between two
points at which another one can come in: `Evaluate` is the predicate of the wait
under the mutex, `Park` the wait itself; `StopFlag` and `StopNotify` take no
mutex, so they can come between the two. In `LockFreeActor` every load, store and
access of a slot is a step; `reader` is where a dequeue is, `batch` what a thread
has dequeued and not handled. Neither is data-race free: a Tell during Drain is a
race on the queue of `Actor` and is left out, and `LockFreeActor` has one sender,
as its ring requires.

### AsyncWriter

State: `queue`, `running`, `flush_pending`, the positions of the worker
(WorkerLoop), of the owner (Stop) and of a `caller` of FlushNow, and `local`, the
batch each of them has swapped out. The worker's wait ends after its delay
whatever happens, so notifications are left out.

## 3. What the runs check

A few seconds to two minutes each, two workers.

| run | instance | properties |
|---|---|---|
| `ledger` | 2 processes, 1 id (handed out by both), amounts -2 and 1, balance at most 3, 3 rows, all faults; 1,140,991 states up to symmetry | `TypeOK` (no balance below 0 or above the width), `Reconciled`, `Chained`, `AppendOnly`, `Serializable` |
| `hand` | one hand with stacks 5/3/8, 3/8/5 and 5/8, two hands with 3/3/3; blinds 1/2, BETs of 0 among the amounts; 64,818 states | `ChipsConserved`, `WinningsCapped`, `SomebodyToAct`, `StreetsMatched`, `NobodySkipped`, `HandEnds` |
| `hand_gaps` | three players with 4 chips each on seats 1, 4 and 5 of six (section 4) | `ChipsConserved`, violated |
| `hand_leavers` | stacks 3/4/3; players leave or disconnect inside a hand; 32,202 states | `LeaversWereInHand`, `AttendedHandEnds` |
| `pots` | 4 players, up to 3 chips each, any of them folded, 3 ranks; 64,722 states | `SidePots`, `FairlyPaid` |
| `cashier` | 2 players with one buy-in each, 1 table, crashes, refused credits, kicks, hands that lose chips; 190,480 states | `NoChipsMinted`, `LossExplained`, `LeaversLeave` |
| `matchmaking` | 3 players, 2 games, amounts 1½, 2½, 3½ and 4½ (limits 2 and 3), purses of 5, room for 2 matches; 1,166,346 states | `EnoughAreMatched`, `StakesPaid`, `EntriesServedOnce` |
| `accounts` | 2 ids, 3 names (two of them names deletion makes), 3 days, the second short and the third long, crashes and busy statements; 1,847,827 states | `CacheIsCurrent`, `ErasedStayOut`, `IdsFresh`, `OneBonusADay`, `StreakIsRun` |
| `tournament` | 4 players, tables of 3, 1 rebuy, add-ons, 2 levels, crashes and refused refunds; 112,900 states up to symmetry | `PoolBacked`, `Seated`, `Places`, `EntriesKept`, `WinnerPaid` |
| `actor` | one teller and one asker with 2 messages each, 2 starts; 14,238 states | `OneAtATime`, `ToldIsHandled`, `StopReturns` |
| `lockfree_actor` | 4 messages, a ring of 2, batches of 2, 2 starts; 3,971 states | `OneAtATime`, `ToldIsHandled` |
| `async_writer` | 4 tasks, threshold 2, 2 starts, 1 FlushNow; 28,751 states | `InOrder`, `StopWrites`, `StopReturns`, `FullQueueWritten` |

The type invariant of a module (`TypeOK`) is a conjunct of one of its
properties: `ChipsConserved`, `NoChipsMinted`, `StakesPaid`, `CacheIsCurrent`,
`PoolBacked`, `InOrder`. Those of the two actors are not run but proved
(section 5).

What they say:

* `Reconciled`, `Chained`: an opened account has exactly the chips that the moves
  booked for it add up to, and these are one running balance. The second catches a
  lost update that a later one repairs in the sum. Opened means: the id was handed
  out once, its grant is the first row, nobody asked for its deletion; the rows left
  by `OrphanRow` are no moves (`Booked`). What is beyond that is in section 4.
  `AppendOnly`: rows only come, with fresh ids, except those of a player to be
  deleted. `Serializable`: the balances go through a behaviour of `Wallet`, as if
  each call had been atomic, for all accounts and whatever was refused; it says
  nothing of what the callers are told.
* `ChipsConserved`, `WinningsCapped`, `SidePots`, `FairlyPaid`: a hand makes and
  burns no chips, and nobody wins more from an opponent than he put in against
  him. `SidePots` compares the layers of BuildPots with a definition that knows
  no layers.
* `SomebodyToAct`, `StreetsMatched`, `NobodySkipped`, `HandEnds`: the betting
  round never strands, closes only when matched, goes clockwise past nobody
  (unless one call times out its player and bets nothing for the next, who asks him
  again), and the hand ends, unless players who have answered are asked again for
  ever although nobody bet more (`AskedAgain`). `AttendedHandEnds` is the last one with
  players who leave, which a round that nobody can act in would break as well.
* `NoChipsMinted`, `LossExplained`, `LeaversLeave`: over several messages a chip
  is never in two places; but for what the end of a hand is known to burn, it is
  lost only by a crash, a refused credit, a kick or a folded player who leaves just
  his bet behind; at a table whose hands end, who asked to leave does leave.
* `EnoughAreMatched`: as long as a table can be opened, nobody waits beside as
  many others who asked for the same as fill a table. `StakesPaid`: who is
  matched plays for at most twice what he asked for and less than a chip below two
  thirds of it, and pays just that. `EntriesServedOnce`: an entry leaves the queue with a seat,
  withdrawn, or for one of two named reasons; nobody sits and is still queued.
* `CacheIsCurrent`: the two indices hold the same accounts, and those the rows
  hold; who has a row and was not deleted is in memory. `ErasedStayOut`: after a
  deletion nobody logs in to that account again, also after restarts, unless its
  UPDATE failed unnoticed. `IdsFresh`: an id never gets another owner.
  `OneBonusADay` and `StreakIsRun`: one bonus a day and a streak of days in a row,
  unless a claim was cut short between its steps or met midnight, or, for the
  streak, was made in an hour for which 24 hours ago was not the day before.
* `PoolBacked`, `EntriesKept`: entries, rebuys and the pool are never worth more
  than the wallets paid, and no handler loses money except by a crash or a refund
  the ledger refuses. `Seated`, `Places`, `WinnerPaid`: who is in has one chair;
  places are unique and count down; the last one in gets the first prize.
* `OneAtATime`: both actors implement `Mailbox`. `ToldIsHandled`: what was told
  while the actor ran is handled, and Ask returns, even if Stop comes first.
  `StopReturns`: Stop of `Actor` returns unless its notification fell between the
  predicate and the wait, which is the flaw of section 4.
* `InOrder`, `StopWrites`, `FullQueueWritten`: no task is lost or run twice, they
  run in order unless somebody calls FlushNow, Stop returns with everything
  written, and a queue at its threshold is written.

Why the bounds are enough. Ledger: a lost update needs two processes and two
committed rows, a broken chain a third one; 3 is the least width at which -2 and
1 both fail and both succeed. One id is handed out twice and its deletion asked
for at any time. (The proofs cover any number; two ids give more than 10 million
states, and accounts meet only at the write lock and where one takes the name of
another.) Hand: three players are the least for side pots, a skipped
seat and a re-opened round; the stacks are chosen so that the all-ins happen in
every order, and the amounts contain a minimum bet, a legal raise and one below
it; two hands show that one leaves nothing behind. Pots: four players give three
layers and a folded one in between. Cashier: a table needs two players for a
hand; a second table multiplies the states beyond use, so what happens to one
player at two tables is modelled (`tracked`, `at`) but not run. Matchmaking:
three players at two-seat tables give a match that has to drop one; of 1½, 2½, 3½
and 4½ each but the first is within half of its neighbours, a newcomer with 2½ gives who asked for
3½ a game for 2, and the first and the last are outside the tables' limits. Accounts: two ids are a deleted player and somebody who takes
his name; a streak needs two days and a third to break it, and a short day and a long one are among them; one wrong password
locks, and one id claims while the other buys in, because the two do not meet.
Tournament: four players are two tables of two and a final table; one hand may
bust several. Actors: two messages of each sender, a ring with fewer slots than
messages, so that it wraps and is full, and two lives. Writer: two batches and
two lives.

Deadlock is off where the system may stop at a bound: `ledger` (`MaxRows`),
`hand` and `hand_leavers` (`MaxHands`), `pots` (one showdown), `async_writer`
(tasks and starts used up).

### Fairness

* `GameState` `FairSpec`: a hand that waits for somebody, with a client
  connected, does not wait for ever: sooner or later somebody's turn is over
  (`TurnTaken`), or some client sends a message after the deadline of the player to
  act (`ClockRunsOut`). That is weak fairness of the two together, written out
  because TLC evaluates its ENABLED slowly, which is possible because the call
  changes the table whenever the hand waits for somebody. Players who always act in
  time are never timed out. It is an assumption on clients, not on threads:
  CheckTimeout is called by ProcessAction and by nothing else. Once every client of a
  table is gone its hand stays open, which is why `hand_leavers` checks
  `AttendedHandEnds`.
* `Cashier` has no fairness: nothing in the code makes a hand end at a table that
  nobody attends. `LeaversLeave` is about tables of which it is infinitely often
  true that no hand is in progress.
* `Actor` and `LockFreeActor` `FairSpec`: weak fairness of the worker, of a Stop
  and of a Tell that have begun: threads are scheduled, a mutex is released, a
  handler returns. Nobody has to start, stop or tell anything, and no wake-up is
  spurious unless it happens to be. In `Actor` this is enough for Stop only if its notification
  was not missed, which is what `StopReturns` says.
* `AsyncWriter` `FairSpec`: weak fairness of the worker, of Stop once it has
  begun and of a FlushNow that has begun.
* The properties of the ledger, the queue, the accounts and the tournament are
  safety properties and need no fairness.

### Mutants

Each property of a passing run comes with a mutated definition (`...Blind`,
`...Unswept`, `LayerForAll` and so on, above the definition it mutates) under
which TLC reports that property violated: a dropped comparison in the betting
round, an UPDATE outside its snapshot, an unchecked INSERT, a fold that is not
followed up, indices erased in the wrong order, a Stop that does not wait for its
thread, a cache of which one index is forgotten.

## 4. Where the code and its comments disagree

The run `hand_gaps` checks `ChipsConserved`, which the comment at
`phase12/src/game_state.cpp:832-833` states: every chip wagered in a hand is paid
out. StartBettingRound lets the seat `dealer + 3` act first before the flop (`:574`),
while PostBlinds finds the blinds by skipping empty seats. With players on seats
1, 4 and 5 of six, that is the small blind. If both blinds fold, the button has
won without having put anything in: BuildPots makes no pot, and the blinds are
paid to nobody. (The proof of `TableChipsConserved` stopped at this case: it
needs somebody in the hand who has put something in, and the order of turns is
what guarantees him.)

Ten more can be shown with configurations that are kept beside the modules but
are not among the regular runs; TLC reports the property violated.

| configuration | property | what happens |
|---|---|---|
| `MCGameStateFoldedLeaver` | `ChipsConserved` | A folded player leaves or disconnects before the hand ends; his seat is cleared and what he invested is in no pot (`game_state.cpp:72-77`, `:125`; the comment at `:1044` says that folded chips stay in the pot) |
| `MCGameStateOverraise` | `SomebodyToAct` | A RAISE to more than the sender has, by a stack below the current bet, lowers the bet; the round cannot complete and nobody is to act (`game_state.cpp:390`; `:923` says that nothing may strand the hand) |
| `MCGameStateJoinMidHand` | `ChipsConserved` | Two players join during a hand; HAND_COMPLETE starts the next one inside DoShowdown, which then clears its blinds and cards (`game_state.cpp:841`) |
| `MCGameStateShortAllIn` | `ShortAllInDoesNotReopen` | An all-in below a full raise gives players who have acted another turn, and the right to raise (`game_state.cpp:408`; `:725` says it does not) |
| `MCCashierOrphan` | `OrphansRefunded` | A buy-in that was debited and not yet brought to the table when the process dies is lost: the pending buy-ins are kept in a vector of the process, which is empty at the next start (`poker_ws_server.cpp:184`; `:173-175` says that the startup recovery refunds them) |
| `MCGameStateBetZero` | `HandEndsAnyway` | Two players with at most a big blind left bet nothing in turn: each BET of 0 clears the other's `acted` flag and raises nothing, and no clock runs on players who act in time (`action_validator.cpp:59`, `game_state.cpp:377`; `:923` says that nothing may strand the hand) |
| `MCChipLedgerUnseeded` | `AccountsSeeded` | A busy database, or a crash, between the two statements of SaveAccount leaves an account the ledger does not know (`account_repository.cpp:70`; `:86` says every balance is reconcilable) |
| `MCChipLedgerMirror` | `MirrorInLedger` | A refused UPDATE and INSERT go unnoticed and COMMIT is refused, or COMMIT fails on the disk: ApplyDelta reports a success, and mirrors it, for a row that is not there (`database.cpp:208`, `:226`; `chip_ledger.cpp:74`) |
| `MCChipLedgerOrphan` | `NoOrphans` | The UPDATE is refused unnoticed, the INSERT succeeds because the lock has been given back, and the transaction left open is committed by the next SaveHand or ApplyDelta: a row without its balance, which Reconcile reports as a discrepancy for ever (`chip_ledger.cpp:59`, `:78`) |
| `MCChipLedgerSameId` | `IdsFresh` | Two processes on one file hand out the same account id, and INSERT OR REPLACE puts the opening chips beside the rows of the first (`auth_service.cpp:339`, `account_repository.cpp:70`) |

Seen while modelling, in the models unless noted, and named as an exception by
the property it would break:

* hand: with `short` a blind that takes a player's last chip leaves him all-in
  without cards, and a pot that only he may win is paid to nobody; with `cashout`
  and `grace` a leaver who was not the one to act moves the turn past the player
  who was, and the blinds are lost if both fold before anybody else has put
  anything in; nothing calls ReconnectPlayer, so a player who came back is folded
  all the same when the grace period is over; RemovePlayer leaves `leaving` set
  on a seat it vacates.
* queue: who matches whom depends on the order of arrival; with more players
  matched than seats the oldest entries are dropped; who cannot pay the
  newcomer's amount is dropped as well; "plo" entries get a NLHE table; at the
  table limits entries stay queued for ever, because no table is ever closed; an
  amount with a fraction is cut after the comparison, so that a newcomer with 15.9
  gives who asked for 23.85 a game for 15 (`poker_ws_server.cpp:249`).
* accounts: a user may register "deleted_1"; the deletion of account 1 then fails
  on the unique name, nobody notices, and the account is back after a restart. A
  crash between CreditBonus and UpdateDailyBonus pays twice; a claim over midnight
  loses the streak, because yesterday is asked of a later clock; where clocks
  change, "24 hours ago" is today in the last hour of a day of 25 hours and the day
  before yesterday in the first hour after one of 23, and a claim in that hour
  breaks a streak (`poker_ws_server.cpp:1350-1361`); an account whose
  row could not be saved exists until the next restart only.
* tournament: BalanceTables never merges tables with players
  (`tournament.cpp:334-359`); a rebuy brings a player back without a chair, also
  after the end; payouts among those who went out are in no particular order;
  add-ons enter the prize pool but are debited from nobody; no prize is credited;
  a crash forgets all entries.
* actors: Stop of `Actor` can miss its worker and wait for ever
  (`actor.h:42-43`); Ask after Stop waits for ever; Tell of `LockFreeActor`
  ignores a full ring.
* writer: below the threshold the delay writes nothing, however long
  (`async_writer.h:82-83`); tasks enqueued after Stop wait for a Start.
* bans: a Confirmed alert calls SaveBans under the mutex SaveBans locks
  (`poker_ws_server.cpp:937`), so a ban is never stored. Not modelled.

## 5. What is proved

Seven modules of theorems and one of lemmas (`Sums`), each from the assumption its
module states about its constants (they have their types). The theorems about the
table also assume that some of the `Events` do not happen; which ones, the table
says. Without those assumptions they are false (section 4).

| theorem | says |
|---|---|
| `LedgerIInv`, `ActorIInv`, `LockFreeIInv`, `WriterIInv`, `AccountsIInv` | the inductive invariants hold |
| `LedgerTypeOK` | `TypeOK`; in particular no balance ever leaves 0 .. MaxChips |
| `LedgerChained` | `Chained`: no lost update, no balance without its row |
| `LedgerReconciled` | `Reconciled`: every balance is the sum of its rows |
| `LedgerAppendOnly` | `AppendOnly` |
| `LedgerSerializable` | `Serializable`: the ledger implements `Wallet` |
| `ActorTypeOK` | `TypeOK` of `Actor` |
| `ActorOneAtATime` | `OneAtATime`: `Actor` implements `Mailbox` |
| `LockFreeRing` | `TypeOK` and `RingOK`: a message stays in its slot until it is taken |
| `LockFreeOneAtATime` | `OneAtATime`: `LockFreeActor` implements `Mailbox` |
| `WriterInOrder` | `InOrder`, with `TypeOK` and `Kept` of `AsyncWriter` |
| `WriterStopWrites` | `StopWrites` |
| `AccountsCacheIsCurrent` | `CacheIsCurrent` (with `TypeOK` of `Accounts`): memory and database agree |
| `AccountsErasedStayOut` | `ErasedStayOut` |
| `AccountsIdsFresh` | `IdsFresh`, as an action property |
| `AccountsOneBonusADay`, `AccountsStreakIsRun` | `OneBonusADay` and `StreakIsRun` |
| `MatchmakingInvariant` | the inductive invariant of `Matchmaking` |
| `MatchmakingEnoughAreMatched`, `MatchmakingStakesPaid` | `EnoughAreMatched` and `StakesPaid` (with `MatchTypeOK`) |
| `MatchmakingEntriesServedOnce` | `EntriesServedOnce`, as an action property |
| `CashierInvariant` | the inductive invariant of `Cashier` |
| `ChipsNeverMinted` | `NoChipsMinted` (with `TypeOK` of `Cashier`) |
| `LossesExplained` | `LossExplained`, as an action property |
| `BuildPotsRight`, `PayoutsRight`, `PayoutsFair` | the pots of any finite set of players, what they pay, and to whom |
| `PotsAreSidePots`, `PotsAreFairlyPaid` | `SidePots` and `FairlyPaid` |
| `DeskInvariant` | the inductive invariant of `TournamentDesk` |
| `PoolIsBacked` | `PoolBacked` (with `TypeOK` and `ChipsSold`) |
| `EverybodySeated`, `PlacesAreRight` | `Seated` and `Places` |
| `EntriesAreKept`, `WinnerIsPaid` | `EntriesKept` and `WinnerPaid`, as action properties |
| `TableWinningsCapped` | `WinningsCapped`, all events included |
| `TableSomebodyToAct`, `TableStreetsMatched` | `SomebodyToAct` and `StreetsMatched`; not `short`, `overraise`, `join` |
| `TableNobodySkipped` | `NobodySkipped`, as an action property; nor `grace`, `cashout` |
| `TableChipsConserved` | `ChipsConserved`; none but `overraise` |
| `TableLeaversWereInHand` | `LeaversWereInHand`; not `folded` |

**The ledger**, for any sets of processes and amounts, any number of ids, any width
and all faults. `LedgerAssumption` says besides types that there is an id, that
`Nobody` is no process and no player and that the opening chips fit the width. Two
things about SQLite are built into the actions: what a transaction wrote is invisible
to others and rolled back as a whole, and a stale snapshot cannot write.

The argument. `Chained` alone is not inductive: a Commit keeps it only if the
row about to be written continues the balance as it is *now*, not as it was
read; and a transaction that was left open may be committed by whatever comes next,
so the tables it has made must be right as well. `IInv` therefore says:

* `DataOK`: both the committed tables and those of the open transaction are right
  (`TablesOK`: ids identify rows and never exceed the counter, an id nobody was given
  has no rows, and every account has its `Book`), and the second extend the first
  (`Extends`: accounts were opened, dropped or made anonymous, rows were added with new
  ids or belong to somebody to be deleted).
* `Book`: the rows and chips of an account whose id was handed out once. Its chips
  are the sum of its moves and the opening chips, seeded or not yet; and if its
  grant is the first row, the rows are a running balance. The promise has to start
  before the grant, because other processes may move chips of an account between
  the two statements of SaveAccount.
* `ConnOK`: a process between its UPDATE and its COMMIT has the lock, and in the
  tables it sees the balance is the one its row starts from. Lemma `Exclusion`
  draws the consequence that no other process changes them meanwhile. A process that
  went on after a refused UPDATE is *not* in these steps: what it writes is no move.
* `SeedOK`: an id that was handed out once is seeded by one process, once.

`NextIInv` takes these apart, one lemma per part (`DataStep`, `OwnStep`, `ConnStep`,
`SeedStep`) and in each one step per action. What a statement makes of right tables is
one lemma each (`MovedTables`, `SeededTables`, `SavedTables`, `AnonymisedTables`,
`PurgedTables`); under them `BookMove` and `BookSeed` say what appending a row does
to one book (`RunningAppend`, `BalanceAppend`). `Reconciled` and `Chained` are read
off the book of the committed tables.

For the refinement, a step commits nothing, or tables that extend the committed ones
(one step of `Wallet` in which accounts are opened, dropped and deleted), or, at
`Commit`, such tables and one move: that is why a step of `Wallet` may do several of
these at once. The Commit step is where `ConnOK` is needed. `LedgerAppendOnly`
is the same case distinction for the rows.

**Sums.** The chips of a table, of the wallets or of a set of rows are sums by
fold, and a fold is defined by recursion over sets. No prover here can apply
an induction theorem, because those take the statement as an operator. `Sums`
works around that: the statement is turned into the *set* of numbers (or of subsets)
that satisfy it, and a least counterexample is taken out of its complement
(`NatsReached`, `SetsReached`, both from WFMin; `MaxOfFinite` by the second). `FoldExists` then shows that
the recursive definition has the function it describes, and `SumPicked` that the
order does not matter; what the other modules use (`SumRemove`, `SumAdd`,
`SumChanged`, `SumUnion`, `SumReindex`, `SumMonotone`) follows from these.

**The cashier**, for any players, tables, seats and amounts and all faults. `IInv`
adds to `NoChipsMinted` that an empty seat holds nothing, that a bet is at a
table with a hand, and that a join has exactly its one buy-in under way. Every
handler is one lemma that says how `Worth`, the chips in wallets, at tables and
under way, changes: not at all, or down in one of the four ways of
`LossExplained`, or, at the end of a hand, by what `burnt` goes up (`Booked`, the two
together). A folded leaver explains his bet and nothing else. The hard one is
`EndHandKeeps`: the pot is paid or lost, leavers are swept in the order of their
seats (`Nth`) and their stacks become a sequence of credits, so the sum over seats
has to be re-indexed by positions (`SweptDue`); what the seats of one table lost is
one term of the sum over all (`RowSum`).
The proof attempt corrected the property: it used to recognise a kick by a player
who is tracked at the table no longer, and a player tracked at two tables made it
true of a step that kicked nobody. `Kicks` now names the hand that ended.

**The tournament**, for any finite set of players, any table size, stacks, fees,
rebuys, add-ons and number of prizes, and all faults. What the five properties of
the run need beyond one another is small: until the start everybody has what he
bought (`FreshOK`, so that a refund for leaving is what he paid), who is in has
chips, and who is out has none but those of an add-on (`StacksOK`, so that only who
is out rebuys and the first by chips is in), and a handler still has all of the cost
it took (`HandlerOK`). The manager is proved by itself (`ManagerOK`), one lemma per
method; the hard one is `HandKeeps`, since a hand moves chips between any number of
players, busts some of them in an order nobody chose (`PlaceIs`, `HandPlaces`) and
takes their chairs. `TablesEnough` is the division that decides how many tables
there are: none is over its size. `PoolPaid` turns the prize pool with the fees,
less the add-ons nobody paid for, into what each entry cost, after which a handler is
one term of a sum. `FirstHasMost` is the order of the payouts.

**The actors**, for any number of senders, messages and starts, any ring and any
batch. That a message taken is the one told next needs, in `Actor`, that the
mailbox is the end of what was told (`QueueOK`), that a message is new when it is
pushed (`SendersOK`) and that nobody has one in hand when another is taken
(`HandsOK`). In `LockFreeActor` it needs more, because the two sides never hold a
lock: an enqueue that is past its check has a free slot at the tail it loaded
(`SenderOK`), a dequeue has the head and a message there (`ReadersOK`), the two
threads that drain exclude each other although neither looks at the other
(`ThreadsOK`, lemma `Exclusive`), and a batch holds the last messages dequeued
(`BatchesOK`). `SlotsDiffer` is the fact about remainders on which the ring
rests: two indices less than `Capacity` apart have different slots. For the
refinement a message has begun when it has left the mailbox or ring and waits in
no batch (`Begun`).

**The writer**, for any number of tasks, starts and calls of FlushNow and any
threshold. `Kept` is proved place by place (`Places`: the lengths add up to the
tasks enqueued, and the places together hold them all; `PlacesAreKept`).
`OrderOK` says that without FlushNow the places continue one another, for which
the batches of worker and owner must exclude each other (`BatchesOK`); `StopOK`
is what `StopWrites` needs of the time between the join and the return.

**The accounts**, for any names, ids and days, with and without crashes and
failing statements. `AccountsAssumption` says besides types that no two ids have
the same anonymous name and that `None` is no account. The indices survive a
restart because the names of rows are unique (`RowsOK`), which Register, looking
at memory only, does not ensure by itself: INSERT OR REPLACE does, by dropping the
row of an erased account. The next id is recomputed from the rows, so an erased
id is safe only while a row at or above it exists (`IdsOK`): the row that replaces
an erased one is a newer one. `MaxOfBounded` gives the greatest id its meaning.
`BonusesOK` says that a bonus paid is recorded or is the running claim's, and
`StreaksOK` which streak that claim will record; `OneDayMore` is the fact about
days in a row. Who claimed at an hour whose yesterday is not the day before is in
`misdated`, and exempt, until his streak starts again. Rows and bonuses are proved
apart (`Core`, `Bonuses`), one lemma per operation in each.

**The pots**, for any finite set of players, whatever each put in and whoever
folded. The loop of BuildPots is a fold over the levels. `LayersOK` is its
invariant: the layers peeled so far and the dead money together hold what
everybody put in up to the level reached; of it, a living player may win exactly
his `Stakes`, the lesser of his and each opponent's stake; and dead money remains
only when nobody living reaches the level. `PeelKeeps` is one turn of the loop,
`BuildPotsRight` the end of it, where the rest of the dead money goes to the
last pot, which all who put in most may win. `PayoutsRight` follows pot by pot,
over every split of the odd chips: nobody wins more than his stakes, and all is
paid out if somebody in each pot has cards.

`PotsRight` also says that the pots are nested (`Upward`): whoever lives and put
in as much as somebody eligible is eligible as well. That is what compares two
players. In a single pot somebody beaten by another eligible one wins nothing,
equals differ by one chip, and who is alone in it takes it all (`PaysFairly`,
lemma `PotPayoutsFair`); `FairSoFar` adds this up over the pots paid
(`PotPaidFairly`). What nobody called comes back because the one who put in most is
alone in every pot above the next (`UncalledIsAlone`). `PotsAreSidePots` and
`PotsAreFairlyPaid` translate the two theorems to the definition of `Showdown`,
which knows no layers (`StakeIs`, `MineIs`). `ShowdownAssumption` asks for a finite
set of at least two contestants, as a hand has.

**The queue**, for any players, games, amounts, purses, table size and limits, and
any part of a chip as the unit of amounts (`ChipsIs` is what cutting one to chips does).
`MatchInv` adds to the two invariants that nobody queues twice (`Distinct`) and
that seats are at tables already opened (`SeatsOK`), so that a new match never
adds to an old table. The matched entries are found by index and erased by index
while the queue shrinks. That is right only because the code goes from the last
to the first: what is before the one erased stays where it was. `LeftOf` says
what such erasures leave, `ErasesAll` that it is left after any number of them
(the fold is over sets of indices, `EraserErases`), and `DequeuedRight` that the queue
keeps just those not matched. `EnoughAreMatched` is kept because a newcomer
agrees with all who ask for the same: either they all leave the queue with him
(`OpensInv`), or he waits and they are still too few (`FewWait`). For
`EntriesServedOnce` the one step is a count: a player who could pay and got no
seat is left over only if the table is full, so that at least as many entries went
as it has seats (`UnseatedWereTooMany`, by an injection of later payers into players who left).

**The table**, for any seats, players, stacks, betting and outcomes. Each operator
of `GameState` has a lemma `...Is` that says what it does in the terms the
invariants need (`ApplyIs`: an action folds, stays or raises; `AdvanceStreetIs`: a
new street, or the showdown); the theorems use nothing else of the operators.

* `TableOK` (types, a hand is on a street, the last showdown was capped) holds
  through every event and gives `WinningsCapped`.
* `Ready` is what a hand in progress needs to go on: nobody put more than the
  bet on this street, who has acted and can still act has matched it, those who
  can act had matched before this street (`Steady`), and the turn is at somebody
  who has not acted. It is kept because whatever follows an action either finds
  the round complete or moves the turn to one who has not acted
  (`ProceedReady`). A raise above the stack may lower the bet below what others
  have matched, which breaks `Steady`.
* `Passed` relates the table before a call to the one after it: a later street, a
  higher bet, or the turn at a seat no farther than anybody's who still has to
  act. One call may pass the turn twice, for the clock and for the
  sender; `PassedTwice` composes the two by distances around the table. `Clockwise`
  is what is left of it after a BET of nothing, which raises nothing and asks
  everybody again.
* `Funded` is the invariant of `ChipsConserved`. The books balance (`Balanced`),
  and a hand in progress is `Contested`: two are in it, and, which is what takes
  the work, whoever wins will have put something in. Players who have acted
  have (`Paid`); of those who have not, one at least has and is the last to act
  (`Anchored`: the big blind), so that by the time all others have folded the
  winner is he, or one who has paid. This is where the order of turns enters a
  statement about chips, and where `gaps`, `grace` and `cashout` break it.
* `Swept` is where a seat that waits to be swept may be. Nothing is needed of the
  amounts, so tables are only said to have their fields. A flag is set only on a
  folded or all-in seat of a live hand; nothing gives such a seat an action back
  before the hand is over; and whatever ends a hand sweeps before anything else
  happens (`VacateSweeps`, `HandCompleteSweeps`, `SettledSweeps`).

The instances of `hand` and `hand_leavers` satisfy the assumptions of the theorems
about what they check: `hand` runs without events, `hand_leavers` with `grace` and
`cashout`.

Left to TLC is liveness, which is beyond this prover: `HandEnds`,
`AttendedHandEnds`, `LeaversLeave`, `ToldIsHandled`, `StopReturns` of the actor and of
the writer, and `FullQueueWritten`. Every invariant and every action property that
a passing run checks is proved, most for all values of the constants and the five
about `GameState` under the events named above.

## 6. Not modelled

`PROJECT.json` has the reason for each component. Pure computation (dealer, hand
evaluator, equity, CFR, solvers), I/O and formatting (HTTP, JSON, replay, history,
spectators, tracing, frontend) and wrappers of external services (Vault, mTLS,
Redis) hold no protocol of their own. The reconnection manager of phase19 is used
by its tests only, and nothing says what its callbacks would do. In the modelled
files: SitDown, StandUp, SetPlayerChips and the deterministic deck (the server
never calls them), profiles, achievements, the contents and expiry of tokens, the
ban path (it hangs before it stores anything), bounties and late registration of
tournaments (never opened).

## 7. Plan

1. `Cashier` and `Accounts` composed: the deletion of an account whose owner has
   chips under way, with the two steps of each credit.
2. A second table in `Cashier`, once its state is reduced (one hand at a time).
3. A client's late action that carries no hand number (`poker_ws_server.cpp:2757`):
   it needs the client's view of the table as a second copy of its state.
