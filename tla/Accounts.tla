------------------------------ MODULE Accounts ------------------------------
(***************************************************************************)
(* Accounts: phase13/src/auth_service.cpp keeps them in memory, by id and  *)
(* by name, phase14/src/account_repository.cpp in the database, and the    *)
(* handlers of cli/poker_ws_server.cpp change both.  The server handles    *)
(* one request at a time; it may die at any point, and it rebuilds what it *)
(* knows from the rows when it starts.  Tokens are signed, so they survive;*)
(* none expires here, which only lets their holders do more.               *)
(*                                                                         *)
(* A claim of the daily bonus is taken apart, because the process may die  *)
(* and the date may change between its steps.  Movements of chips are the  *)
(* atomic moves of Wallet: a COMMIT that fails, after which memory has a   *)
(* balance the row does not, is in ChipLedger.                             *)
(***************************************************************************)
EXTENDS Integers, FiniteSets, FiniteSetsExt

CONSTANTS
  Names,          \* user names, those made by deletion included
  AnonName,       \* "deleted_<id>" for every id
  None,           \* no account, no row
  MaxId, MaxDay,  \* bounds: accounts ever registered, days
  Short, Long,    \* days of less and of more than 24 hours: the clocks change
  MaxPaid,        \* bound: bonuses paid to somebody on a day, after crashes
  OpeningChips, Stake,
  BestReward,     \* 500: a day's reward grows with the streak up to this
  MaxLoginAttempts,
  Active,         \* ids that claim, or buy in (a bound on who does what)
  Faults          \* "crash", "busy" (a statement fails unnoticed)

Ids == 1 .. MaxId

(* hash: there is a password the owner can log in with.                    *)
Account == [id: Ids, name: Names, hash: BOOLEAN, chips: Nat]

ASSUME AccountsAssumption ==
  /\ None \notin Account
  /\ AnonName \in [Ids -> Names]
  /\ \A i, j \in Ids : AnonName[i] = AnonName[j] => i = j
  /\ {MaxPaid, OpeningChips, Stake} \subseteq Nat
  /\ {MaxId, MaxDay, MaxLoginAttempts, BestReward} \subseteq Nat \ {0}
  /\ Active \in [claim: SUBSET Ids, buyIn: SUBSET Ids]
  /\ Short \cup Long \subseteq 1 .. MaxDay

VARIABLES
  row,       \* table accounts
  bonus,     \* table daily_bonus
  byId,      \* id_index_
  byName,    \* username_index_
  nextId,    \* next_player_id_
  failed,    \* failed_logins_: attempts
  locked,    \* names whose lock_until is in the future
  tokens,    \* ids for which somebody holds a valid token
  table,     \* chips every player has at tables
  day,       \* the date
  claim,     \* the running claim of a bonus
  paid,      \* bonuses paid to an id on a day (history)
  irregular, \* ids of claims that were cut short or met midnight (history)
  misdated,  \* ids that claimed when 24 hours ago was not the day before,
             \* until they start a new streak (history)
  erased,    \* ids whose deletion was confirmed (history)
  kept       \* those of them whose row was not made anonymous (history)

cache  == <<byId, byName, nextId, failed, locked>>
past   == <<paid, irregular, misdated, erased, kept>>
vars   == <<row, bonus, cache, tokens, table, day, claim, past>>

Claim == [step: {"idle", "read", "paid"}, id: Ids, today: 0 .. MaxDay, streak: Nat]

NoClaim == [step |-> "idle", id |-> 1, today |-> 0, streak |-> 0]

Ready == claim.step = "idle"

Init ==
  /\ row = [i \in Ids |-> None]
  /\ bonus = [i \in Ids |-> [last |-> 0, streak |-> 0]]
  /\ byId = [i \in Ids |-> None]
  /\ byName = [n \in Names |-> None]
  /\ nextId = 1
  /\ failed = [n \in Names |-> 0]
  /\ locked = {}
  /\ tokens = {}
  /\ table = [i \in Ids |-> 0]
  /\ day = 1
  /\ claim = NoClaim
  /\ paid = [i \in Ids |-> [d \in 1 .. MaxDay |-> 0]]
  /\ irregular = {} /\ misdated = {} /\ erased = {} /\ kept = {}

-----------------------------------------------------------------------------
(* INSERT OR REPLACE: a row with that name, if there is one, is gone.      *)
Inserted(a) ==
  [i \in Ids |-> IF i = a.id THEN a
                 ELSE IF row[i] # None /\ row[i].name = a.name THEN None ELSE row[i]]

(* Register looks at the names in memory only, and at no result of         *)
(* SaveAccount.                                                            *)
Register(n, saved) ==
  LET a == [id |-> nextId, name |-> n, hash |-> TRUE, chips |-> OpeningChips] IN
  /\ Ready
  /\ byName[n] = None
  /\ nextId <= MaxId
  /\ byId' = [byId EXCEPT ![nextId] = a]
  /\ byName' = [byName EXCEPT ![n] = a]
  /\ nextId' = nextId + 1
  /\ row' = IF saved THEN Inserted(a) ELSE row
  /\ tokens' = tokens \cup {a.id}
  /\ UNCHANGED <<bonus, failed, locked, table, day, claim, past>>

CanLogIn(n) == byName[n] # None /\ byName[n].hash

(* Login with the right password, and with a wrong one.                    *)
Login(n) ==
  /\ Ready
  /\ n \notin locked
  /\ CanLogIn(n)
  /\ failed' = [failed EXCEPT ![n] = 0]
  /\ tokens' = tokens \cup {byName[n].id}
  /\ UNCHANGED <<row, bonus, byId, byName, nextId, locked, table, day, claim, past>>

(* Attempts are counted up to the limit: beyond it every one locks again.  *)
LoginFails(n) ==
  /\ Ready
  /\ n \notin locked
  /\ CanLogIn(n)
  /\ failed' = [failed EXCEPT ![n] = Min({@ + 1, MaxLoginAttempts})]
  /\ locked' = IF failed'[n] = MaxLoginAttempts THEN locked \cup {n} ELSE locked
  /\ UNCHANGED <<row, bonus, byId, byName, nextId, tokens, table, day, claim, past>>

LockExpires(n) ==
  /\ n \in locked
  /\ locked' = locked \ {n}
  /\ UNCHANGED <<row, bonus, byId, byName, nextId, failed, tokens, table, day, claim, past>>

(* Mutant of EvictPlayer: the index by name is forgotten.                  *)
EvictById(i) ==
  /\ byId' = [byId EXCEPT ![i] = None]
  /\ UNCHANGED <<byName, failed, locked>>

EvictPlayer(i) ==
  IF byId[i] = None THEN UNCHANGED <<byId, byName, failed, locked>>
  ELSE LET n == byId[i].name IN
       /\ byId' = [byId EXCEPT ![i] = None]
       /\ byName' = [byName EXCEPT ![n] = None]
       /\ failed' = [failed EXCEPT ![n] = 0]
       /\ locked' = locked \ {n}

(* Mutant of Anonymous: the row is deleted.                                *)
AnonymousGone(i) == [row EXCEPT ![i] = None]

Anonymous(i) ==
  [row EXCEPT ![i] = [@ EXCEPT !.name = AnonName[i], !.hash = FALSE, !.chips = 0]]

(* The UPDATE of DeleteAccount fails when somebody has the anonymous name: *)
(* names are unique.                                                       *)
NameTaken(i) == \E j \in Ids \ {i} : row[j] # None /\ row[j].name = AnonName[i]

(* POST /api/account/delete, also while the player sits at a table.        *)
DeleteAccount(i, busy) ==
  LET done == row[i] # None /\ ~NameTaken(i) /\ ~busy IN
  /\ Ready
  /\ i \in tokens
  /\ row' = IF done THEN Anonymous(i) ELSE row
  /\ EvictPlayer(i)
  /\ erased' = erased \cup {i}
  /\ kept' = IF done THEN kept \ {i} ELSE kept \cup {i}
  /\ UNCHANGED <<bonus, nextId, tokens, table, day, claim, paid, irregular, misdated>>

-----------------------------------------------------------------------------
(* Mutant of SetPlayerChips: one index is forgotten.                       *)
SetPlayerChipsById(i, n) ==
  IF byId[i] = None THEN UNCHANGED <<byId, byName>>
  ELSE byId' = [byId EXCEPT ![i].chips = n] /\ UNCHANGED byName

SetPlayerChips(i, n) ==
  IF byId[i] = None THEN UNCHANGED <<byId, byName>>
  ELSE /\ byId' = [byId EXCEPT ![i].chips = n]
       /\ byName' = [byName EXCEPT ![byId[i].name].chips = n]

(* ChipLedger::ApplyDelta with syncAuthChips.                              *)
Move(i, amount) ==
  /\ row[i] # None
  /\ row[i].chips + amount >= 0
  /\ row' = [row EXCEPT ![i].chips = @ + amount]
  /\ SetPlayerChips(i, row[i].chips + amount)

(* The connection of a deleted account goes on.                            *)
BuyIn(i) ==
  /\ Ready
  /\ i \in tokens \cap Active.buyIn
  /\ table[i] = 0
  /\ Move(i, -Stake)
  /\ table' = [table EXCEPT ![i] = Stake]
  /\ UNCHANGED <<bonus, nextId, failed, locked, tokens, day, claim, past>>

(* A row that is gone cannot be credited.                                  *)
CashOut(i) ==
  /\ Ready
  /\ table[i] > 0
  /\ \/ Move(i, table[i])
     \/ row[i] = None /\ UNCHANGED <<row, byId, byName>>
  /\ table' = [table EXCEPT ![i] = 0]
  /\ UNCHANGED <<bonus, nextId, failed, locked, tokens, day, claim, past>>

-----------------------------------------------------------------------------
(* Mutant of ReadBonus: the last claim is not looked at.                   *)
ReadBonusAgain(i) ==
  /\ Ready
  /\ i \in tokens \cap Active.claim
  /\ paid[i][day] < MaxPaid
  /\ claim' = [step |-> "read", id |-> i, today |-> day, streak |-> bonus[i].streak]
  /\ UNCHANGED <<row, bonus, cache, tokens, table, day, past>>

(* POST /api/daily-bonus/claim: only the token is looked at, so a deleted  *)
(* player may claim.  First the last claim and today's date are read.      *)
ReadBonus(i) ==
  /\ Ready
  /\ i \in tokens \cap Active.claim
  /\ bonus[i].last # day
  /\ paid[i][day] < MaxPaid
  /\ claim' = [step |-> "read", id |-> i, today |-> day, streak |-> bonus[i].streak]
  /\ UNCHANGED <<row, bonus, cache, tokens, table, day, past>>

(* yesterdayStr() asks the clock again: the date of 24 hours ago.  That is *)
(* today in the last hour of a long day, and two days ago in the first     *)
(* hour after a short one.                                                 *)
Yesterdays ==
  {day - 1} \cup {d \in {day} : d \in Long} \cup {d - 1 : d \in {day - 1} \cap Short}

(* Mutant of NewStreak: any earlier claim continues the streak.            *)
NewStreakAnyDay(yesterday) == claim.streak + 1

NewStreak(yesterday) ==
  IF bonus[claim.id].last = yesterday THEN claim.streak + 1 ELSE 1

(* CreditBonus, or its failure.                                            *)
PayBonus(yesterday, busy) ==
  LET i == claim.id IN
  /\ claim.step = "read"
  /\ IF busy \/ row[i] = None
       THEN claim' = NoClaim /\ UNCHANGED <<row, byId, byName, paid, misdated>>
       ELSE /\ Move(i, Min({BestReward, NewStreak(yesterday)}))
            /\ paid' = [paid EXCEPT ![i][claim.today] = @ + 1]
            /\ claim' = [claim EXCEPT !.step = "paid", !.streak = NewStreak(yesterday)]
            /\ misdated' = IF yesterday # day - 1 THEN misdated \cup {i} ELSE misdated
  /\ irregular' = IF day # claim.today THEN irregular \cup {i} ELSE irregular
  /\ UNCHANGED <<bonus, nextId, failed, locked, tokens, table, day, erased, kept>>

(* UpdateDailyBonus.                                                       *)
RecordBonus(busy) ==
  LET i == claim.id IN
  /\ claim.step = "paid"
  /\ bonus' = IF busy THEN bonus
              ELSE [bonus EXCEPT ![i] = [last |-> claim.today, streak |-> claim.streak]]
  /\ irregular' = IF busy THEN irregular \cup {i} ELSE irregular
  /\ misdated' = IF ~busy /\ bonus[i].last # claim.today - 1 /\ claim.streak = 1
                   THEN misdated \ {i} ELSE misdated
  /\ claim' = NoClaim
  /\ UNCHANGED <<row, cache, tokens, table, day, paid, erased, kept>>

NewDay ==
  /\ day < MaxDay
  /\ day' = day + 1
  /\ UNCHANGED <<row, bonus, cache, tokens, table, claim, past>>

(* Every row, those of deleted players included.                           *)
LoadAll == row

SetAccountRepository ==
  /\ byId' = LoadAll
  /\ byName' = [n \in Names |-> IF \E i \in Ids : LoadAll[i] # None /\ LoadAll[i].name = n
                  THEN LoadAll[CHOOSE i \in Ids : LoadAll[i] # None /\ LoadAll[i].name = n]
                  ELSE None]
  /\ nextId' = Max({0} \cup {i \in Ids : LoadAll[i] # None}) + 1

(* The process dies, and starts again.                                     *)
Crash ==
  /\ "crash" \in Faults
  /\ SetAccountRepository
  /\ failed' = [n \in Names |-> 0]
  /\ locked' = {}
  /\ table' = [i \in Ids |-> 0]
  /\ claim' = NoClaim
  /\ irregular' = IF claim.step = "paid" THEN irregular \cup {claim.id} ELSE irregular
  /\ UNCHANGED <<row, bonus, tokens, day, paid, misdated, erased, kept>>

Busy == IF "busy" \in Faults THEN BOOLEAN ELSE {FALSE}

Next ==
  \/ \E n \in Names : \/ \E busy \in Busy : Register(n, ~busy)
                      \/ Login(n) \/ LoginFails(n) \/ LockExpires(n)
  \/ \E i \in Ids : \/ \E busy \in Busy : DeleteAccount(i, busy)
                    \/ BuyIn(i) \/ CashOut(i) \/ ReadBonus(i)
  \/ \E busy \in Busy : \/ \E yesterday \in Yesterdays : PayBonus(yesterday, busy)
                         \/ RecordBonus(busy)
  \/ NewDay
  \/ Crash

Spec == Init /\ [][Next]_vars

-----------------------------------------------------------------------------
TypeOK ==
  /\ row \in [Ids -> Account \cup {None}]
  /\ bonus \in [Ids -> [last: 0 .. MaxDay, streak: Nat]]
  /\ byId \in [Ids -> Account \cup {None}]
  /\ byName \in [Names -> Account \cup {None}]
  /\ nextId \in 1 .. MaxId + 1
  /\ failed \in [Names -> 0 .. MaxLoginAttempts]
  /\ locked \subseteq Names
  /\ tokens \subseteq Ids
  /\ table \in [Ids -> {0, Stake}]
  /\ day \in 1 .. MaxDay
  /\ claim \in Claim

(* The two indices hold the same accounts, and an account that is in       *)
(* memory and in the database is the same in both, its chips included:     *)
(* nothing is decided on a stale balance or under a name that has moved.   *)
(* Nobody but the deleted is missing from memory: whoever has a row can    *)
(* still log in.                                                           *)
CacheIsCurrent ==
  /\ TypeOK
  /\ \A i \in Ids : byId[i] # None => byId[i].id = i /\ byName[byId[i].name] = byId[i]
  /\ \A n \in Names : byName[n] # None => byName[n].name = n /\ byId[byName[n].id] = byName[n]
  /\ \A i \in Ids : row[i] # None => byId[i] \in {None, row[i]}
  /\ \A i \in Ids \ erased : row[i] # None => byId[i] # None

(* A deleted account stays deleted, through restarts and through others    *)
(* registering its names, unless its row could not be made anonymous.      *)
ErasedStayOut ==
  \A n \in Names : CanLogIn(n) => byName[n].id \notin erased \ kept

(* An id that was ever stored is not given to somebody else: tokens, the   *)
(* ledger's rows and the bonus table go by it.                             *)
IdsFresh ==
  [][\A i \in Ids : row'[i] # None /\ row'[i].hash =>
       /\ i \notin erased \ kept
       /\ row[i] # None => row[i].hash /\ row[i].name = row'[i].name]_vars

(* One bonus for a day, unless a claim was cut short after the credit.     *)
OneBonusADay == \A i \in Ids \ irregular, d \in 1 .. MaxDay : paid[i][d] <= 1

Run(i) == Cardinality({d \in 1 .. bonus[i].last :
                         \A e \in d .. bonus[i].last : paid[i][e] > 0})

(* The streak is the number of days in a row on which a bonus was paid,    *)
(* unless a claim was cut short or met midnight, and unless one since the  *)
(* streak began was made in an hour for which 24 hours ago was not the day *)
(* before.                                                                 *)
StreakIsRun ==
  Ready => \A i \in Ids \ (irregular \cup misdated) : bonus[i].streak = Run(i)
=============================================================================
