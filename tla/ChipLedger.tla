----------------------------- MODULE ChipLedger -----------------------------
(***************************************************************************)
(* The wallet ledger of phase14: the tables accounts and                   *)
(* wallet_transactions of one SQLite file, written by the ChipLedger and   *)
(* the AccountRepository of every server process that has the file open.   *)
(*                                                                         *)
(* A process runs one operation at a time, one SQL statement per step.     *)
(* ApplyDelta is a deferred transaction (BEGIN, SELECT, UPDATE, INSERT,    *)
(* COMMIT); SaveAccount and DeleteAccount are two statements each, and     *)
(* every statement commits by itself.  Between two statements the other    *)
(* processes run and this one may die.                                     *)
(*                                                                         *)
(* A statement that wants the write lock of another process is answered    *)
(* BUSY at once (no busy timeout is set).  ResultSet::Next does not tell,  *)
(* and RowsAffected is sqlite3_changes, which after BUSY still counts the  *)
(* row of an earlier statement: ApplyDelta may go on as if it had written. *)
(* Its COMMIT is then refused, the UPDATE being unfinished, and SQLite's   *)
(* transaction stays open beneath the calls that follow, until one of them *)
(* commits it or rolls it back.                                            *)
(***************************************************************************)
EXTENDS Integers, FiniteSets, FiniteSetsExt

CONSTANTS
  MaxId,          \* bound: the last account id the processes hand out
  Servers,        \* processes (database connections)
  Nobody,         \* holder of the write lock when there is none
  OpeningChips,   \* chips of a new account (auth_service.cpp:343)
  Deltas,         \* amounts the callers of ApplyDelta pass
  MaxChips,       \* INT64_MAX: the width of a balance
  MaxRows,        \* bound: no new operation once that many rows were written
  Faults          \* faults explored: "crash", "insert", "commit"

Players == 1 .. MaxId

ASSUME LedgerAssumption ==
  /\ MaxId \in Nat \ {0}
  /\ Nobody \notin Servers \cup Players
  /\ MaxChips \in Nat
  /\ OpeningChips \in 0 .. MaxChips
  /\ Deltas \subseteq Int
  /\ MaxRows \in Nat
  /\ Faults \subseteq {"crash", "insert", "commit"}

VARIABLES
  db,       \* the two tables as they are committed
  work,     \* the tables as the holder of the write lock sees them
  writer,   \* connection that holds SQLite's write lock, or Nobody
  conn,     \* what each connection is doing
  next,     \* AuthService::next_player_id_ of each process
  handed,   \* history: times an id was handed out (2: more than once)
  erased    \* history: players whose deletion was asked for

vars == <<db, work, writer, conn, next, handed, erased>>

(* "none": no such row in accounts; "deleted": anonymised.                 *)
Account == [status: {"none", "live", "deleted"}, chips: 0 .. MaxChips]

NoAccount  == [status |-> "none", chips |-> 0]
NewAccount == [status |-> "live", chips |-> OpeningChips]
Deleted    == [status |-> "deleted", chips |-> 0]

(* "orphan" marks a row of ApplyDelta whose UPDATE was refused.            *)
Kinds == {"grant", "delta", "orphan"}

(* What ApplyDelta is about to append, or the row SaveAccount is seeding.  *)
Pending == [id: Nat, player: Players \cup {Nobody}, kind: Kinds,
            amount: Int, after: Int]

Row == [id: Nat \ {0}, player: Players, kind: Kinds,
        amount: Int, after: 0 .. MaxChips]

(* last: the AUTOINCREMENT counter of wallet_transactions.                 *)
Tables == [account: [Players -> Account], rows: SUBSET Row, last: Nat]

Steps == {"idle", "read", "updated", "missed", "inserted", "committed",
          "seeding", "purging"}

(* open: SQLite is in a transaction; stale: another connection committed   *)
(* after that transaction took its snapshot.                               *)
Connection == [step: Steps, row: Pending, open: BOOLEAN, stale: BOOLEAN]

NoRow == [id |-> 0, player |-> Nobody, kind |-> "delta",
          amount |-> 0, after |-> 0]

IdleConn == [step |-> "idle", row |-> NoRow, open |-> FALSE, stale |-> FALSE]

At(s, step, row) == [conn[s] EXCEPT !.step = step, !.row = row]

Idle(s) == At(s, "idle", NoRow)

RowsOf(d, p) == {r \in d.rows : r.player = p}

(* What the statements make of the tables d.                               *)
WithRow(d, row) == [d EXCEPT !.rows = @ \cup {row}, !.last = row.id]

WithMove(d, row) ==
  [d EXCEPT !.account[row.player].chips = row.after,
            !.rows = @ \cup {row}, !.last = row.id]

(* INSERT OR REPLACE takes the place of the row with the id p and of the   *)
(* row q with the same name, if there are such rows (q = p: there is none).*)
Saved(d, p, q) ==
  [d EXCEPT !.account = [r \in Players |-> IF r = p THEN NewAccount
                                           ELSE IF r = q THEN NoAccount ELSE @[r]]]

Anonymised(d, p) == [d EXCEPT !.account[p] = IF @ = NoAccount THEN @ ELSE Deleted]

Purged(d, p) == [d EXCEPT !.rows = @ \ RowsOf(d, p)]

Init ==
  /\ db = [account |-> [p \in Players |-> NoAccount], rows |-> {}, last |-> 0]
  /\ work = db
  /\ writer = Nobody
  /\ conn = [s \in Servers |-> IdleConn]
  /\ next = [s \in Servers |-> 1]
  /\ handed = [p \in Players |-> 0]
  /\ erased = {}

-----------------------------------------------------------------------------
(* SQLite, for one statement of connection s.                              *)

(* The row of s as the table numbers it.                                   *)
NextRow(s, kind) == [conn[s].row EXCEPT !.id = work.last + 1, !.kind = kind]

Sees(s) == IF writer = s THEN work ELSE db

(* A statement that writes needs the lock, and a current snapshot.         *)
MayWrite(s) == writer = s \/ (writer = Nobody /\ ~conn[s].stale)

(* A commit makes the snapshot of every open transaction stale.            *)
AfterCommit(s, c) ==
  [t \in Servers |-> IF t = s THEN c ELSE [conn[t] EXCEPT !.stale = conn[t].open]]

Publish(s, d, c) ==
  /\ db' = d
  /\ work' = d
  /\ writer' = Nobody
  /\ conn' = AfterCommit(s, c)

(* The statement makes the tables d.  By itself it commits; in an open     *)
(* transaction it keeps the write lock.                                    *)
Store(s, d, c) ==
  /\ MayWrite(s)
  /\ IF conn[s].open
       THEN /\ work' = d
            /\ writer' = s
            /\ conn' = [conn EXCEPT ![s] = c]
            /\ UNCHANGED db
       ELSE Publish(s, d, c)

(* BUSY or BUSY_SNAPSHOT, which the connection with the lock never gets;   *)
(* the lock may also be held for a moment to write some other table.       *)
Refused(s, c) ==
  /\ writer # s
  /\ conn' = [conn EXCEPT ![s] = c]
  /\ UNCHANGED <<db, work, writer>>

Rollback(s, c) ==
  /\ writer' = IF writer = s THEN Nobody ELSE writer
  /\ work' = IF writer = s THEN db ELSE work
  /\ conn' = [conn EXCEPT ![s] = c]
  /\ UNCHANGED db

-----------------------------------------------------------------------------
(* Balances the SELECT of ApplyDelta can return; a transaction left open   *)
(* reads from its old snapshot.                                            *)
Balances(s, p) ==
  IF conn[s].stale THEN 0 .. MaxChips
  ELSE {a.chips : a \in {Sees(s).account[p]} \ {NoAccount}}

(* BEGIN, which fails unnoticed in a transaction left open, and SELECT.    *)
Reading(s, p, d, chips) ==
  /\ conn' = [conn EXCEPT ![s] =
                [step |-> "read", open |-> TRUE, stale |-> conn[s].stale,
                 row |-> [id |-> 0, player |-> p, kind |-> "delta",
                          amount |-> d, after |-> chips + d]]]
  /\ UNCHANGED <<db, work, writer, next, handed, erased>>

(* ApplyDelta is called: for an account whose id some process handed out.  *)
Called(s, p, d) ==
  /\ conn[s].step = "idle"
  /\ work.last < MaxRows
  /\ handed[p] > 0
  /\ d # 0

(* Mutant of Read: the insufficient_chips test is missing.                 *)
ReadOverdraft(s, p, d) ==
  /\ Called(s, p, d)
  /\ \E chips \in Balances(s, p) :
       chips + d <= MaxChips /\ Reading(s, p, d, chips)

(* ChipLedger::ApplyDelta up to its guards.                                *)
Read(s, p, d) ==
  /\ Called(s, p, d)
  /\ \E chips \in Balances(s, p) :
       chips + d \in 0 .. MaxChips /\ Reading(s, p, d, chips)

(* account_not_found, overflow and insufficient_chips: an early return,    *)
(* which rolls back whatever the transaction holds.                        *)
ReadFails(s, p, d) ==
  /\ Called(s, p, d)
  /\ conn[s].stale \/ \A chips \in Balances(s, p) : chips + d \notin 0 .. MaxChips
  /\ Rollback(s, IdleConn)
  /\ UNCHANGED <<next, handed, erased>>

(* The row the UPDATE looks for: WHERE id = ? AND chips = ?.               *)
StillCurrent(s) ==
  LET row == conn[s].row
      a   == work.account[row.player]
  IN  a.status # "none" /\ a.chips = row.after - row.amount

(* Mutant of UpdateRow: a blind UPDATE outside the snapshot.               *)
UpdateRowBlind(s) ==
  /\ conn[s].step = "read"
  /\ writer \in {s, Nobody}
  /\ writer' = s
  /\ conn' = [conn EXCEPT ![s].step = "updated"]
  /\ UNCHANGED <<db, work, next, handed, erased>>

(* UPDATE accounts takes the write lock.  The new balance joins the tables *)
(* at Commit, its row with it: only s can see it before.                   *)
UpdateRow(s) ==
  /\ conn[s].step = "read"
  /\ MayWrite(s)
  /\ StillCurrent(s)
  /\ writer' = s
  /\ conn' = [conn EXCEPT ![s].step = "updated"]
  /\ UNCHANGED <<db, work, next, handed, erased>>

(* RowsAffected() # 1, because no row matched or the refused UPDATE is the *)
(* first to write on its connection: concurrent_update, and a rollback.    *)
ConcurrentUpdate(s) ==
  /\ conn[s].step = "read"
  /\ writer # s \/ ~StillCurrent(s)
  /\ Rollback(s, IdleConn)
  /\ UNCHANGED <<next, handed, erased>>

(* The UPDATE is refused, and RowsAffected() is still 1.                   *)
UpdateMissed(s) ==
  /\ conn[s].step = "read"
  /\ Refused(s, At(s, "missed", conn[s].row))
  /\ UNCHANGED <<next, handed, erased>>

(* The INSERT after an UPDATE that holds the lock.                         *)
InsertRow(s) ==
  /\ conn[s].step = "updated"
  /\ conn' = [conn EXCEPT ![s] = At(s, "inserted", NextRow(s, "delta"))]
  /\ UNCHANGED <<db, work, writer, next, handed, erased>>

(* Mutant of InsertFails: RowsAffected is not tested after the INSERT, and *)
(* the transaction commits the UPDATE alone.                               *)
InsertFailsUnnoticed(s) ==
  LET row == conn[s].row IN
  /\ "insert" \in Faults
  /\ conn[s].step = "updated"
  /\ Publish(s, [work EXCEPT !.account[row.player].chips = row.after], IdleConn)
  /\ UNCHANGED <<next, handed, erased>>

(* The INSERT fails with an error that resets the count:                   *)
(* ledger_insert_failed, and the transaction is rolled back.               *)
InsertFails(s) ==
  /\ "insert" \in Faults
  /\ conn[s].step \in {"updated", "missed"}
  /\ Rollback(s, IdleConn)
  /\ UNCHANGED <<next, handed, erased>>

(* The INSERT after a refused UPDATE is refused too, and the COMMIT fails: *)
(* the transaction stays open.                                             *)
InsertMissed(s) ==
  /\ conn[s].step = "missed"
  /\ Refused(s, At(s, "committed", conn[s].row))
  /\ UNCHANGED <<next, handed, erased>>

(* Or the lock has been given back meanwhile: the INSERT writes a row that *)
(* no balance goes with, and the transaction stays open with the lock.     *)
OrphanRow(s) ==
  LET row == NextRow(s, "orphan") IN
  /\ conn[s].step = "missed"
  /\ Store(s, WithRow(work, row), At(s, "committed", row))
  /\ UNCHANGED <<next, handed, erased>>

Closed(s) == [At(s, "committed", conn[s].row) EXCEPT !.open = FALSE, !.stale = FALSE]

(* Mutant of Commit: INSERT OR REPLACE keeps one row for each player.      *)
CommitReplacing(s) ==
  LET row == conn[s].row IN
  /\ conn[s].step = "inserted"
  /\ Publish(s, WithMove(Purged(work, row.player), row), Closed(s))
  /\ UNCHANGED <<next, handed, erased>>

Commit(s) ==
  /\ conn[s].step = "inserted"
  /\ Publish(s, WithMove(work, conn[s].row), Closed(s))
  /\ UNCHANGED <<next, handed, erased>>

(* Database::Commit drops the result of Execute("COMMIT"): when SQLite     *)
(* fails the statement (disk full, I/O error) it rolls the transaction     *)
(* back, and ApplyDelta goes on as if it had been committed.               *)
CommitFails(s) ==
  /\ "commit" \in Faults
  /\ conn[s].step = "inserted"
  /\ Rollback(s, Closed(s))
  /\ UNCHANGED <<next, handed, erased>>

(* mirror_callback_ with the row, and the success returned to the caller.  *)
Report(s) ==
  /\ conn[s].step = "committed"
  /\ conn' = [conn EXCEPT ![s] = Idle(s)]
  /\ UNCHANGED <<db, work, writer, next, handed, erased>>

-----------------------------------------------------------------------------
HandOut(h, p) == [h EXCEPT ![p] = IF @ = 0 THEN 1 ELSE 2]

(* AccountRepository::SaveAccount for the account Register made, under the *)
(* next id of this process.                                                *)
SaveAccount(s, q) ==
  LET p    == next[s]
      seed == [id |-> 0, player |-> p, kind |-> "grant",
               amount |-> OpeningChips, after |-> OpeningChips] IN
  /\ conn[s].step = "idle"
  /\ work.last < MaxRows
  /\ p \in Players
  /\ \/ Store(s, Saved(work, p, q), At(s, "seeding", seed))
     \/ Refused(s, At(s, "seeding", seed))
  /\ next' = [next EXCEPT ![s] = p + 1]
  /\ handed' = HandOut(handed, p)
  /\ UNCHANGED erased

SeedLedger(s) ==
  /\ conn[s].step = "seeding"
  /\ \/ Store(s, WithRow(work, NextRow(s, "grant")), Idle(s))
     \/ Refused(s, Idle(s))
  /\ UNCHANGED <<next, handed, erased>>

(* AccountRepository::DeleteAccount: anonymise the row and zero its chips, *)
(* then delete the player's wallet_transactions.                           *)
DeleteAccount(s, p) ==
  LET purge == At(s, "purging", [NoRow EXCEPT !.player = p]) IN
  /\ conn[s].step = "idle"
  /\ handed[p] > 0
  /\ Store(s, Anonymised(work, p), purge) \/ Refused(s, purge)
  /\ erased' = erased \cup {p}
  /\ UNCHANGED <<next, handed>>

PurgeRows(s) ==
  /\ conn[s].step = "purging"
  /\ \/ Store(s, Purged(work, conn[s].row.player), Idle(s))
     \/ Refused(s, Idle(s))
  /\ UNCHANGED <<next, handed, erased>>

-----------------------------------------------------------------------------
(* HandRepository::SaveHand on a connection with a transaction left open:  *)
(* its COMMIT ends it; when the INSERT of the hand is refused, a rollback. *)
SaveHand(s) ==
  /\ conn[s].step = "idle"
  /\ conn[s].open
  /\ \/ MayWrite(s) /\ Publish(s, work, IdleConn)
     \/ Rollback(s, IdleConn)
  /\ UNCHANGED <<next, handed, erased>>

(* A single statement that writes another table (a login, the bonus) takes *)
(* the lock for the transaction left open.                                 *)
OtherWrite(s) ==
  /\ conn[s].step = "idle"
  /\ conn[s].open
  /\ Store(s, work, Idle(s))
  /\ UNCHANGED <<next, handed, erased>>

(* The process dies and is started again: SQLite rolls its transaction     *)
(* back, and the ids start after those LoadAll finds.                      *)
Crash(s) ==
  /\ "crash" \in Faults
  /\ Rollback(s, IdleConn)
  /\ next' = [next EXCEPT ![s] =
                1 + Max({0} \cup {p \in Players : db.account[p] # NoAccount})]
  /\ UNCHANGED <<handed, erased>>

Step(s) ==
  \/ \E p \in Players : SaveAccount(s, p) \/ DeleteAccount(s, p)
  \/ \E p \in Players, d \in Deltas : Read(s, p, d) \/ ReadFails(s, p, d)
  \/ UpdateRow(s) \/ ConcurrentUpdate(s) \/ UpdateMissed(s)
  \/ InsertRow(s) \/ InsertFails(s) \/ InsertMissed(s) \/ OrphanRow(s)
  \/ Commit(s) \/ CommitFails(s) \/ Report(s)
  \/ SeedLedger(s) \/ PurgeRows(s)
  \/ SaveHand(s) \/ OtherWrite(s)
  \/ Crash(s)

Next == \E s \in Servers : Step(s)

Spec == Init /\ [][Next]_vars

-----------------------------------------------------------------------------
TypeOK ==
  /\ db \in Tables
  /\ work \in Tables
  /\ writer \in Servers \cup {Nobody}
  /\ conn \in [Servers -> Connection]
  /\ next \in [Servers -> 1 .. MaxId + 1]
  /\ handed \in [Players -> 0 .. 2]
  /\ erased \subseteq Players

(* The rows a reconciliation of the moves that were made would read.       *)
Booked(d, p) == {r \in RowsOf(d, p) : r.kind # "orphan"}

First(R) == {r \in R : \A q \in R : r.id <= q.id}

(* The accounts the promises are about: the id was handed out once, nobody *)
(* asked for the deletion, and SaveAccount seeded the ledger before any    *)
(* move was booked.                                                        *)
Opened(p) ==
  /\ handed[p] = 1
  /\ p \notin erased
  /\ db.account[p].status = "live"
  /\ \E r \in First(Booked(db, p)) : r.kind = "grant"

LedgerBalance(R) == SumFunction([r \in R |-> r.amount])

(* ChipLedger::Reconcile reports no discrepancy other than orphan rows:    *)
(* the balance of an account is the sum of the amounts of its rows,        *)
(* whatever the interleaving of the statements of several processes, the   *)
(* statements refused unnoticed, the transactions left open, their         *)
(* rollbacks and the crashes.                                              *)
Reconciled ==
  \A p \in Players :
    Opened(p) => db.account[p].chips = LedgerBalance(Booked(db, p))

Follows(q, r, R) == q.id < r.id /\ \A m \in R : m.id <= q.id \/ r.id <= m.id

(* balance_after is a running balance: a row of an account continues the   *)
(* row before it, the first one is the grant from zero, and the last is the*)
(* balance.  An update lost between two transactions would break the chain *)
(* at the second one even where a later one hides it from the sum.         *)
Running(R, chips) ==
  \A r \in R :
    /\ \A q \in R : Follows(q, r, R) => r.after = q.after + r.amount
    /\ r \in First(R) => r.after = r.amount
    /\ (\A q \in R : q.id <= r.id) => r.after = chips

Chained ==
  \A p \in Players : Opened(p) => Running(Booked(db, p), db.account[p].chips)

(* wallet_transactions is append-only: a step only adds rows with new ids, *)
(* except that the rows of players who asked to be deleted are removed.    *)
AppendOnly ==
  [][/\ \A r \in db'.rows \ db.rows : r.id > db.last
     /\ \A r \in db.rows \ db'.rows : r.player \in erased']_vars

W == INSTANCE Wallet WITH account <- db.account, Amounts <- Deltas

(* ApplyDelta is atomic for the balances although it reads, checks and     *)
(* writes in separate statements: the processes together do nothing to the *)
(* balances that single moves of the callers' amounts would not do.  What  *)
(* the callers are told is another matter (MirrorInLedger).                *)
Serializable == W!Spec

-----------------------------------------------------------------------------
(* Claims of the code's comments that do not hold; see the README.         *)

(* A success is reported, and mirrored, for a row that is in the ledger.   *)
MirrorInLedger ==
  \A s \in Servers :
    conn[s].step = "committed" => conn[s].row \in db.rows \/ conn[s].row.player \in erased

(* No row is in the ledger without its balance (chip_ledger.cpp:74 is      *)
(* about the converse).                                                    *)
NoOrphans == \A r \in db.rows : r.kind # "orphan"

(* An id is handed out once.                                               *)
IdsFresh == \A p \in Players : handed[p] < 2

(* Every account has the row that seeds its ledger, unless SaveAccount is  *)
(* between its two statements (account_repository.cpp:86).                 *)
AccountsSeeded ==
  \A p \in Players :
    handed[p] = 1 /\ p \notin erased /\ db.account[p].status = "live" =>
      \/ Opened(p)
      \/ \E s \in Servers : conn[s].step = "seeding" /\ conn[s].row.player = p
=============================================================================
