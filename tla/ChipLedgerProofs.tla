-------------------------- MODULE ChipLedgerProofs --------------------------
(***************************************************************************)
(* Proofs about ChipLedger for any number of processes, accounts and       *)
(* amounts: its type invariant, the running balance of the rows of every   *)
(* account (Chained) and their sum (Reconciled), that wallet_transactions  *)
(* is append-only, and that the processes implement Wallet.                *)
(***************************************************************************)
EXTENDS ChipLedger, Sums, TLAPS

(* What a connection holds at each of its steps, and who has the lock.     *)
ConnInv(s) ==
  LET row == conn[s].row
      p   == row.player IN
  /\ conn[s].step = "idle" => p = Nobody
  /\ conn[s].step # "idle" => p \in Players /\ handed[p] > 0
  /\ conn[s].step \in {"read", "updated", "missed", "inserted"} =>
        /\ row.kind = "delta"
        /\ row.amount \in Deltas
        /\ row.after \in 0 .. MaxChips
  /\ conn[s].step \in {"updated", "inserted"} =>
        /\ writer = s
        /\ work.account[p].status # "none"
        /\ work.account[p].chips = row.after - row.amount
  /\ conn[s].step = "inserted" => row.id = work.last + 1
  /\ conn[s].step = "seeding" =>
        /\ row.kind = "grant"
        /\ row.amount = OpeningChips
        /\ row.after = OpeningChips
  /\ conn[s].step = "purging" => p \in erased

ConnOK == \A s \in Servers : ConnInv(s)

Granted(R) == \E r \in R : r.kind = "grant"

(* The rows R of an account and its chips, from before the grant on.       *)
Book(R, chips) ==
  /\ R = {} => chips = OpeningChips
  /\ Granted(First(R)) => Running(R, chips)
  /\ chips = LedgerBalance(R) + (IF Granted(R) THEN 0 ELSE OpeningChips)

(* The tables d, when ids were handed out as h says and the players e      *)
(* asked to be deleted.                                                    *)
TablesOK(d, h, e) ==
  /\ IsFiniteSet(d.rows)
  /\ \A r \in d.rows : r.id <= d.last
  /\ \A q, r \in d.rows : q.id = r.id => q = r
  /\ \A p \in Players : h[p] = 0 => d.account[p] = NoAccount /\ RowsOf(d, p) = {}
  /\ \A p \in Players : h[p] = 1 /\ p \notin e /\ d.account[p].status = "live" =>
       Book(Booked(d, p), d.account[p].chips)

(* What an open transaction may have made of the committed tables.         *)
Extends(d0, d, h, e) ==
  /\ \A p \in Players : d.account[p] \in W!Becomes(d0.account[p], h[p] > 1)
  /\ \A r \in d.rows \ d0.rows : r.id > d0.last
  /\ \A r \in d0.rows \ d.rows : r.player \in e
  /\ d.last >= d0.last

DataOK ==
  /\ TablesOK(db, handed, erased)
  /\ TablesOK(work, handed, erased)
  /\ Extends(db, work, handed, erased)
  /\ writer = Nobody => work = db

(* An id handed out once is seeded by one process, once.                   *)
SeedInv(s) ==
  LET p == conn[s].row.player IN
  conn[s].step = "seeding" /\ handed[p] = 1 =>
    /\ ~Granted(RowsOf(db, p))
    /\ ~Granted(RowsOf(work, p))
    /\ \A t \in Servers \ {s} : conn[t].step = "seeding" => conn[t].row.player # p

SeedOK == \A s \in Servers : SeedInv(s)

(* The inductive invariant.                                                *)
IInv == TypeOK /\ ConnOK /\ DataOK /\ SeedOK

-----------------------------------------------------------------------------
(* The rows of one account, as a set R.                                    *)

LEMMA BalanceOfNone == LedgerBalance({}) = 0
<1> DEFINE f == [r \in {} |-> r.amount]
<1>1. DOMAIN f = {}
  OBVIOUS
<1>2. LedgerBalance({}) = Sum(f, {})
  BY <1>1 DEF LedgerBalance, SumFunction, Sum
<1> QED
  BY <1>2, SumEmpty

LEMMA BalanceInt ==
  ASSUME NEW R, R \subseteq Row, IsFiniteSet(R)
  PROVE  LedgerBalance(R) \in Int
<1> DEFINE f == [r \in R |-> r.amount]
<1>1. \A r \in R : f[r] \in Int
  BY DEF Row
<1>2. DOMAIN f = R
  OBVIOUS
<1>3. LedgerBalance(R) = Sum(f, R)
  BY <1>2 DEF LedgerBalance, SumFunction, Sum
<1> HIDE DEF f
<1> QED
  BY <1>1, <1>3, SumInt

LEMMA BalanceAppend ==
  ASSUME NEW R, R \subseteq Row, IsFiniteSet(R), NEW row \in Row, row \notin R
  PROVE  LedgerBalance(R \cup {row}) = LedgerBalance(R) + row.amount
<1> DEFINE f == [r \in R |-> r.amount]
<1> DEFINE g == [r \in R \cup {row} |-> r.amount]
<1>1. (\A r \in R : f[r] \in Int) /\ (\A r \in R \cup {row} : g[r] \in Int)
  BY DEF Row
<1>2. (\A r \in R : g[r] = f[r]) /\ g[row] = row.amount
  OBVIOUS
<1>3. DOMAIN f = R /\ DOMAIN g = R \cup {row}
  OBVIOUS
<1>4. LedgerBalance(R) = Sum(f, R) /\ LedgerBalance(R \cup {row}) = Sum(g, R \cup {row})
  BY <1>3 DEF LedgerBalance, SumFunction, Sum
<1> HIDE DEF f, g
<1>5. Sum(g, R \cup {row}) = g[row] + Sum(g, R)
  BY <1>1, SumAdd
<1>6. Sum(g, R) = Sum(f, R) /\ Sum(f, R) \in Int
  BY <1>1, <1>2, SumEqual, SumInt
<1>7. row.amount \in Int
  BY DEF Row
<1> QED
  BY <1>2, <1>4, <1>5, <1>6, <1>7

(* A row with a higher id is the first one only of an empty set.           *)
LEMMA FirstAppend ==
  ASSUME NEW R, R \subseteq Row, NEW row \in Row, \A r \in R : r.id < row.id
  PROVE  /\ R # {} => First(R \cup {row}) = First(R)
         /\ First({row}) = {row}
  BY DEF First, Row

(* The chain of one account goes on when a row with a higher id continues  *)
(* its last one.                                                           *)
LEMMA RunningAppend ==
  ASSUME NEW R, R \subseteq Row, NEW c \in Int, NEW row \in Row,
         \A r \in R : r.id < row.id, R # {},
         Running(R, c), row.after = c + row.amount
  PROVE  Running(R \cup {row}, row.after)
<1>0. First(R \cup {row}) = First(R)
  BY FirstAppend
<1>1. \A r \in First(R) : r \in R
  BY DEF First
<1>2. ASSUME NEW q \in R \cup {row}, NEW r \in R \cup {row}, Follows(q, r, R \cup {row})
      PROVE  r.after = q.after + r.amount
  BY <1>2 DEF Running, Follows, Row
<1>3. ASSUME NEW r \in R \cup {row}, \A q \in R \cup {row} : q.id <= r.id
      PROVE  r.after = row.after
  BY <1>3 DEF Row
<1>4. ASSUME NEW r \in First(R \cup {row}) PROVE r.after = r.amount
  BY <1>0, <1>1, <1>4 DEF Running
<1> QED
  BY <1>2, <1>3, <1>4 DEF Running

(* A move books its row.                                                   *)
LEMMA BookMove ==
  ASSUME NEW R, R \subseteq Row, IsFiniteSet(R), NEW c \in Int, Book(R, c),
         NEW row \in Row, \A r \in R : r.id < row.id,
         row.kind = "delta", row.after = c + row.amount
  PROVE  Book(R \cup {row}, row.after)
<1>1. Granted(First(R \cup {row})) => Running(R \cup {row}, row.after)
  <2>1. CASE R = {}
    BY <2>1, FirstAppend DEF Granted
  <2>2. CASE R # {}
    BY <2>2, FirstAppend, RunningAppend DEF Book
  <2> QED
    BY <2>1, <2>2
<1>2. LedgerBalance(R \cup {row}) = LedgerBalance(R) + row.amount
  <2>1. row \notin R
    BY DEF Row
  <2> QED
    BY <2>1, BalanceAppend
<1>3. Granted(R \cup {row}) <=> Granted(R)
  BY DEF Granted
<1>4. row.amount \in Int /\ OpeningChips \in Int
  BY LedgerAssumption DEF Row
<1>5. LedgerBalance(R) \in Int
  BY BalanceInt
<1>6. c = LedgerBalance(R) + (IF Granted(R) THEN 0 ELSE OpeningChips)
  BY DEF Book
<1>7. row.after = LedgerBalance(R \cup {row}) + (IF Granted(R \cup {row}) THEN 0 ELSE OpeningChips)
  BY <1>2, <1>3, <1>4, <1>5, <1>6
<1> QED
  BY <1>1, <1>7 DEF Book

(* The grant is booked once.                                               *)
LEMMA BookSeed ==
  ASSUME NEW R, R \subseteq Row, IsFiniteSet(R), NEW c \in Int, Book(R, c),
         NEW row \in Row, \A r \in R : r.id < row.id, ~Granted(R),
         row.kind = "grant", row.amount = OpeningChips, row.after = OpeningChips
  PROVE  Book(R \cup {row}, c)
<1>1. Granted(First(R \cup {row})) => Running(R \cup {row}, c)
  <2>1. CASE R = {}
    BY <2>1, LedgerAssumption DEF Book, Running, Follows, First, Row
  <2>2. CASE R # {}
    <3>1. First(R \cup {row}) = First(R)
      BY <2>2, FirstAppend
    <3> QED
      BY <3>1 DEF First, Granted
  <2> QED
    BY <2>1, <2>2
<1>2. LedgerBalance(R \cup {row}) = LedgerBalance(R) + row.amount
  <2>1. row \notin R
    BY DEF Row
  <2> QED
    BY <2>1, BalanceAppend
<1>3. Granted(R \cup {row})
  BY DEF Granted
<1>5. LedgerBalance(R) \in Int /\ OpeningChips \in Int
  BY BalanceInt, LedgerAssumption
<1>6. c = LedgerBalance(R) + OpeningChips
  BY DEF Book
<1> QED
  BY <1>1, <1>2, <1>3, <1>5, <1>6 DEF Book

-----------------------------------------------------------------------------
(* What the statements make of tables that are right.                      *)

LEMMA TypesOfTables ==
  ASSUME NEW d \in Tables
  PROVE  /\ d.account \in [Players -> Account]
         /\ d.rows \subseteq Row
         /\ d.last \in Nat
         /\ \A p \in Players : /\ d.account[p] \in Account
                              /\ d.account[p].chips \in Nat
                              /\ d.account[p].chips \in 0 .. MaxChips
  BY LedgerAssumption DEF Tables, Account

(* A row with the next id, of an account somebody was given.               *)
LEMMA Appended ==
  ASSUME NEW d \in Tables, NEW h, NEW e, TablesOK(d, h, e),
         NEW row \in Row, row.id = d.last + 1, h[row.player] # 0,
         NEW d2 \in Tables, d2.rows = d.rows \cup {row}, d2.last = row.id,
         \A p \in Players \ {row.player} : d2.account[p] = d.account[p],
         \/ Booked(d2, row.player) = Booked(d, row.player)
            /\ d2.account[row.player] = d.account[row.player]
         \/ h[row.player] = 1 /\ row.player \notin e
              /\ d2.account[row.player].status = "live" =>
                Book(Booked(d2, row.player), d2.account[row.player].chips)
  PROVE  TablesOK(d2, h, e)
<1>1. d.rows \subseteq Row /\ d.last \in Nat
  BY TypesOfTables
<1>2. IsFiniteSet(d2.rows)
  BY FS_AddElement DEF TablesOK
<1>3. \A r \in d.rows : r.id <= d.last /\ r.id \in Nat
  BY <1>1 DEF TablesOK, Row
<1>4. \A r \in d2.rows : r.id <= d2.last
  BY <1>1, <1>3
<1>5. \A q, r \in d2.rows : q.id = r.id => q = r
  BY <1>1, <1>3 DEF TablesOK
<1>6. ASSUME NEW p \in Players \ {row.player}
      PROVE  RowsOf(d2, p) = RowsOf(d, p) /\ Booked(d2, p) = Booked(d, p)
  BY DEF RowsOf, Booked
<1>7. ASSUME NEW p \in Players, h[p] = 0
      PROVE  d2.account[p] = NoAccount /\ RowsOf(d2, p) = {}
  BY <1>6, <1>7 DEF TablesOK
<1>8. ASSUME NEW p \in Players, h[p] = 1, p \notin e, d2.account[p].status = "live"
      PROVE  Book(Booked(d2, p), d2.account[p].chips)
  BY <1>6, <1>8 DEF TablesOK
<1> QED
  BY <1>2, <1>4, <1>5, <1>7, <1>8 DEF TablesOK

(* The book of one account, and the ids the next row comes after.          *)
LEMMA BookOf ==
  ASSUME NEW d \in Tables, NEW h, NEW e, TablesOK(d, h, e), NEW p \in Players
  PROVE  /\ Booked(d, p) \subseteq Row
         /\ IsFiniteSet(Booked(d, p))
         /\ \A r \in Booked(d, p) : r.id < d.last + 1
         /\ h[p] = 1 /\ p \notin e /\ d.account[p].status = "live" =>
              Book(Booked(d, p), d.account[p].chips)
<1>1. Booked(d, p) \subseteq d.rows
  BY DEF Booked, RowsOf
<1>2. d.rows \subseteq Row /\ d.last \in Nat
  BY TypesOfTables
<1>3. IsFiniteSet(Booked(d, p))
  BY <1>1, FS_Subset DEF TablesOK
<1>4. \A r \in Booked(d, p) : r.id < d.last + 1
  BY <1>1, <1>2 DEF TablesOK, Row
<1> QED
  BY <1>1, <1>2, <1>3, <1>4 DEF TablesOK

LEMMA MovedRows ==
  ASSUME NEW d \in Tables, NEW h, NEW e, TablesOK(d, h, e),
         NEW row \in Row, row.id = d.last + 1, h[row.player] # 0,
         row.kind = "delta",
         d.account[row.player].chips = row.after - row.amount,
         NEW d2 \in Tables, d2.rows = d.rows \cup {row}, d2.last = row.id,
         d2.account = [d.account EXCEPT ![row.player].chips = row.after]
  PROVE  TablesOK(d2, h, e)
<1> DEFINE p == row.player
<1>1. p \in Players /\ row.after \in Int /\ row.amount \in Int
  BY DEF Row
<1>2. d.account \in [Players -> Account] /\ d.account[p].chips \in Nat
  BY <1>1, TypesOfTables
<1>3. \A q \in Players \ {row.player} : d2.account[q] = d.account[q]
  BY <1>1, <1>2
<1>4. d2.account[p].status = d.account[p].status /\ d2.account[p].chips = row.after
  BY <1>1, <1>2 DEF Account
<1>5. Booked(d2, p) = Booked(d, p) \cup {row}
  BY DEF Booked, RowsOf
<1>6. row.after = d.account[p].chips + row.amount
  BY <1>1, <1>2
<1>7. h[row.player] = 1 /\ row.player \notin e /\ d2.account[row.player].status = "live" =>
        Book(Booked(d2, row.player), d2.account[row.player].chips)
  <2> SUFFICES ASSUME h[p] = 1, p \notin e, d2.account[p].status = "live"
               PROVE  Book(Booked(d2, p), d2.account[p].chips)
    OBVIOUS
  <2> HIDE DEF p
  <2>1. Book(Booked(d, p), d.account[p].chips)
    BY <1>1, <1>4, BookOf
  <2>2. /\ Booked(d, p) \subseteq Row /\ IsFiniteSet(Booked(d, p))
        /\ \A r \in Booked(d, p) : r.id < row.id
    BY <1>1, BookOf
  <2>3. d.account[p].chips \in Int
    BY <1>2
  <2> DEFINE R == Booked(d, p)
  <2> DEFINE c == d.account[p].chips
  <2>4. Book(R \cup {row}, row.after)
    <3>1. Book(R, c) /\ R \subseteq Row /\ IsFiniteSet(R) /\ c \in Int
      BY <2>1, <2>2, <2>3
    <3>2. (\A r \in R : r.id < row.id) /\ row.after = c + row.amount
      BY <1>6, <2>2
    <3> HIDE DEF R, c
    <3> QED
      BY <3>1, <3>2, BookMove
  <2> QED
    BY <1>4, <1>5, <2>4
<1> HIDE DEF p
<1> QED
  BY <1>3, <1>7, Appended

LEMMA MovedTables ==
  ASSUME NEW d \in Tables, NEW h, NEW e, TablesOK(d, h, e),
         NEW row \in Row, row.id = d.last + 1, h[row.player] # 0,
         row.kind = "delta",
         d.account[row.player].chips = row.after - row.amount,
         NEW d2, d2 = WithMove(d, row)
  PROVE  /\ d2 \in Tables
         /\ TablesOK(d2, h, e)
         /\ d2.rows = d.rows \cup {row}
         /\ d2.last = row.id
         /\ d2.account = [d.account EXCEPT ![row.player].chips = row.after]
<1>1. row.player \in Players /\ row.after \in 0 .. MaxChips /\ row.id \in Nat
  BY DEF Row
<1>2. /\ d2.rows = d.rows \cup {row}
      /\ d2.last = row.id
      /\ d2.account = [d.account EXCEPT ![row.player].chips = row.after]
  BY DEF Tables, WithMove
<1>3. d.account \in [Players -> Account] /\ d.rows \subseteq Row
  BY TypesOfTables
<1>4. d2.account \in [Players -> Account]
  BY <1>1, <1>2, <1>3 DEF Account
<1>5. d2 \in Tables
  <2>1. d2 = [account |-> d2.account, rows |-> d2.rows, last |-> d2.last]
    BY DEF Tables, WithMove
  <2> QED
    BY <1>1, <1>2, <1>3, <1>4, <2>1 DEF Tables
<1>6. TablesOK(d2, h, e)
  BY <1>2, <1>5, MovedRows
<1> QED
  BY <1>2, <1>5, <1>6

LEMMA SeededTables ==
  ASSUME NEW d \in Tables, NEW h, NEW e, TablesOK(d, h, e),
         NEW row \in Row, row.id = d.last + 1, h[row.player] # 0,
         \/ row.kind = "orphan"
         \/ /\ row.kind = "grant"
            /\ row.amount = OpeningChips
            /\ row.after = OpeningChips
            /\ h[row.player] = 1 => ~Granted(RowsOf(d, row.player)),
         NEW d2, d2 = WithRow(d, row)
  PROVE  /\ d2 \in Tables
         /\ TablesOK(d2, h, e)
         /\ d2.rows = d.rows \cup {row}
         /\ d2.last = row.id
         /\ d2.account = d.account
<1> DEFINE p == row.player
<1>1. p \in Players /\ row.id \in Nat
  BY DEF Row
<1>2. /\ d2.rows = d.rows \cup {row}
      /\ d2.last = row.id
      /\ d2.account = d.account
  BY DEF Tables, WithRow
<1>3. /\ d.account[p].chips \in Nat
      /\ d.rows \subseteq Row
  BY <1>1, TypesOfTables
<1>5. d2 \in Tables
  <2>1. d2 = [account |-> d2.account, rows |-> d2.rows, last |-> d2.last]
    BY DEF Tables, WithRow
  <2> QED
    BY <1>1, <1>2, <1>3, <2>1, TypesOfTables DEF Tables
<1>6. CASE row.kind = "orphan"
  <2>1. Booked(d2, p) = Booked(d, p)
    BY <1>2, <1>6 DEF Booked, RowsOf
  <2> QED
    BY <1>2, <1>5, <2>1, Appended
<1>7. CASE row.kind # "orphan"
  <2>1. Booked(d2, p) = Booked(d, p) \cup {row}
    BY <1>2, <1>7 DEF Booked, RowsOf
  <2>2. ASSUME h[p] = 1, p \notin e, d2.account[p].status = "live"
        PROVE  Book(Booked(d2, p), d2.account[p].chips)
    <3>1. Book(Booked(d, p), d.account[p].chips)
      BY <1>1, <1>2, <2>2, BookOf
    <3>2. ~Granted(Booked(d, p))
      BY <1>7, <2>2 DEF Granted, Booked
    <3> HIDE DEF p
    <3>3. Book(Booked(d, p) \cup {row}, d.account[p].chips)
      BY <1>1, <1>3, <1>7, <3>1, <3>2, BookOf, BookSeed
    <3> QED
      BY <1>2, <2>1, <3>3
  <2> QED
    BY <1>2, <1>5, <2>2, Appended
<1> QED
  BY <1>6, <1>7, <1>2, <1>5

(* The account p is made anew; the one of q, if another, is dropped.       *)
LEMMA SavedTables ==
  ASSUME NEW d \in Tables, NEW h \in [Players -> 0 .. 2], NEW e, TablesOK(d, h, e),
         NEW p \in Players, NEW q \in Players,
         NEW h2, h2 = HandOut(h, p),
         NEW d2, d2 = Saved(d, p, q)
  PROVE  /\ d2 \in Tables
         /\ TablesOK(d2, h2, e)
         /\ d2.rows = d.rows
         /\ d2.last = d.last
         /\ d2.account = [r \in Players |->
                            IF r = p THEN NewAccount
                            ELSE IF r = q THEN NoAccount ELSE d.account[r]]
<1>1. /\ d2.rows = d.rows
      /\ d2.last = d.last
      /\ d2.account = [r \in Players |->
                         IF r = p THEN NewAccount
                         ELSE IF r = q THEN NoAccount ELSE d.account[r]]
  BY DEF Tables, Saved
<1>2. d.account \in [Players -> Account] /\ d.rows \subseteq Row /\ d.last \in Nat
  BY TypesOfTables
<1>3. NewAccount \in Account /\ NoAccount \in Account
  BY LedgerAssumption DEF NewAccount, NoAccount, Account
<1>4. d2.account \in [Players -> Account]
  BY <1>1, <1>2, <1>3
<1>5. d2 \in Tables
  <2>1. d2 = [account |-> d2.account, rows |-> d2.rows, last |-> d2.last]
    BY DEF Tables, Saved
  <2> QED
    BY <1>1, <1>2, <1>4, <2>1 DEF Tables
<1>6. \A r \in Players : RowsOf(d2, r) = RowsOf(d, r) /\ Booked(d2, r) = Booked(d, r)
  BY <1>1 DEF RowsOf, Booked
<1>7. ASSUME NEW r \in Players, h2[r] = 0
      PROVE  d2.account[r] = NoAccount /\ RowsOf(d2, r) = {}
  BY <1>1, <1>6, <1>7 DEF TablesOK, HandOut
<1>8. ASSUME NEW r \in Players, h2[r] = 1, r \notin e, d2.account[r].status = "live"
      PROVE  Book(Booked(d2, r), d2.account[r].chips)
  <2>1. CASE r = p
    <3>1. h[p] = 0
      BY <1>8, <2>1 DEF HandOut
    <3>2. Booked(d2, r) = {}
      BY <1>6, <2>1, <3>1 DEF TablesOK, Booked
    <3>3. d2.account[r].chips = OpeningChips
      BY <1>1, <2>1 DEF NewAccount
    <3>4. Book({}, OpeningChips)
      <4>1. ~Granted({}) /\ First({}) = {}
        BY DEF Granted, First
      <4>2. OpeningChips = 0 + OpeningChips
        BY LedgerAssumption
      <4> QED
        BY <4>1, <4>2, BalanceOfNone DEF Book
    <3> QED
      BY <3>2, <3>3, <3>4
  <2>2. CASE r # p
    <3>1. h[r] = 1
      BY <1>8, <2>2 DEF HandOut
    <3>2. d2.account[r] = d.account[r]
      BY <1>1, <1>8, <2>2 DEF NoAccount
    <3> QED
      BY <1>6, <1>8, <3>1, <3>2 DEF TablesOK
  <2> QED
    BY <2>1, <2>2
<1>9. /\ IsFiniteSet(d2.rows)
      /\ \A r \in d2.rows : r.id <= d2.last
      /\ \A u, r \in d2.rows : u.id = r.id => u = r
  BY <1>1 DEF TablesOK
<1>10. TablesOK(d2, h2, e)
  BY <1>7, <1>8, <1>9 DEF TablesOK
<1> QED
  BY <1>1, <1>5, <1>10

LEMMA AnonymisedTables ==
  ASSUME NEW d \in Tables, NEW h, NEW e, TablesOK(d, h, e), NEW p \in Players,
         NEW d2, d2 = Anonymised(d, p)
  PROVE  /\ d2 \in Tables
         /\ TablesOK(d2, h, e \cup {p})
         /\ d2.rows = d.rows
         /\ d2.last = d.last
         /\ \A r \in Players \ {p} : d2.account[r] = d.account[r]
         /\ d2.account[p] \in {d.account[p], Deleted}
<1>1. /\ d2.rows = d.rows
      /\ d2.last = d.last
      /\ d2.account = [d.account EXCEPT ![p] = IF @ = NoAccount THEN @ ELSE Deleted]
  BY DEF Tables, Anonymised
<1>2. d.account \in [Players -> Account] /\ d.rows \subseteq Row /\ d.last \in Nat
  BY TypesOfTables
<1>3. Deleted \in Account
  BY LedgerAssumption DEF Deleted, Account
<1>4. /\ d2.account \in [Players -> Account]
      /\ \A r \in Players \ {p} : d2.account[r] = d.account[r]
      /\ d2.account[p] = IF d.account[p] = NoAccount THEN NoAccount ELSE Deleted
  BY <1>1, <1>2, <1>3
<1>5. d2 \in Tables
  <2>1. d2 = [account |-> d2.account, rows |-> d2.rows, last |-> d2.last]
    BY DEF Tables, Anonymised
  <2> QED
    BY <1>1, <1>2, <1>4, <2>1 DEF Tables
<1>6. \A r \in Players : RowsOf(d2, r) = RowsOf(d, r) /\ Booked(d2, r) = Booked(d, r)
  BY <1>1 DEF RowsOf, Booked
<1>7. ASSUME NEW r \in Players, h[r] = 0
      PROVE  d2.account[r] = NoAccount /\ RowsOf(d2, r) = {}
  BY <1>4, <1>6, <1>7 DEF TablesOK
<1>8. ASSUME NEW r \in Players, h[r] = 1, r \notin e \cup {p}, d2.account[r].status = "live"
      PROVE  Book(Booked(d2, r), d2.account[r].chips)
  BY <1>4, <1>6, <1>8 DEF TablesOK
<1>9. /\ IsFiniteSet(d2.rows)
      /\ \A r \in d2.rows : r.id <= d2.last
      /\ \A u, r \in d2.rows : u.id = r.id => u = r
  BY <1>1 DEF TablesOK
<1>10. TablesOK(d2, h, e \cup {p})
  BY <1>7, <1>8, <1>9 DEF TablesOK
<1> QED
  BY <1>1, <1>4, <1>5, <1>10

LEMMA PurgedTables ==
  ASSUME NEW d \in Tables, NEW h, NEW e, TablesOK(d, h, e), NEW p \in e,
         NEW d2, d2 = Purged(d, p)
  PROVE  /\ d2 \in Tables
         /\ TablesOK(d2, h, e)
         /\ d2.rows = d.rows \ RowsOf(d, p)
         /\ d2.last = d.last
         /\ d2.account = d.account
<1>1. /\ d2.rows = d.rows \ RowsOf(d, p)
      /\ d2.last = d.last
      /\ d2.account = d.account
  BY DEF Tables, Purged
<1>2. d.account \in [Players -> Account] /\ d.rows \subseteq Row /\ d.last \in Nat
  BY TypesOfTables
<1>5. d2 \in Tables
  <2>1. d2 = [account |-> d2.account, rows |-> d2.rows, last |-> d2.last]
    BY DEF Tables, Purged
  <2> QED
    BY <1>1, <1>2, <2>1 DEF Tables
<1>6. \A r \in Players \ e : Booked(d2, r) = Booked(d, r)
  BY <1>1 DEF RowsOf, Booked
<1>7. ASSUME NEW r \in Players, h[r] = 0
      PROVE  d2.account[r] = NoAccount /\ RowsOf(d2, r) = {}
  BY <1>1, <1>7 DEF TablesOK, RowsOf
<1>8. ASSUME NEW r \in Players, h[r] = 1, r \notin e, d2.account[r].status = "live"
      PROVE  Book(Booked(d2, r), d2.account[r].chips)
  BY <1>1, <1>6, <1>8 DEF TablesOK
<1>9. /\ IsFiniteSet(d2.rows)
      /\ \A r \in d2.rows : r.id <= d2.last
      /\ \A u, r \in d2.rows : u.id = r.id => u = r
  BY <1>1, FS_Subset DEF TablesOK
<1>10. TablesOK(d2, h, e)
  BY <1>7, <1>8, <1>9 DEF TablesOK
<1> QED
  BY <1>1, <1>5, <1>10

(* Tables that did not change stay right when an id is handed out or a     *)
(* deletion is asked for.                                                  *)
LEMMA SameTables ==
  ASSUME NEW d \in Tables, NEW h \in [Players -> 0 .. 2], NEW e, TablesOK(d, h, e),
         NEW p \in Players,
         NEW h2, h2 \in {h, HandOut(h, p)},
         NEW e2, e \subseteq e2
  PROVE  TablesOK(d, h2, e2)
<1>1. ASSUME NEW r \in Players, h2[r] = 0
      PROVE  d.account[r] = NoAccount /\ RowsOf(d, r) = {}
  BY <1>1 DEF TablesOK, HandOut
<1>2. ASSUME NEW r \in Players, h2[r] = 1, r \notin e2, d.account[r].status = "live"
      PROVE  Book(Booked(d, r), d.account[r].chips)
  <2>1. h[r] = 1 \/ h[r] = 0
    BY <1>2 DEF HandOut
  <2>2. h[r] # 0
    BY <1>2 DEF TablesOK, NoAccount
  <2> QED
    BY <1>2, <2>1, <2>2 DEF TablesOK
<1> QED
  BY <1>1, <1>2 DEF TablesOK

-----------------------------------------------------------------------------
(* The tables and the open transaction, step by step.                      *)

LEMMA ExtendsItself ==
  ASSUME NEW d \in Tables, NEW h, NEW e
  PROVE  Extends(d, d, h, e)
<1>1. d.last \in Nat
  BY TypesOfTables
<1> QED
  BY <1>1 DEF Extends, W!Becomes

LEMMA ExtendsAppended ==
  ASSUME NEW d0 \in Tables, NEW d \in Tables, NEW h, NEW e, Extends(d0, d, h, e),
         NEW row, row.id = d.last + 1,
         NEW d2, d2.rows = d.rows \cup {row}, d2.last = row.id, d2.account = d.account
  PROVE  Extends(d0, d2, h, e)
<1>1. d0.last \in Nat /\ d.last \in Nat
  BY TypesOfTables
<1> QED
  BY <1>1 DEF Extends

(* Handing out an id or asking for a deletion changes no promise about the *)
(* tables.                                                                 *)
LEMMA HistoryKeeps ==
  ASSUME TypeOK, DataOK, NEW p \in Players,
         handed' \in {handed, HandOut(handed, p)},
         erased \subseteq erased'
  PROVE  /\ TablesOK(db, handed', erased')
         /\ TablesOK(work, handed', erased')
         /\ Extends(db, work, handed', erased')
<1>1. TablesOK(db, handed', erased') /\ TablesOK(work, handed', erased')
  BY SameTables DEF TypeOK, DataOK
<1>2. \A r \in Players : handed[r] > 1 => handed'[r] > 1
  BY DEF TypeOK, HandOut
<1>3. \A r \in Players : work.account[r] \in W!Becomes(db.account[r], handed'[r] > 1)
  BY <1>2 DEF DataOK, Extends, W!Becomes
<1> QED
  BY <1>1, <1>3 DEF DataOK, Extends

LEMMA DataStored ==
  ASSUME TypeOK, DataOK, NEW s \in Servers, NEW c, NEW d \in Tables,
         TablesOK(d, handed', erased'), Extends(db, d, handed', erased'),
         TablesOK(db, handed', erased'),
         Store(s, d, c) \/ Publish(s, d, c)
  PROVE  /\ db' \in Tables /\ work' \in Tables /\ writer' \in Servers \cup {Nobody}
         /\ DataOK'
         /\ db' = db \/ Extends(db, db', handed', erased')
<1>1. CASE Publish(s, d, c)
  BY <1>1, ExtendsItself DEF Publish, DataOK
<1>2. CASE db' = db /\ work' = d /\ writer' = s
  <2>1. writer' # Nobody
    BY <1>2, LedgerAssumption
  <2> QED
    BY <1>2, <2>1 DEF DataOK, TypeOK
<1> QED
  BY <1>1, <1>2 DEF Store

LEMMA DataRefused ==
  ASSUME TypeOK, DataOK, NEW s \in Servers, NEW c, Refused(s, c),
         TablesOK(db, handed', erased'), TablesOK(work, handed', erased'),
         Extends(db, work, handed', erased')
  PROVE  /\ db' \in Tables /\ work' \in Tables /\ writer' \in Servers \cup {Nobody}
         /\ DataOK'
         /\ db' = db \/ Extends(db, db', handed', erased')
  BY DEF Refused, DataOK, TypeOK

LEMMA DataRolledBack ==
  ASSUME TypeOK, DataOK, NEW s \in Servers, NEW c, Rollback(s, c),
         handed' = handed, erased' = erased
  PROVE  /\ db' \in Tables /\ work' \in Tables /\ writer' \in Servers \cup {Nobody}
         /\ DataOK'
         /\ db' = db \/ Extends(db, db', handed', erased')
<1>1. CASE writer = s
  BY <1>1, ExtendsItself DEF Rollback, DataOK, TypeOK
<1>2. CASE writer # s
  BY <1>2 DEF Rollback, DataOK, TypeOK
<1> QED
  BY <1>1, <1>2

(* The row a connection is about to write.                                 *)
LEMMA RowToWrite ==
  ASSUME TypeOK, ConnOK, NEW s \in Servers,
         conn[s].step \in {"missed", "inserted", "seeding"},
         NEW k \in Kinds, NEW row, row = NextRow(s, k)
  PROVE  /\ row \in Row /\ row.id = work.last + 1 /\ row.kind = k
         /\ row.player = conn[s].row.player
         /\ row.amount = conn[s].row.amount
         /\ row.after = conn[s].row.after
         /\ row.player \in Players
         /\ handed[row.player] # 0
<1>1. conn[s].row \in Pending
  BY DEF TypeOK, Connection
<1>2. /\ conn[s].row.player \in Players /\ handed[conn[s].row.player] > 0
      /\ conn[s].row.after \in 0 .. MaxChips
  BY LedgerAssumption DEF ConnOK, ConnInv
<1>3. /\ row.id = work.last + 1 /\ row.kind = k
      /\ row.player = conn[s].row.player
      /\ row.amount = conn[s].row.amount
      /\ row.after = conn[s].row.after
  BY <1>1 DEF Pending, NextRow
<1>4. row = [id |-> row.id, player |-> row.player, kind |-> row.kind,
             amount |-> row.amount, after |-> row.after]
  BY <1>1 DEF Pending, NextRow
<1>5. row.amount \in Int /\ row.id \in Nat \ {0}
  <2>1. work.last \in Nat
    BY TypesOfTables DEF TypeOK
  <2> QED
    BY <1>1, <1>3, <2>1 DEF Pending
<1>6. row \in Row
  BY <1>2, <1>3, <1>4, <1>5 DEF Row
<1> QED
  BY <1>2, <1>3, <1>6

(* What the commit of a move, or a seeding or orphan row, makes of work.   *)
LEMMA CommitData ==
  ASSUME TypeOK, ConnOK, DataOK, NEW s \in Servers, conn[s].step = "inserted",
         NEW row, row = conn[s].row, NEW d, d = WithMove(work, row)
  PROVE  /\ row \in Row /\ row.id = work.last + 1
         /\ row.player \in Players
         /\ row.amount \in Deltas /\ row.after \in 0 .. MaxChips
         /\ writer = s
         /\ work.account[row.player].status # "none"
         /\ work.account[row.player].chips = row.after - row.amount
         /\ d \in Tables
         /\ TablesOK(d, handed, erased)
         /\ d.rows = work.rows \cup {row}
         /\ d.last = row.id
         /\ d.account = [work.account EXCEPT ![row.player].chips = row.after]
<1>1. /\ row \in Pending /\ work \in Tables
  BY DEF TypeOK, Connection
<1>2. /\ row.id = work.last + 1 /\ row.kind = "delta"
      /\ row.player \in Players /\ handed[row.player] > 0
      /\ row.amount \in Deltas /\ row.after \in 0 .. MaxChips
      /\ writer = s
      /\ work.account[row.player].status # "none"
      /\ work.account[row.player].chips = row.after - row.amount
  BY DEF ConnOK, ConnInv
<1>3. work.last \in Nat
  BY <1>1, TypesOfTables
<1>4. row \in Row
  BY <1>1, <1>2, <1>3 DEF Pending, Row
<1>5. handed[row.player] # 0 /\ TablesOK(work, handed, erased)
  BY <1>2 DEF DataOK
<1>6. /\ d \in Tables
      /\ TablesOK(d, handed, erased)
      /\ d.rows = work.rows \cup {row}
      /\ d.last = row.id
      /\ d.account = [work.account EXCEPT ![row.player].chips = row.after]
  BY <1>1, <1>2, <1>4, <1>5, MovedTables
<1> QED
  BY <1>2, <1>4, <1>6

LEMMA DataStep ==
  ASSUME IInv, NEW s \in Servers, Step(s)
  PROVE  /\ db' \in Tables /\ work' \in Tables /\ writer' \in Servers \cup {Nobody}
         /\ DataOK'
         /\ db' = db \/ Extends(db, db', handed', erased') \/ Commit(s)
<1> DEFINE Goal == /\ db' \in Tables /\ work' \in Tables
                   /\ writer' \in Servers \cup {Nobody}
                   /\ DataOK'
                   /\ db' = db \/ Extends(db, db', handed', erased') \/ Commit(s)
<1>0. /\ TypeOK /\ ConnOK /\ DataOK /\ SeedOK
      /\ db \in Tables /\ work \in Tables /\ work.last \in Nat /\ s # Nobody
      /\ handed \in [Players -> 0 .. 2]
  BY TypesOfTables, LedgerAssumption DEF IInv, TypeOK
<1>1. ASSUME UNCHANGED <<db, work, writer, handed, erased>> PROVE Goal
  BY <1>0, <1>1 DEF TypeOK, DataOK
<1>2. ASSUME NEW c, Rollback(s, c), UNCHANGED <<handed, erased>> PROVE Goal
  BY <1>0, <1>2, DataRolledBack
<1>3. ASSUME NEW c, NEW d \in Tables, Store(s, d, c) \/ Publish(s, d, c),
             UNCHANGED <<handed, erased>>,
             TablesOK(d, handed, erased), Extends(db, d, handed, erased)
      PROVE  Goal
  BY <1>0, <1>3, DataStored DEF DataOK
<1>4. ASSUME NEW c, Refused(s, c), UNCHANGED <<handed, erased>> PROVE Goal
  BY <1>0, <1>4, DataRefused DEF DataOK
<1>5. ASSUME NEW q \in Players, SaveAccount(s, q) PROVE Goal
  <2> DEFINE p == next[s]
  <2> DEFINE saved == [r \in Players |-> IF r = p THEN NewAccount
                                ELSE IF r = q THEN NoAccount ELSE work.account[r]]
  <2> DEFINE d == Saved(work, p, q)
  <2>1. p \in Players /\ erased' = erased
    BY <1>5 DEF SaveAccount
  <2>2. handed' = HandOut(handed, p)
    BY <1>5 DEF SaveAccount
  <2>3. /\ TablesOK(db, handed', erased')
        /\ TablesOK(work, handed', erased')
        /\ Extends(db, work, handed', erased')
    BY <1>0, <2>1, <2>2, HistoryKeeps
  <2>4. PICK c : Store(s, d, c) \/ Refused(s, c)
    BY <1>5 DEF SaveAccount
  <2>5. /\ d \in Tables
        /\ TablesOK(d, handed', erased')
        /\ d.rows = work.rows /\ d.last = work.last /\ d.account = saved
    <3>1. TablesOK(work, handed, erased)
      BY <1>0 DEF DataOK
    <3> HIDE DEF p
    <3> QED
      BY <1>0, <2>1, <2>2, <3>1, SavedTables
  <2>6. Extends(db, d, handed', erased')
    <3>1. ASSUME NEW r \in Players
          PROVE  saved[r] \in W!Becomes(db.account[r], handed'[r] > 1)
      <4>1. CASE r = p
        <5>1. handed[p] = 0 => db.account[p] = NoAccount
          BY <2>1 DEF DataOK, TablesOK, IInv
        <5>2. handed[p] # 0 => handed'[p] > 1
          BY <1>0, <2>1, <2>2 DEF HandOut
        <5> QED
          BY <4>1, <5>1, <5>2 DEF W!Becomes, W!NewAccount, NewAccount, NoAccount, W!NoAccount
      <4>2. CASE r # p /\ r = q
        BY <4>2 DEF W!Becomes, NoAccount, W!NoAccount
      <4>3. CASE r # p /\ r # q
        BY <2>3, <4>3 DEF Extends
      <4> QED
        BY <4>1, <4>2, <4>3
    <3> HIDE DEF d, saved
    <3> QED
      BY <2>3, <2>5, <3>1 DEF Extends
  <2> HIDE DEF d
  <2> QED
    BY <1>0, <2>3, <2>4, <2>5, <2>6, DataStored, DataRefused
<1>6. ASSUME NEW p \in Players, DeleteAccount(s, p) PROVE Goal
  <2> DEFINE d == Anonymised(work, p)
  <2>1. handed' = handed /\ erased' = erased \cup {p}
    BY <1>6 DEF DeleteAccount
  <2>2. /\ TablesOK(db, handed', erased')
        /\ TablesOK(work, handed', erased')
        /\ Extends(db, work, handed', erased')
    BY <1>0, <2>1, HistoryKeeps
  <2>3. PICK c : Store(s, d, c) \/ Refused(s, c)
    BY <1>6 DEF DeleteAccount
  <2>4. /\ d \in Tables
        /\ TablesOK(d, handed, erased \cup {p})
        /\ d.rows = work.rows /\ d.last = work.last
        /\ \A r \in Players \ {p} : d.account[r] = work.account[r]
        /\ d.account[p] \in {work.account[p], Deleted}
    <3>1. TablesOK(work, handed, erased)
      BY <1>0 DEF DataOK
    <3>2. d = Anonymised(work, p)
      OBVIOUS
    <3> HIDE DEF d
    <3> QED
      BY <1>0, <3>1, <3>2, AnonymisedTables
  <2> HIDE DEF d
  <2>5. Extends(db, d, handed', erased')
    <3>1. ASSUME NEW r \in Players
          PROVE  d.account[r] \in W!Becomes(db.account[r], handed'[r] > 1)
      <4>1. CASE d.account[r] = work.account[r]
        BY <2>2, <4>1 DEF Extends
      <4>2. CASE d.account[r] = Deleted
        BY <4>2 DEF W!Becomes, Deleted, W!Deleted
      <4> QED
        BY <2>4, <4>1, <4>2
    <3> QED
      BY <2>2, <2>4, <3>1 DEF Extends
  <2>6. TablesOK(d, handed', erased')
    BY <2>1, <2>4
  <2> QED
    BY <1>0, <2>2, <2>3, <2>4, <2>5, <2>6, DataStored, DataRefused
<1>7. CASE OrphanRow(s)
  <2> DEFINE row == NextRow(s, "orphan")
  <2> DEFINE d == WithRow(work, row)
  <2>1. Store(s, d, At(s, "committed", row)) /\ UNCHANGED <<handed, erased>>
    BY <1>7 DEF OrphanRow
  <2>2. /\ row \in Row /\ row.id = work.last + 1 /\ row.kind = "orphan"
        /\ handed[row.player] # 0
    <3>1. conn[s].step = "missed" /\ "orphan" \in Kinds
      BY <1>7 DEF OrphanRow, Kinds
    <3> QED
      BY <1>0, <3>1, RowToWrite
  <2> HIDE DEF row
  <2>3. /\ d \in Tables
        /\ TablesOK(d, handed, erased)
        /\ d.rows = work.rows \cup {row} /\ d.last = row.id /\ d.account = work.account
    <3>1. TablesOK(work, handed, erased)
      BY <1>0 DEF DataOK
    <3> QED
      BY <1>0, <2>2, <3>1, SeededTables
  <2> HIDE DEF d
  <2>4. Extends(db, d, handed, erased)
    BY <1>0, <2>2, <2>3, ExtendsAppended DEF DataOK
  <2> QED
    BY <1>3, <2>1, <2>3, <2>4
<1>8. CASE SeedLedger(s)
  <2> DEFINE row == NextRow(s, "grant")
  <2> DEFINE d == WithRow(work, row)
  <2>0. conn[s].step = "seeding" /\ UNCHANGED <<handed, erased>>
    BY <1>8 DEF SeedLedger
  <2>1. Store(s, d, Idle(s)) \/ Refused(s, Idle(s))
    BY <1>8 DEF SeedLedger
  <2>2. /\ row \in Row /\ row.id = work.last + 1 /\ row.kind = "grant"
        /\ handed[row.player] # 0
        /\ row.player = conn[s].row.player
        /\ row.amount = OpeningChips /\ row.after = OpeningChips
    <3>1. /\ conn[s].row.kind = "grant"
          /\ conn[s].row.amount = OpeningChips /\ conn[s].row.after = OpeningChips
      BY <1>0, <2>0 DEF ConnOK, ConnInv
    <3>2. "grant" \in Kinds
      BY DEF Kinds
    <3> QED
      BY <1>0, <2>0, <3>1, <3>2, RowToWrite
  <2>3. handed[row.player] = 1 => ~Granted(RowsOf(work, row.player))
    BY <1>0, <2>0, <2>2 DEF SeedOK, SeedInv
  <2> HIDE DEF row
  <2>4. /\ d \in Tables
        /\ TablesOK(d, handed, erased)
        /\ d.rows = work.rows \cup {row} /\ d.last = row.id /\ d.account = work.account
    <3>1. TablesOK(work, handed, erased)
      BY <1>0 DEF DataOK
    <3> QED
      BY <1>0, <2>2, <2>3, <3>1, SeededTables
  <2> HIDE DEF d
  <2>5. Extends(db, d, handed, erased)
    BY <1>0, <2>2, <2>4, ExtendsAppended DEF DataOK
  <2> QED
    BY <1>3, <1>4, <2>0, <2>1, <2>4, <2>5
<1>9. CASE PurgeRows(s)
  <2> DEFINE p == conn[s].row.player
  <2> DEFINE d == Purged(work, p)
  <2>1. Store(s, d, Idle(s)) \/ Refused(s, Idle(s))
    BY <1>9 DEF PurgeRows
  <2>2. p \in erased /\ UNCHANGED <<handed, erased>>
    BY <1>0, <1>9 DEF PurgeRows, ConnOK, ConnInv
  <2> HIDE DEF p
  <2>3. /\ d \in Tables
        /\ TablesOK(d, handed, erased)
        /\ d.rows = work.rows \ RowsOf(work, p) /\ d.last = work.last
        /\ d.account = work.account
    <3>1. TablesOK(work, handed, erased)
      BY <1>0 DEF DataOK
    <3> QED
      BY <1>0, <2>2, <3>1, PurgedTables
  <2> HIDE DEF d
  <2>4. Extends(db, d, handed, erased)
    BY <1>0, <2>2, <2>3 DEF DataOK, Extends, RowsOf
  <2> QED
    BY <1>3, <1>4, <2>1, <2>2, <2>3, <2>4
<1>10. CASE Commit(s)
  <2> DEFINE d == WithMove(work, conn[s].row)
  <2>1. Publish(s, d, Closed(s)) /\ UNCHANGED <<handed, erased>>
    BY <1>10 DEF Commit
  <2>2. d \in Tables /\ TablesOK(d, handed, erased)
    BY <1>0, <1>10, CommitData DEF Commit
  <2>3. db' = d /\ work' = d /\ writer' = Nobody
    BY <2>1 DEF Publish
  <2> HIDE DEF d
  <2> QED
    BY <1>10, <2>1, <2>2, <2>3, ExtendsItself DEF DataOK
<1>11. CASE SaveHand(s) \/ OtherWrite(s)
  <2>1. TablesOK(work, handed, erased) /\ Extends(db, work, handed, erased)
    BY <1>0 DEF DataOK
  <2> QED
    BY <1>0, <1>2, <1>3, <1>11, <2>1 DEF SaveHand, OtherWrite
<1>12. CASE UpdateRow(s)
  <2>1. db' = db /\ work' = work /\ writer' = s /\ UNCHANGED <<handed, erased>>
    BY <1>12 DEF UpdateRow
  <2> QED
    BY <1>0, <2>1 DEF DataOK
<1>13. ASSUME NEW p \in Players, NEW d \in Deltas, Read(s, p, d) PROVE Goal
  BY <1>1, <1>13 DEF Read, Reading
<1>14. ASSUME NEW p \in Players, NEW d \in Deltas, ReadFails(s, p, d) PROVE Goal
  BY <1>2, <1>14 DEF ReadFails
<1>15. CASE InsertRow(s) \/ Report(s)
  BY <1>1, <1>15 DEF InsertRow, Report
<1>16. CASE UpdateMissed(s) \/ InsertMissed(s)
  BY <1>4, <1>16 DEF UpdateMissed, InsertMissed
<1>17. CASE ConcurrentUpdate(s) \/ InsertFails(s) \/ CommitFails(s) \/ Crash(s)
  BY <1>2, <1>17 DEF ConcurrentUpdate, InsertFails, CommitFails, Crash
<1> QED
  BY <1>5, <1>6, <1>7, <1>8, <1>9, <1>10, <1>11, <1>12, <1>13, <1>14, <1>15, <1>16,
     <1>17 DEF Step

-----------------------------------------------------------------------------
(* The connections, step by step.                                          *)

LEMMA ConnOfOthers ==
  ASSUME TypeOK, NEW s \in Servers, Step(s)
  PROVE  /\ \A t \in Servers \ {s} : /\ conn'[t].step = conn[t].step
                                    /\ conn'[t].row = conn[t].row
         /\ conn'[s] \in Connection => conn' \in [Servers -> Connection]
<1> DEFINE Goal == /\ \A t \in Servers \ {s} : /\ conn'[t].step = conn[t].step
                                              /\ conn'[t].row = conn[t].row
                   /\ conn'[s] \in Connection => conn' \in [Servers -> Connection]
<1>0. conn \in [Servers -> Connection]
  BY DEF TypeOK
<1>1. ASSUME NEW c, conn' = [conn EXCEPT ![s] = c] PROVE Goal
  BY <1>0, <1>1
<1>2. ASSUME NEW c, conn' = AfterCommit(s, c) PROVE Goal
  BY <1>0, <1>2 DEF AfterCommit, Connection
<1>3. \E c : conn' = [conn EXCEPT ![s] = c] \/ conn' = AfterCommit(s, c)
  <2>1. ASSUME NEW c, NEW d, Store(s, d, c) \/ Publish(s, d, c) \/ Refused(s, c) \/ Rollback(s, c)
        PROVE  conn' = [conn EXCEPT ![s] = c] \/ conn' = AfterCommit(s, c)
    BY <2>1 DEF Store, Publish, Refused, Rollback
  <2>2. CASE \E q \in Players : SaveAccount(s, q)
    BY <2>1, <2>2 DEF SaveAccount
  <2>3. CASE \E p \in Players : DeleteAccount(s, p)
    BY <2>1, <2>3 DEF DeleteAccount
  <2>4. CASE \E p \in Players, d \in Deltas : Read(s, p, d)
    BY <2>4 DEF Read, Reading
  <2>5. CASE \E p \in Players, d \in Deltas : ReadFails(s, p, d)
    BY <2>1, <2>5 DEF ReadFails
  <2>6. CASE UpdateRow(s)
    <3>1. conn' = [conn EXCEPT ![s] = [conn[s] EXCEPT !.step = "updated"]]
      BY <2>6 DEF UpdateRow
    <3> QED
      BY <3>1
  <2>7. CASE InsertRow(s) \/ Report(s)
    BY <2>7 DEF InsertRow, Report
  <2>8. CASE ConcurrentUpdate(s) \/ InsertFails(s) \/ CommitFails(s) \/ Crash(s)
    BY <2>1, <2>8 DEF ConcurrentUpdate, InsertFails, CommitFails, Crash
  <2>9. CASE UpdateMissed(s) \/ InsertMissed(s)
    BY <2>1, <2>9 DEF UpdateMissed, InsertMissed
  <2>10. CASE OrphanRow(s)
    BY <2>1, <2>10 DEF OrphanRow
  <2>11. CASE Commit(s)
    BY <2>1, <2>11 DEF Commit
  <2>12. CASE SeedLedger(s) \/ PurgeRows(s)
    BY <2>1, <2>12 DEF SeedLedger, PurgeRows
  <2>13. CASE SaveHand(s) \/ OtherWrite(s)
    BY <2>1, <2>13 DEF SaveHand, OtherWrite
  <2> QED
    BY <2>2, <2>3, <2>4, <2>5, <2>6, <2>7, <2>8, <2>9, <2>10, <2>11, <2>12, <2>13 DEF Step
<1> QED
  BY <1>1, <1>2, <1>3

LEMMA OwnConn ==
  ASSUME TypeOK, NEW s \in Servers, NEW c, NEW d,
         Store(s, d, c) \/ Publish(s, d, c) \/ Refused(s, c) \/ Rollback(s, c)
  PROVE  conn'[s] = c
<1>1. conn \in [Servers -> Connection]
  BY DEF TypeOK
<1> QED
  BY <1>1 DEF Store, Publish, Refused, Rollback, AfterCommit

LEMMA AtTypes ==
  ASSUME TypeOK, NEW s \in Servers, NEW step \in Steps, NEW row \in Pending
  PROVE  /\ At(s, step, row) \in Connection
         /\ At(s, step, row).step = step /\ At(s, step, row).row = row
<1>1. conn[s] \in Connection
  BY DEF TypeOK
<1> QED
  BY <1>1 DEF At, Connection

LEMMA IdleTypes ==
  ASSUME TypeOK, NEW s \in Servers, NEW c \in {IdleConn, Idle(s)}
  PROVE  c \in Connection /\ c.step = "idle" /\ c.row.player = Nobody
<1>1. NoRow \in Pending /\ NoRow.player = Nobody /\ "idle" \in Steps
  BY DEF NoRow, Pending, Kinds, Steps
<1>2. IdleConn \in Connection /\ IdleConn.step = "idle" /\ IdleConn.row.player = Nobody
  BY <1>1 DEF IdleConn, Connection
<1>3. Idle(s) \in Connection /\ Idle(s).step = "idle" /\ Idle(s).row = NoRow
  BY <1>1, AtTypes DEF Idle
<1> QED
  BY <1>1, <1>2, <1>3

LEMMA NextRowTypes ==
  ASSUME TypeOK, NEW s \in Servers, NEW k \in Kinds
  PROVE  LET row == NextRow(s, k) IN
         /\ row \in Pending /\ row.id = work.last + 1 /\ row.kind = k
         /\ row.player = conn[s].row.player
         /\ row.amount = conn[s].row.amount
         /\ row.after = conn[s].row.after
<1>1. conn[s].row \in Pending /\ work.last \in Nat
  BY TypesOfTables DEF TypeOK, Connection
<1>2. work.last + 1 \in Nat
  BY <1>1
<1>3. [conn[s].row EXCEPT !.id = work.last + 1] \in Pending
  BY <1>1, <1>2 DEF Pending
<1>4. NextRow(s, k) \in Pending
  BY <1>1, <1>3 DEF Pending, NextRow
<1> QED
  BY <1>1, <1>4 DEF Pending, NextRow

(* Ids are handed out and deletions asked for, never the other way.        *)
LEMMA Histories ==
  ASSUME IInv, NEW s \in Servers, Step(s)
  PROVE  /\ next' \in [Servers -> 1 .. MaxId + 1]
         /\ handed' \in [Players -> 0 .. 2]
         /\ \A p \in Players : handed'[p] >= handed[p]
         /\ erased \subseteq erased' /\ erased' \subseteq Players
<1> USE LedgerAssumption
<1>0. /\ next \in [Servers -> 1 .. MaxId + 1] /\ handed \in [Players -> 0 .. 2]
      /\ erased \subseteq Players
  BY DEF IInv, TypeOK
<1>1. CASE UNCHANGED <<next, handed, erased>>
  BY <1>0, <1>1
<1>2. CASE \E q \in Players : SaveAccount(s, q)
  <2>1. /\ next[s] \in Players /\ next' = [next EXCEPT ![s] = next[s] + 1]
        /\ handed' = HandOut(handed, next[s]) /\ erased' = erased
    BY <1>2 DEF SaveAccount
  <2>2. next' \in [Servers -> 1 .. MaxId + 1]
    BY <1>0, <2>1 DEF Players
  <2>3. handed' \in [Players -> 0 .. 2] /\ \A p \in Players : handed'[p] >= handed[p]
    BY <1>0, <2>1 DEF HandOut
  <2> QED
    BY <1>0, <2>1, <2>2, <2>3
<1>3. CASE \E p \in Players : DeleteAccount(s, p)
  BY <1>0, <1>3 DEF DeleteAccount
<1>4. CASE Crash(s)
  <2> DEFINE S == {0} \cup {p \in Players : db.account[p] # NoAccount}
  <2>1. S \subseteq 0 .. MaxId /\ S # {}
    BY DEF Players
  <2>2. IsFiniteSet(S)
    <3>1. 0 \in Int /\ MaxId \in Int
      OBVIOUS
    <3>2. IsFiniteSet(0 .. MaxId)
      BY <3>1, FS_Interval
    <3> QED
      BY <2>1, <3>2, FS_Subset
  <2>3. S \subseteq Int
    BY <2>1
  <2>4. Max(S) \in S
    BY <2>1, <2>2, <2>3, MaxOfFinite
  <2>5. 1 + Max(S) \in 1 .. MaxId + 1
    <3>1. Max(S) \in 0 .. MaxId
      BY <2>1, <2>4
    <3> QED
      BY <3>1
  <2>6. next' = [next EXCEPT ![s] = 1 + Max(S)] /\ UNCHANGED <<handed, erased>>
    BY <1>4 DEF Crash
  <2> HIDE DEF S
  <2> QED
    BY <1>0, <2>5, <2>6
<1> QED
  BY <1>1, <1>2, <1>3, <1>4 DEF Step, Read, Reading, ReadFails, UpdateRow, ConcurrentUpdate,
     UpdateMissed, InsertRow, InsertFails, InsertMissed, OrphanRow, Commit, CommitFails,
     Report, SeedLedger, PurgeRows, SaveHand, OtherWrite

LEMMA OwnStep ==
  ASSUME IInv, NEW s \in Servers, Step(s)
  PROVE  conn'[s] \in Connection /\ ConnInv(s)'
<1> DEFINE Goal == conn'[s] \in Connection /\ ConnInv(s)'
<1> DEFINE row == conn[s].row
<1>0. /\ TypeOK /\ ConnInv(s)
      /\ conn \in [Servers -> Connection] /\ conn[s] \in Connection /\ row \in Pending
  BY DEF IInv, ConnOK, TypeOK, Connection
<1>1. ASSUME conn'[s] \in {IdleConn, Idle(s)} PROVE Goal
  <2>1. /\ conn'[s] \in Connection /\ conn'[s].step = "idle"
        /\ conn'[s].row.player = Nobody
    BY <1>0, <1>1, IdleTypes
  <2> QED
    BY <2>1 DEF ConnInv
<1>2. ASSUME conn'[s] \in Connection, conn'[s].step = "committed",
             conn'[s].row.player = row.player, conn[s].step # "idle",
             handed' = handed
      PROVE  Goal
  BY <1>0, <1>2 DEF ConnInv
<1>3. ASSUME NEW q \in Players, SaveAccount(s, q) PROVE Goal
  <2> DEFINE p == next[s]
  <2> DEFINE seed == [id |-> 0, player |-> p, kind |-> "grant",
                      amount |-> OpeningChips, after |-> OpeningChips]
  <2>1. p \in Players /\ handed' = HandOut(handed, p)
    BY <1>3 DEF SaveAccount
  <2>2. conn'[s] = At(s, "seeding", seed)
    BY <1>0, <1>3, OwnConn DEF SaveAccount
  <2>3. seed \in Pending /\ "seeding" \in Steps
    BY <2>1, LedgerAssumption DEF Pending, Kinds, Steps
  <2>4. conn'[s] \in Connection /\ conn'[s].step = "seeding" /\ conn'[s].row = seed
    BY <1>0, <2>2, <2>3, AtTypes
  <2>5. handed'[p] > 0
    BY <1>0, <2>1 DEF TypeOK, HandOut
  <2> QED
    BY <2>1, <2>4, <2>5 DEF ConnInv
<1>4. ASSUME NEW p \in Players, DeleteAccount(s, p) PROVE Goal
  <2> DEFINE r == [NoRow EXCEPT !.player = p]
  <2>1. conn'[s] = At(s, "purging", r)
    BY <1>0, <1>4, OwnConn DEF DeleteAccount
  <2>2. r \in Pending /\ r.player = p /\ "purging" \in Steps
    <3>1. r = [id |-> 0, player |-> p, kind |-> "delta", amount |-> 0, after |-> 0]
      BY DEF NoRow
    <3>2. "delta" \in Kinds /\ "purging" \in Steps
      BY DEF Kinds, Steps
    <3> HIDE DEF r
    <3> QED
      BY <3>1, <3>2 DEF Pending
  <2> HIDE DEF r
  <2>3. conn'[s] \in Connection /\ conn'[s].step = "purging" /\ conn'[s].row.player = p
    BY <1>0, <2>1, <2>2, AtTypes
  <2>4. p \in erased' /\ handed'[p] > 0
    BY <1>4 DEF DeleteAccount
  <2> QED
    BY <2>3, <2>4 DEF ConnInv
<1>5. ASSUME NEW p \in Players, NEW d \in Deltas, Read(s, p, d) PROVE Goal
  <2>1. PICK chips \in Balances(s, p) : chips + d \in 0 .. MaxChips /\ Reading(s, p, d, chips)
    BY <1>5 DEF Read
  <2> DEFINE r == [id |-> 0, player |-> p, kind |-> "delta", amount |-> d, after |-> chips + d]
  <2>2. /\ conn'[s] = [step |-> "read", open |-> TRUE, stale |-> conn[s].stale, row |-> r]
        /\ handed' = handed /\ handed[p] > 0
    BY <1>0, <1>5, <2>1 DEF Reading, Read, Called
  <2>3. r \in Pending /\ r.player = p /\ r.kind = "delta" /\ r.amount = d
        /\ r.after \in 0 .. MaxChips
    BY <2>1, LedgerAssumption DEF Pending, Kinds
  <2> HIDE DEF r
  <2>4. conn'[s] \in Connection /\ conn'[s].step = "read" /\ conn'[s].row = r
    BY <1>0, <2>2, <2>3 DEF Connection, Steps
  <2> QED
    BY <2>2, <2>3, <2>4 DEF ConnInv
<1>6. CASE UpdateRow(s)
  <2>1. /\ conn'[s] = [conn[s] EXCEPT !.step = "updated"]
        /\ writer' = s /\ work' = work /\ handed' = handed
        /\ conn[s].step = "read"
        /\ work.account[row.player].status # "none"
        /\ work.account[row.player].chips = row.after - row.amount
    BY <1>0, <1>6 DEF UpdateRow, StillCurrent
  <2>2. conn'[s] \in Connection /\ conn'[s].step = "updated" /\ conn'[s].row = row
    BY <1>0, <2>1 DEF Connection, Steps
  <2> HIDE DEF row
  <2> QED
    BY <1>0, <2>1, <2>2 DEF ConnInv, row
<1>7. CASE UpdateMissed(s)
  <2>1. conn'[s] = At(s, "missed", row) /\ "missed" \in Steps
    BY <1>0, <1>7, OwnConn DEF UpdateMissed, Steps
  <2>2. conn'[s] \in Connection /\ conn'[s].step = "missed" /\ conn'[s].row = row
    BY <1>0, <2>1, AtTypes
  <2>3. conn[s].step = "read" /\ handed' = handed
    BY <1>7 DEF UpdateMissed
  <2> QED
    BY <1>0, <2>2, <2>3 DEF ConnInv
<1>8. CASE InsertRow(s)
  <2> DEFINE r == NextRow(s, "delta")
  <2>1. /\ conn'[s] = At(s, "inserted", r) /\ "inserted" \in Steps
        /\ conn[s].step = "updated" /\ UNCHANGED <<work, writer, handed>>
    BY <1>0, <1>8 DEF InsertRow, Steps
  <2>3. /\ r \in Pending /\ r.id = work.last + 1 /\ r.kind = "delta" /\ r.player = row.player
        /\ r.amount = row.amount /\ r.after = row.after
    <3>1. "delta" \in Kinds
      BY DEF Kinds
    <3> QED
      BY <1>0, <3>1, NextRowTypes
  <2> HIDE DEF r
  <2>4. conn'[s] \in Connection /\ conn'[s].step = "inserted" /\ conn'[s].row = r
    BY <1>0, <2>1, <2>3, AtTypes
  <2>5. /\ row.player \in Players /\ handed[row.player] > 0
        /\ row.amount \in Deltas /\ row.after \in 0 .. MaxChips
        /\ writer = s
        /\ work.account[row.player].status # "none"
        /\ work.account[row.player].chips = row.after - row.amount
    BY <1>0, <2>1 DEF ConnInv
  <2> HIDE DEF row
  <2> QED
    BY <2>1, <2>3, <2>4, <2>5 DEF ConnInv
<1>9. CASE InsertMissed(s)
  <2>1. conn'[s] = At(s, "committed", row) /\ "committed" \in Steps
    BY <1>0, <1>9, OwnConn DEF InsertMissed, Steps
  <2> QED
    BY <1>0, <1>2, <1>9, <2>1, AtTypes DEF InsertMissed
<1>10. CASE OrphanRow(s)
  <2> DEFINE r == NextRow(s, "orphan")
  <2>1. conn'[s] = At(s, "committed", r) /\ "committed" \in Steps
    BY <1>0, <1>10, OwnConn DEF OrphanRow, Steps
  <2>3. r \in Pending /\ r.player = row.player
    <3>1. "orphan" \in Kinds
      BY DEF Kinds
    <3> QED
      BY <1>0, <3>1, NextRowTypes
  <2> HIDE DEF r
  <2>4. conn'[s] \in Connection /\ conn'[s].step = "committed" /\ conn'[s].row = r
    BY <1>0, <2>1, <2>3, AtTypes
  <2> QED
    BY <1>2, <1>10, <2>3, <2>4 DEF OrphanRow
<1>11. CASE Commit(s) \/ CommitFails(s)
  <2>1. conn'[s] = Closed(s) /\ "committed" \in Steps
    BY <1>0, <1>11, OwnConn DEF Commit, CommitFails, Steps
  <2>2. At(s, "committed", row) \in Connection /\ At(s, "committed", row).step = "committed"
        /\ At(s, "committed", row).row = row
    BY <1>0, <2>1, AtTypes
  <2>3. /\ Closed(s) \in Connection /\ Closed(s).step = "committed" /\ Closed(s).row = row
    BY <2>2 DEF Closed, Connection
  <2> QED
    BY <1>2, <1>11, <2>1, <2>3 DEF Commit, CommitFails
<1>12. CASE Report(s)
  BY <1>0, <1>1, <1>12 DEF Report
<1>13. CASE ConcurrentUpdate(s) \/ InsertFails(s) \/ Crash(s)
  BY <1>0, <1>1, <1>13, OwnConn DEF ConcurrentUpdate, InsertFails, Crash
<1>14. CASE SeedLedger(s) \/ PurgeRows(s) \/ OtherWrite(s) \/ SaveHand(s)
  BY <1>0, <1>1, <1>14, OwnConn DEF SeedLedger, PurgeRows, OtherWrite, SaveHand
<1>15. ASSUME NEW p \in Players, NEW d \in Deltas, ReadFails(s, p, d) PROVE Goal
  BY <1>0, <1>1, <1>15, OwnConn DEF ReadFails
<1> QED
  BY <1>3, <1>4, <1>5, <1>6, <1>7, <1>8, <1>9, <1>10, <1>11, <1>12, <1>13, <1>14,
     <1>15 DEF Step

LEMMA InitIInv == Init => IInv
<1> SUFFICES ASSUME Init PROVE IInv
  OBVIOUS
<1> USE LedgerAssumption
<1>1. db \in Tables
  <2>1. NoAccount \in Account
    BY DEF NoAccount, Account
  <2> QED
    BY <2>1 DEF Init, Tables
<1>2. IdleConn \in Connection /\ IdleConn.step = "idle" /\ IdleConn.row.player = Nobody
  <2>1. NoRow \in Pending /\ NoRow.player = Nobody /\ "idle" \in Steps
    BY DEF NoRow, Pending, Kinds, Steps
  <2> QED
    BY <2>1 DEF IdleConn, Connection
<1>3. TypeOK
  <2>1. 1 \in 1 .. MaxId + 1
    OBVIOUS
  <2> QED
    BY <1>1, <1>2, <2>1 DEF Init, TypeOK
<1>4. ConnOK
  BY <1>2 DEF Init, ConnOK, ConnInv
<1>5. TablesOK(db, handed, erased)
  <2>1. db.rows = {} /\ \A p \in Players : db.account[p] = NoAccount /\ handed[p] = 0
    BY DEF Init
  <2> QED
    BY <2>1, FS_EmptySet DEF TablesOK, RowsOf
<1>6. DataOK
  BY <1>1, <1>5, ExtendsItself DEF Init, DataOK
<1>7. SeedOK
  BY <1>2 DEF Init, SeedOK, SeedInv
<1> QED
  BY <1>3, <1>4, <1>6, <1>7 DEF IInv

(* While a connection holds the write lock, no other one writes.           *)
LEMMA Exclusion ==
  ASSUME IInv, NEW s \in Servers, Step(s), NEW t \in Servers \ {s}, writer = t
  PROVE  writer' = t /\ work' = work
<1>0. writer # s /\ writer # Nobody
  BY LedgerAssumption
<1>1. \A d, c : ~Store(s, d, c)
  BY <1>0 DEF Store, MayWrite
<1>2. ASSUME NEW c, Rollback(s, c) \/ Refused(s, c) PROVE writer' = t /\ work' = work
  BY <1>0, <1>2 DEF Rollback, Refused
<1>3. ~UpdateRow(s)
  BY <1>0 DEF UpdateRow, MayWrite
<1>4. ~Commit(s)
  BY <1>0 DEF Commit, IInv, ConnOK, ConnInv
<1>5. CASE \E q \in Players : SaveAccount(s, q)
  BY <1>1, <1>2, <1>5 DEF SaveAccount
<1>6. CASE \E p \in Players : DeleteAccount(s, p)
  BY <1>1, <1>2, <1>6 DEF DeleteAccount
<1>7. CASE \E p \in Players, d \in Deltas : Read(s, p, d)
  BY <1>7 DEF Read, Reading
<1>8. CASE \E p \in Players, d \in Deltas : ReadFails(s, p, d)
  BY <1>2, <1>8 DEF ReadFails
<1>9. CASE InsertRow(s) \/ Report(s)
  BY <1>9 DEF InsertRow, Report
<1>10. CASE SaveHand(s)
  BY <1>0, <1>2, <1>10 DEF SaveHand, MayWrite
<1>11. CASE OtherWrite(s) \/ SeedLedger(s) \/ PurgeRows(s) \/ OrphanRow(s)
  BY <1>1, <1>2, <1>11 DEF OtherWrite, SeedLedger, PurgeRows, OrphanRow
<1>12. CASE ConcurrentUpdate(s) \/ InsertFails(s) \/ CommitFails(s) \/ Crash(s)
  BY <1>2, <1>12 DEF ConcurrentUpdate, InsertFails, CommitFails, Crash
<1>13. CASE UpdateMissed(s) \/ InsertMissed(s)
  BY <1>2, <1>13 DEF UpdateMissed, InsertMissed
<1> QED
  BY <1>3, <1>4, <1>5, <1>6, <1>7, <1>8, <1>9, <1>10, <1>11, <1>12, <1>13 DEF Step

LEMMA ConnStep ==
  ASSUME IInv, NEW s \in Servers, Step(s)
  PROVE  conn' \in [Servers -> Connection] /\ ConnOK'
<1>1. conn'[s] \in Connection /\ ConnInv(s)'
  BY OwnStep
<1>2. ASSUME NEW t \in Servers \ {s} PROVE ConnInv(t)'
  <2>1. conn'[t].step = conn[t].step /\ conn'[t].row = conn[t].row
    BY ConnOfOthers DEF IInv
  <2>2. ConnInv(t)
    BY DEF IInv, ConnOK
  <2>3. /\ \A p \in Players : handed[p] > 0 => handed'[p] > 0
        /\ erased \subseteq erased'
    BY Histories DEF IInv, TypeOK
  <2>4. writer = t => writer' = t /\ work' = work
    BY Exclusion
  <2>5. conn[t].step \in {"updated", "inserted"} => writer = t
    BY <2>2 DEF ConnInv
  <2> QED
    BY <2>1, <2>2, <2>3, <2>4, <2>5 DEF ConnInv
<1> QED
  BY <1>1, <1>2, ConnOfOthers DEF ConnOK, IInv

(* Rows that seed a ledger are written by SeedLedger only.                 *)
LEMMA NewGrants ==
  ASSUME IInv, NEW s \in Servers, Step(s), NEW r \in db'.rows \cup work'.rows,
         r.kind = "grant"
  PROVE  \/ r \in db.rows \cup work.rows
         \/ SeedLedger(s) /\ r.player = conn[s].row.player
<1> DEFINE Goal == \/ r \in db.rows \cup work.rows
                   \/ SeedLedger(s) /\ r.player = conn[s].row.player
<1>0. TypeOK /\ ConnInv(s) /\ work \in Tables
  BY DEF IInv, ConnOK, TypeOK
<1>1. ASSUME NEW c, Rollback(s, c) \/ Refused(s, c) PROVE Goal
  BY <1>1 DEF Rollback, Refused
<1>2. ASSUME NEW c, NEW d, Store(s, d, c) \/ Publish(s, d, c), d.rows \subseteq work.rows
      PROVE  Goal
  BY <1>2 DEF Store, Publish
<1>3. ASSUME NEW c, NEW d, Store(s, d, c) \/ Publish(s, d, c), NEW row,
             d.rows \subseteq work.rows \cup {row},
             row.kind = "grant" => SeedLedger(s) /\ row.player = conn[s].row.player
      PROVE  Goal
  BY <1>3 DEF Store, Publish
<1>4. CASE \E q \in Players : SaveAccount(s, q)
  <2>1. PICK q \in Players : SaveAccount(s, q)
    BY <1>4
  <2>2. Saved(work, next[s], q).rows = work.rows
    BY <1>0 DEF Saved, Tables
  <2> QED
    BY <1>1, <1>2, <2>1, <2>2 DEF SaveAccount
<1>5. CASE \E p \in Players : DeleteAccount(s, p)
  <2>1. PICK p \in Players : DeleteAccount(s, p)
    BY <1>5
  <2>2. Anonymised(work, p).rows = work.rows
    BY <1>0 DEF Anonymised, Tables
  <2> QED
    BY <1>1, <1>2, <2>1, <2>2 DEF DeleteAccount
<1>6. CASE \E p \in Players, d \in Deltas : Read(s, p, d)
  BY <1>6 DEF Read, Reading
<1>7. CASE \E p \in Players, d \in Deltas : ReadFails(s, p, d)
  BY <1>1, <1>7 DEF ReadFails
<1>8. CASE UpdateRow(s) \/ InsertRow(s) \/ Report(s)
  BY <1>8 DEF UpdateRow, InsertRow, Report
<1>9. CASE Commit(s)
  <2>1. WithMove(work, conn[s].row).rows = work.rows \cup {conn[s].row}
    BY <1>0 DEF WithMove, Tables
  <2>2. conn[s].row.kind # "grant"
    BY <1>0, <1>9 DEF Commit, ConnInv
  <2> QED
    BY <1>3, <1>9, <2>1, <2>2 DEF Commit
<1>10. CASE OrphanRow(s)
  <2> DEFINE row == NextRow(s, "orphan")
  <2>1. row.kind # "grant"
    <3>1. "orphan" \in Kinds
      BY DEF Kinds
    <3> QED
      BY <1>0, <3>1, NextRowTypes
  <2> HIDE DEF row
  <2>2. WithRow(work, row).rows = work.rows \cup {row}
    BY <1>0 DEF WithRow, Tables
  <2>3. \E c : Store(s, WithRow(work, row), c)
    BY <1>10 DEF OrphanRow, row
  <2> QED
    BY <1>3, <2>1, <2>2, <2>3
<1>11. CASE SeedLedger(s)
  <2> DEFINE row == NextRow(s, "grant")
  <2>1. row.player = conn[s].row.player
    <3>1. "grant" \in Kinds
      BY DEF Kinds
    <3> QED
      BY <1>0, <3>1, NextRowTypes
  <2> HIDE DEF row
  <2>2. WithRow(work, row).rows = work.rows \cup {row}
    BY <1>0 DEF WithRow, Tables
  <2>3. Store(s, WithRow(work, row), Idle(s)) \/ Refused(s, Idle(s))
    BY <1>11 DEF SeedLedger, row
  <2> QED
    BY <1>1, <1>3, <1>11, <2>1, <2>2, <2>3
<1>12. CASE PurgeRows(s)
  <2>1. Purged(work, conn[s].row.player).rows \subseteq work.rows
    BY <1>0 DEF Purged, Tables
  <2> QED
    BY <1>1, <1>2, <1>12, <2>1 DEF PurgeRows
<1>13. CASE SaveHand(s) \/ OtherWrite(s)
  BY <1>1, <1>2, <1>13 DEF SaveHand, OtherWrite
<1>14. CASE ConcurrentUpdate(s) \/ InsertFails(s) \/ CommitFails(s) \/ Crash(s)
  BY <1>1, <1>14 DEF ConcurrentUpdate, InsertFails, CommitFails, Crash
<1>15. CASE UpdateMissed(s) \/ InsertMissed(s)
  BY <1>1, <1>15 DEF UpdateMissed, InsertMissed
<1> QED
  BY <1>4, <1>5, <1>6, <1>7, <1>8, <1>9, <1>10, <1>11, <1>12, <1>13, <1>14, <1>15 DEF Step

(* SaveAccount alone hands out an id and starts to seed its ledger.        *)
LEMMA NewSeeds ==
  ASSUME IInv, NEW s \in Servers, Step(s), \A q \in Players : ~SaveAccount(s, q)
  PROVE  handed' = handed /\ conn'[s].step # "seeding"
<1>0. TypeOK /\ conn \in [Servers -> Connection] /\ conn[s].row \in Pending
  BY DEF IInv, TypeOK, Connection
<1>1. ASSUME conn'[s] \in {IdleConn, Idle(s)} PROVE conn'[s].step # "seeding"
  BY <1>0, <1>1, IdleTypes
<1>2. ASSUME NEW k \in Steps \ {"seeding"}, NEW r, conn'[s] = At(s, k, r)
      PROVE  conn'[s].step # "seeding"
  BY <1>0, <1>2 DEF At, Connection
<1>3. CASE \E p \in Players : DeleteAccount(s, p)
  <2>1. "purging" \in Steps \ {"seeding"}
    BY DEF Steps
  <2> QED
    BY <1>0, <1>2, <1>3, <2>1, OwnConn DEF DeleteAccount
<1>4. CASE \E p \in Players, d \in Deltas : Read(s, p, d)
  BY <1>0, <1>4 DEF Read, Reading
<1>5. CASE \E p \in Players, d \in Deltas : ReadFails(s, p, d)
  BY <1>0, <1>1, <1>5, OwnConn DEF ReadFails
<1>6. CASE UpdateRow(s)
  BY <1>0, <1>6 DEF UpdateRow, Connection
<1>7. CASE UpdateMissed(s) \/ InsertMissed(s) \/ OrphanRow(s)
  <2>1. {"missed", "committed"} \subseteq Steps \ {"seeding"}
    BY DEF Steps
  <2> QED
    BY <1>0, <1>2, <1>7, <2>1, OwnConn DEF UpdateMissed, InsertMissed, OrphanRow
<1>8. CASE InsertRow(s)
  <2>1. "inserted" \in Steps \ {"seeding"}
    BY DEF Steps
  <2> QED
    BY <1>0, <1>2, <1>8, <2>1 DEF InsertRow
<1>9. CASE Commit(s) \/ CommitFails(s)
  <2>1. conn'[s] = Closed(s) /\ handed' = handed
    BY <1>0, <1>9, OwnConn DEF Commit, CommitFails
  <2>2. Closed(s).step = "committed"
    BY <1>0 DEF Closed, At, Connection
  <2> QED
    BY <2>1, <2>2
<1>10. CASE Report(s)
  BY <1>0, <1>1, <1>10 DEF Report
<1>11. CASE ConcurrentUpdate(s) \/ InsertFails(s) \/ Crash(s)
  BY <1>0, <1>1, <1>11, OwnConn DEF ConcurrentUpdate, InsertFails, Crash
<1>12. CASE SeedLedger(s) \/ PurgeRows(s) \/ OtherWrite(s) \/ SaveHand(s)
  BY <1>0, <1>1, <1>12, OwnConn DEF SeedLedger, PurgeRows, OtherWrite, SaveHand
<1> QED
  BY <1>3, <1>4, <1>5, <1>6, <1>7, <1>8, <1>9, <1>10, <1>11, <1>12 DEF Step

LEMMA SeedStep ==
  ASSUME IInv, NEW s \in Servers, Step(s)
  PROVE  SeedOK'
<1> SUFFICES ASSUME NEW t \in Servers, conn'[t].step = "seeding",
                    handed'[conn'[t].row.player] = 1
             PROVE  /\ ~Granted(RowsOf(db', conn'[t].row.player))
                    /\ ~Granted(RowsOf(work', conn'[t].row.player))
                    /\ \A u \in Servers \ {t} :
                         conn'[u].step = "seeding" => conn'[u].row.player # conn'[t].row.player
  BY DEF SeedOK, SeedInv
<1> DEFINE p == conn'[t].row.player
<1>1. TypeOK /\ ConnOK /\ SeedOK /\ TablesOK(db, handed, erased) /\ TablesOK(work, handed, erased)
  BY DEF IInv, DataOK
<1>2. \A u \in Servers \ {s} : conn'[u].step = conn[u].step /\ conn'[u].row = conn[u].row
  BY <1>1, ConnOfOthers
<1>3. handed \in [Players -> 0 .. 2]
  BY <1>1 DEF TypeOK
<1>4. p \in Players
  BY ConnStep DEF ConnOK, ConnInv
<1> HIDE DEF p
<1>5. SUFFICES /\ ~Granted(RowsOf(db, p))
               /\ ~Granted(RowsOf(work, p))
               /\ ~(SeedLedger(s) /\ conn[s].row.player = p)
               /\ \A u \in Servers \ {t} : conn'[u].step = "seeding" => conn'[u].row.player # p
  <2>1. ASSUME NEW r \in db'.rows \cup work'.rows, r.kind = "grant", r.player = p
        PROVE  FALSE
    BY <1>5, <2>1, NewGrants DEF Granted, RowsOf
  <2> QED
    BY <1>5, <2>1 DEF Granted, RowsOf, p
<1>6. CASE \E q \in Players : SaveAccount(s, q)
  <2> DEFINE n == next[s]
  <2>1. PICK q \in Players : SaveAccount(s, q)
    BY <1>6
  <2>2. /\ conn[s].step = "idle" /\ n \in Players /\ handed' = HandOut(handed, n)
    BY <2>1 DEF SaveAccount
  <2>3. conn'[s].row.player = n
    <3> DEFINE seed == [id |-> 0, player |-> n, kind |-> "grant",
                        amount |-> OpeningChips, after |-> OpeningChips]
    <3>1. conn'[s] = At(s, "seeding", seed)
      BY <1>1, <2>1, OwnConn DEF SaveAccount
    <3>2. At(s, "seeding", seed).row = seed
      BY <1>1 DEF At, TypeOK, Connection
    <3> QED
      BY <3>1, <3>2
  <2>4. ~SeedLedger(s)
    BY <2>2 DEF SeedLedger
  <2>5. \A u \in Servers \ {s} : conn[u].step = "seeding" => handed[conn[u].row.player] > 0
    BY <1>1 DEF ConnOK, ConnInv
  <2>6. CASE t = s
    <3>1. p = n /\ handed[p] = 0
      BY <1>3, <1>4, <2>2, <2>3, <2>6 DEF p, HandOut
    <3>2. RowsOf(db, p) = {} /\ RowsOf(work, p) = {}
      BY <1>1, <1>4, <3>1 DEF TablesOK
    <3>3. \A u \in Servers \ {s} : conn'[u].step = "seeding" => conn'[u].row.player # p
      BY <1>2, <2>5, <3>1
    <3> QED
      BY <2>4, <2>6, <3>2, <3>3 DEF Granted
  <2>7. CASE t # s
    <3>1. p = conn[t].row.player /\ conn[t].step = "seeding"
      BY <1>2, <2>7 DEF p
    <3>2. handed[p] > 0 /\ handed'[p] = 1
      BY <2>5, <2>7, <3>1 DEF p
    <3>3. p # n /\ handed[p] = 1
      BY <1>3, <1>4, <2>2, <3>2 DEF HandOut
    <3> QED
      BY <1>1, <1>2, <2>3, <2>4, <2>7, <3>1, <3>3 DEF SeedOK, SeedInv
  <2> QED
    BY <2>6, <2>7
<1>7. CASE \A q \in Players : ~SaveAccount(s, q)
  <2>1. handed' = handed /\ conn'[s].step # "seeding"
    BY <1>7, NewSeeds
  <2>2. t # s /\ p = conn[t].row.player /\ conn[t].step = "seeding" /\ handed[p] = 1
    BY <1>2, <2>1 DEF p
  <2> QED
    BY <1>1, <1>2, <2>1, <2>2 DEF SeedOK, SeedInv, SeedLedger
<1> QED
  BY <1>6, <1>7

LEMMA NextIInv == IInv /\ [Next]_vars => IInv'
<1>1. ASSUME IInv, NEW s \in Servers, Step(s) PROVE IInv'
  <2>1. TypeOK'
    BY <1>1, DataStep, ConnStep, Histories DEF TypeOK
  <2> QED
    BY <1>1, <2>1, DataStep, ConnStep, SeedStep DEF IInv
<1>2. ASSUME IInv, UNCHANGED vars PROVE IInv'
  <2>1. TypeOK' /\ ConnOK' /\ DataOK' /\ SeedOK'
    BY <1>2 DEF IInv, vars, TypeOK, ConnOK, ConnInv, DataOK, SeedOK, SeedInv
  <2> QED
    BY <2>1 DEF IInv
<1> QED
  BY <1>1, <1>2 DEF Next

-----------------------------------------------------------------------------
(* The inductive invariant holds: both versions of the tables are right    *)
(* for the ids handed out, what an open transaction has done extends what  *)
(* is committed, and what each connection is about to write still fits.    *)
THEOREM LedgerIInv == Spec => []IInv
  BY InitIInv, NextIInv, PTL DEF Spec

(* Balances stay in 0 .. INT64_MAX although ApplyDelta tests them on a     *)
(* read made before its UPDATE (chip_ledger.cpp:45-62).                    *)
THEOREM LedgerTypeOK == Spec => []TypeOK
<1>1. IInv => TypeOK
  BY DEF IInv
<1> QED
  BY <1>1, LedgerIInv, PTL

LEMMA BookOfOpened ==
  ASSUME IInv, NEW p \in Players, Opened(p)
  PROVE  Book(Booked(db, p), db.account[p].chips) /\ Granted(First(Booked(db, p)))
         /\ Granted(Booked(db, p))
  BY DEF IInv, DataOK, TablesOK, Opened, Granted, First

(* balance_after runs on from row to row of an account and ends at its     *)
(* balance (chip_ledger.cpp:56-86), for any number of processes, accounts  *)
(* and amounts, whichever statements are refused.                          *)
THEOREM LedgerChained == Spec => []Chained
<1>1. IInv => Chained
  BY BookOfOpened DEF Chained, Book
<1> QED
  BY <1>1, LedgerIInv, PTL

(* Reconcile finds the balance of an account equal to the sum of its rows, *)
(* the orphan ones left out (chip_ledger.cpp:151-187).                     *)
THEOREM LedgerReconciled == Spec => []Reconciled
<1>1. ASSUME IInv, NEW p \in Players, Opened(p)
      PROVE  db.account[p].chips = LedgerBalance(Booked(db, p))
  <2>1. db.account[p].chips = LedgerBalance(Booked(db, p)) + 0
    BY <1>1, BookOfOpened DEF Book
  <2>2. LedgerBalance(Booked(db, p)) \in Int
    BY <1>1, BookOf, BalanceInt DEF IInv, TypeOK, DataOK
  <2> QED
    BY <2>1, <2>2
<1>2. IInv => Reconciled
  BY <1>1 DEF Reconciled
<1> QED
  BY <1>2, LedgerIInv, PTL

(* What one step commits.                                                  *)
LEMMA CommittedStep ==
  ASSUME IInv, NEW s \in Servers, Commit(s)
  PROVE  LET row == conn[s].row IN
         /\ db'.rows = work.rows \cup {row}
         /\ row.id > work.last
         /\ row.player \in Players
         /\ row.amount \in Deltas
         /\ row.after \in 0 .. MaxChips
         /\ work.account[row.player].status # "none"
         /\ work.account[row.player].chips = row.after - row.amount
         /\ db'.account = [work.account EXCEPT ![row.player].chips = row.after]
         /\ UNCHANGED <<handed, erased>>
<1>1. TypeOK /\ ConnOK /\ DataOK /\ conn[s].step = "inserted" /\ work.last \in Nat
  BY TypesOfTables DEF IInv, Commit, TypeOK
<1>2. db' = WithMove(work, conn[s].row) /\ UNCHANGED <<handed, erased>>
  BY DEF Commit, Publish
<1> QED
  BY <1>1, <1>2, CommitData

(* wallet_transactions only grows, but for the rows of players who asked   *)
(* to be deleted (account_repository.cpp:139-143).                         *)
THEOREM LedgerAppendOnly == Spec => AppendOnly
<1> DEFINE Appends == /\ \A r \in db'.rows \ db.rows : r.id > db.last
                      /\ \A r \in db.rows \ db'.rows : r.player \in erased'
<1>1. ASSUME IInv, NEW s \in Servers, Step(s) PROVE Appends
  <2>1. CASE db' = db
    BY <2>1
  <2>2. CASE Extends(db, db', handed', erased')
    BY <2>2 DEF Extends
  <2>3. CASE Commit(s)
    <3>1. /\ db'.rows = work.rows \cup {conn[s].row}
          /\ conn[s].row.id > work.last /\ erased' = erased
      BY <1>1, <2>3, CommittedStep
    <3>2. Extends(db, work, handed, erased)
      BY <1>1 DEF IInv, DataOK
    <3>3. db.last \in Nat /\ work.last \in Nat
      BY <1>1, TypesOfTables DEF IInv, TypeOK
    <3>4. conn[s].row.id \in Nat
      BY <1>1 DEF IInv, TypeOK, Connection, Pending
    <3> QED
      BY <3>1, <3>2, <3>3, <3>4 DEF Extends
  <2> QED
    BY <1>1, <2>1, <2>2, <2>3, DataStep
<1>2. IInv /\ [Next]_vars => [Appends]_vars
  BY <1>1 DEF Next
<1> QED
  BY <1>2, LedgerIInv, PTL DEF Spec, AppendOnly

(* The processes implement Wallet: whatever the interleaving and the       *)
(* faults, the balances move as by single moves of the callers' amounts.   *)
THEOREM LedgerSerializable == Spec => Serializable
<1>1. Init => W!Init
  BY DEF Init, W!Init, NoAccount, W!NoAccount
<1>2. ASSUME IInv, NEW s \in Servers, Step(s) PROVE W!Next
  <2>1. IInv' /\ db' \in Tables
    BY <1>2, NextIInv, DataStep DEF Next
  <2>2. /\ db'.account = [p \in Players |-> db'.account[p]]
        /\ handed' = [p \in Players |-> handed'[p]]
        /\ \A p \in Players : handed'[p] >= handed[p]
    BY <1>2, <2>1, Histories DEF Tables
  <2>3. CASE \A p \in Players : db'.account[p] \in W!Becomes(db.account[p], handed'[p] > 1)
    <3>1. 1 \in Players
      BY LedgerAssumption DEF Players
    <3> QED
      BY <2>2, <2>3, <3>1 DEF W!Next, W!Turn
  <2>4. CASE db' = db
    BY <2>3, <2>4 DEF W!Becomes
  <2>5. CASE Extends(db, db', handed', erased')
    BY <2>3, <2>5 DEF Extends
  <2>6. CASE Commit(s)
    <3> DEFINE m == conn[s].row.player
    <3> DEFINE amount == conn[s].row.amount
    <3>1. /\ m \in Players /\ amount \in Deltas
          /\ conn[s].row.after \in 0 .. MaxChips
          /\ work.account[m].status # "none"
          /\ work.account[m].chips = conn[s].row.after - amount
          /\ db'.account = [work.account EXCEPT ![m].chips = conn[s].row.after]
          /\ handed' = handed
      BY <1>2, <2>6, CommittedStep
    <3>2. work.account \in [Players -> Account]
      BY <1>2, TypesOfTables DEF IInv, TypeOK
    <3>3. \A p \in Players : work.account[p] \in W!Becomes(db.account[p], handed'[p] > 1)
      BY <1>2, <3>1 DEF IInv, DataOK, Extends
    <3>4. db'.account[m] = [work.account[m] EXCEPT !.chips = conn[s].row.after]
      BY <3>1, <3>2
    <3>5. work.account[m].chips + amount = conn[s].row.after
      BY <3>1, LedgerAssumption
    <3> HIDE DEF m, amount
    <3>6. db'.account[m] \in W!Moved(work.account[m], amount)
      BY <3>1, <3>2, <3>4, <3>5 DEF W!Moved
    <3>7. ASSUME NEW p \in Players PROVE W!Turn(p, IF p = m THEN Deltas ELSE {})
      BY <3>1, <3>2, <3>3, <3>6 DEF W!Turn
    <3> QED
      BY <2>2, <3>1, <3>7 DEF W!Next
  <2> QED
    BY <1>2, <2>4, <2>5, <2>6, DataStep
<1>3. ASSUME UNCHANGED vars PROVE UNCHANGED <<db.account, handed>>
  BY <1>3 DEF vars
<1>4. IInv /\ [Next]_vars => [W!Next]_<<db.account, handed>>
  BY <1>2, <1>3 DEF Next
<1> QED
  BY <1>1, <1>4, LedgerIInv, PTL DEF Spec, Serializable, W!Spec

=============================================================================
