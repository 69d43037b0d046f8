--------------------------- MODULE CashierProofs ----------------------------
(***************************************************************************)
(* Proofs about Cashier, for any players, tables, seats, stakes and        *)
(* faults: no step of any handler mints chips, and every step that loses   *)
(* some, but for what a hand ends without paying, is a crash, a credit the *)
(* ledger refuses, a kick or a folded player leaving his bet in the pot.   *)
(***************************************************************************)
EXTENDS Cashier, Sums, FunctionTheorems, TLAPS

(* Who has no seat owns nothing, and bets are on tables that play.         *)
SeatsOK ==
  \A t \in Tables, s \in Seats :
    /\ seat[t][s].id = Nobody => /\ seat[t][s].status = "empty"
                                 /\ seat[t][s].chips = 0
                                 /\ seat[t][s].bet = 0
    /\ t \notin live => seat[t][s].bet = 0

(* A handler that was not done with a buy-in has exactly one.              *)
BuyInOK ==
  /\ handler.op \in {"join", "match"} => Len(handler.due) = 1
  /\ handler.op = "idle" => handler.due = << >>

(* The inductive invariant of NoChipsMinted.                               *)
IInv == SeatsOK /\ BuyInOK /\ NoChipsMinted

-----------------------------------------------------------------------------
(* Sums of chips.                                                          *)
Places == Tables \X Seats

Own(m) == [x \in Places |-> m[x[1]][x[2]].chips + m[x[1]][x[2]].bet]

Amounts(due) == [i \in DOMAIN due |-> due[i].amount]

Total(due) == Sum(Amounts(due), DOMAIN due)

LEMMA PlacesFinite == IsFiniteSet(Places)
  BY CashierAssumption, FS_Product DEF Places

LEMMA TermsInt ==
  ASSUME NEW m \in [Tables -> [Seats -> Seat]]
  PROVE  \A x \in Places : Own(m)[x] \in Nat
  BY DEF Own, Places, Seat

LEMMA Sums3 ==
  /\ OnTables = Sum(Own(seat), Places)
  /\ Due = Total(handler.due)
  /\ Worth = Sum(wallet, DOMAIN wallet) + OnTables + Due
<1>1. OnTables = Sum(Own(seat), Places)
  <2>1. DOMAIN Own(seat) = Places
    BY DEF Own
  <2> QED
    BY <2>1 DEF OnTables, SumFunction, Sum, Own, Places
<1>2. Due = Total(handler.due)
  BY DEF Due, Total, SumFunction, Sum, Amounts
<1> QED
  BY <1>1, <1>2 DEF Worth, SumFunction, Sum

LEMMA Sums3Next ==
  /\ OnTables' = Sum(Own(seat'), Places)
  /\ Due' = Total(handler'.due)
  /\ Worth' = Sum(wallet', DOMAIN wallet') + OnTables' + Due'
<1>1. OnTables' = Sum(Own(seat'), Places)
  <2>1. DOMAIN Own(seat') = Places
    BY DEF Own
  <2> QED
    BY <2>1 DEF OnTables, SumFunction, Sum, Own, Places
<1>2. Due' = Total(handler'.due)
  BY DEF Due, Total, SumFunction, Sum, Amounts
<1> QED
  BY <1>1, <1>2 DEF Worth, SumFunction, Sum

LEMMA DomainFinite ==
  ASSUME NEW due \in Seq(Money)
  PROVE  /\ IsFiniteSet(DOMAIN due)
         /\ \A i \in DOMAIN due : Amounts(due)[i] \in Nat
<1>1. DOMAIN due = 1 .. Len(due) /\ Len(due) \in Nat
  OBVIOUS
<1>2. \A i \in DOMAIN due : due[i] \in Money
  OBVIOUS
<1> QED
  BY <1>1, <1>2, FS_Interval DEF Amounts, Money

LEMMA TotalNat ==
  ASSUME NEW due \in Seq(Money)
  PROVE  Total(due) \in Nat
BY DomainFinite, SumNat DEF Total

LEMMA TotalNone == Total(<< >>) = 0
<1>1. DOMAIN << >> = {}
  OBVIOUS
<1> QED
  BY <1>1, SumEmpty DEF Total

LEMMA TotalTail ==
  ASSUME NEW due \in Seq(Money), due # << >>
  PROVE  /\ Tail(due) \in Seq(Money) /\ due[1] \in Money
         /\ Total(due) = due[1].amount + Total(Tail(due))
<1> DEFINE f == Amounts(due)
<1> DEFINE g == Amounts(Tail(due))
<1> DEFINE D == DOMAIN due
<1> DEFINE E == DOMAIN Tail(due)
<1>1. /\ Tail(due) \in Seq(Money) /\ due[1] \in Money
      /\ D = 1 .. Len(due) /\ Len(due) \in Nat \ {0}
      /\ E = 1 .. Len(due) - 1
      /\ \A i \in E : Tail(due)[i] = due[i + 1]
  OBVIOUS
<1>2. /\ IsFiniteSet(D) /\ IsFiniteSet(E) /\ IsFiniteSet(D \ {1})
      /\ \A i \in D : f[i] \in Int
      /\ \A i \in E : g[i] \in Int
  <2>1. IsFiniteSet(D) /\ \A i \in D : f[i] \in Int
    BY DomainFinite
  <2>2. Tail(due) \in Seq(Money)
    BY <1>1
  <2>3. IsFiniteSet(E) /\ \A i \in E : g[i] \in Int
    <3>1. \A d \in Seq(Money) : IsFiniteSet(DOMAIN d) /\ \A i \in DOMAIN d : Amounts(d)[i] \in Nat
      BY DomainFinite
    <3>2. \A i \in E : g[i] \in Nat
      BY <2>2, <3>1, Zenon
    <3>3. IsFiniteSet(E)
      BY <2>2, <3>1, Zenon
    <3> HIDE DEF E, g
    <3> QED
      BY <3>2, <3>3
  <2>4. IsFiniteSet(D \ {1})
    BY <2>1, FS_Subset
  <2> QED
    BY <2>1, <2>3, <2>4
<1>3. 1 \in D /\ f[1] = due[1].amount
  BY <1>1 DEF Amounts
<1>4. \A i \in E : i + 1 \in D \ {1} /\ f[i + 1] = g[i]
  BY <1>1 DEF Amounts
<1>5. \A z \in D \ {1} : z - 1 \in E /\ (z - 1) + 1 = z
  BY <1>1
<1> DEFINE b == [i \in E |-> i + 1]
<1>6. b \in [E -> D \ {1}] /\ (\A i \in E : b[i] = i + 1)
  BY <1>4
<1>7. \A x, y \in E : b[x] = b[y] => x = y
  BY <1>1
<1>8. \A z \in D \ {1} : ~ (\A x \in E : b[x] # z)
  BY <1>5, <1>6
<1> HIDE DEF b, D, E, f, g
<1>9. Sum(f, D \ {1}) = Sum(g, E)
  BY <1>2, <1>4, <1>6, <1>7, <1>8, SumReindex
<1>10. Sum(f, D) = f[1] + Sum(f, D \ {1})
  BY <1>2, <1>3, SumRemove
<1> QED
  BY <1>1, <1>3, <1>9, <1>10 DEF Total, D, E, f, g

LEMMA CashTotal ==
  ASSUME NEW p \in Players, NEW t \in Tables, NEW n \in Nat
  PROVE  /\ Cash(p, t, n) \in Seq(Money)
         /\ Total(Cash(p, t, n)) = n
         /\ n # 0 => Len(Cash(p, t, n)) = 1
         /\ Cash(p, t, n) = << >> <=> n = 0
<1>1. CASE n = 0
  BY <1>1, TotalNone DEF Cash
<1>2. CASE n # 0
  <2> DEFINE m == [player |-> p, table |-> t, amount |-> n]
  <2>1. Cash(p, t, n) = << m >> /\ m \in Money /\ m.amount = n
    BY <1>2 DEF Cash, Money
  <2> HIDE DEF m
  <2>2. << m >> \in Seq(Money) /\ << m >> # << >> /\ << m >>[1] = m /\ Tail(<< m >>) = << >>
        /\ Len(<< m >>) = 1
    BY <2>1
  <2>3. Total(<< m >>) = n + 0
    BY <2>1, <2>2, TotalTail, TotalNone
  <2> QED
    BY <1>2, <2>1, <2>2, <2>3
<1> QED
  BY <1>1, <1>2

LEMMA CreditingOK ==
  ASSUME NEW due \in Seq(Money)
  PROVE  /\ Crediting(due) \in Handler
         /\ Crediting(due).due = due
         /\ Crediting(due).op \in {"idle", "credit"}
         /\ Crediting(due).op = "idle" => due = << >>
         /\ Crediting(due) = Idle <=> due = << >>
<1>1. CASE due = << >>
  <2>1. << >> \in Seq(Money)
    OBVIOUS
  <2> QED
    BY <1>1, <2>1 DEF Crediting, Idle, Handler
<1>2. CASE due # << >>
  BY <1>2 DEF Crediting, Idle, Handler
<1> QED
  BY <1>1, <1>2

(* Nth counts a finite set of seats off, from the lowest.                  *)
LEMMA NthCounts ==
  ASSUME NEW S \in SUBSET Seats
  PROVE  /\ IsFiniteSet(S) /\ Cardinality(S) \in Nat
         /\ \A i \in 1 .. Cardinality(S) : Nth(S, i) \in S
         /\ \A i, j \in 1 .. Cardinality(S) : Nth(S, i) = Nth(S, j) => i = j
         /\ \A s \in S : \E i \in 1 .. Cardinality(S) : Nth(S, i) = s
<1> DEFINE n == Cardinality(S)
<1> DEFINE Upto(s) == {u \in S : u <= s}
<1> DEFINE rank == [s \in S |-> Cardinality(Upto(s))]
<1>1. IsFiniteSet(S) /\ n \in Nat /\ S \subseteq Nat
  BY CashierAssumption, FS_Subset, FS_CardinalityType
<1>2. \A s \in S : IsFiniteSet(Upto(s)) /\ rank[s] \in 1 .. n
  <2> SUFFICES ASSUME NEW s \in S PROVE IsFiniteSet(Upto(s)) /\ rank[s] \in 1 .. n
    OBVIOUS
  <2>1. Upto(s) \in SUBSET S /\ s \in Upto(s)
    BY <1>1
  <2> HIDE DEF Upto
  <2>2. IsFiniteSet(Upto(s)) /\ Cardinality(Upto(s)) <= n /\ Cardinality(Upto(s)) \in Nat
    BY <1>1, <2>1, FS_Subset, FS_CardinalityType
  <2>3. Cardinality(Upto(s)) # 0
    BY <2>1, <2>2, FS_EmptySet
  <2> QED
    BY <2>2, <2>3, <1>1
<1>3. \A s, u \in S : s < u => rank[s] < rank[u]
  <2> SUFFICES ASSUME NEW s \in S, NEW u \in S, s < u PROVE rank[s] < rank[u]
    OBVIOUS
  <2>1. Upto(s) \in SUBSET Upto(u) /\ u \in Upto(u) /\ u \notin Upto(s)
    <3>1. \A x \in S : x \in Nat
      BY <1>1
    <3>2. \A x \in S : x <= s => x <= u
      BY <3>1
    <3>3. u <= u /\ ~(u <= s)
      BY <3>1
    <3> QED
      BY <3>2, <3>3
  <2>2. IsFiniteSet(Upto(u)) /\ rank[s] = Cardinality(Upto(s)) /\ rank[u] = Cardinality(Upto(u))
    BY <1>2
  <2>3. rank[s] \in Nat /\ rank[u] \in Nat
    BY <1>1, <1>2
  <2> HIDE DEF Upto, rank
  <2>4. rank[s] <= rank[u] /\ rank[s] # rank[u]
    BY <2>1, <2>2, FS_Subset
  <2> QED
    BY <2>3, <2>4
<1>4. \A s, u \in S : rank[s] = rank[u] => s = u
  <2> SUFFICES ASSUME NEW s \in S, NEW u \in S, s # u PROVE rank[s] # rank[u]
    OBVIOUS
  <2>1. s < u \/ u < s
    BY <1>1
  <2>2. rank[s] \in Nat /\ rank[u] \in Nat
    BY <1>1, <1>2
  <2> HIDE DEF rank
  <2> QED
    BY <1>3, <2>1, <2>2
<1>5. rank \in Injection(S, 1 .. n)
  <2>1. rank \in [S -> 1 .. n]
    BY <1>2
  <2> HIDE DEF rank
  <2> QED
    BY <1>4, <2>1, Fun_IsInj
<1>6. IsFiniteSet(1 .. n) /\ Cardinality(1 .. n) = n
  BY <1>1, FS_Interval
<1>7. \A i \in 1 .. n : \E s \in S : rank[s] = i
  <2> HIDE DEF rank
  <2>1. rank \in Surjection(S, 1 .. n)
    BY <1>5, <1>6, FS_Injection
  <2> QED
    BY <2>1, Fun_SurjectionProperties
<1>8. \A i \in 1 .. n : Nth(S, i) \in S /\ rank[Nth(S, i)] = i
  <2> SUFFICES ASSUME NEW i \in 1 .. n PROVE Nth(S, i) \in S /\ rank[Nth(S, i)] = i
    OBVIOUS
  <2>1. \E s \in S : Cardinality(Upto(s)) = i
    BY <1>7
  <2>2. Nth(S, i) \in S /\ Cardinality(Upto(Nth(S, i))) = i
    BY <2>1 DEF Nth
  <2> QED
    BY <2>2
<1> HIDE DEF rank
<1>9. \A s \in S : rank[s] \in 1 .. n /\ Nth(S, rank[s]) = s
  BY <1>2, <1>4, <1>8
<1> QED
  BY <1>1, <1>8, <1>9

-----------------------------------------------------------------------------
(* The books before and after a step.                                      *)
LEMMA Books ==
  ASSUME TypeOK
  PROVE  /\ Booked = Sum(wallet, Players) + Sum(Own(seat), Places) + Total(handler.due) + burnt
         /\ burnt \in Nat
         /\ Sum(wallet, Players) \in Nat
         /\ Sum(Own(seat), Places) \in Nat
         /\ Total(handler.due) \in Nat
<1>1. handler.due \in Seq(Money) /\ DOMAIN wallet = Players /\ \A p \in Players : wallet[p] \in Nat
  BY DEF TypeOK, Handler
<1>2. Sum(wallet, Players) \in Nat
  BY <1>1, CashierAssumption, SumNat
<1>3. Sum(Own(seat), Places) \in Nat
  <2>1. \A x \in Places : Own(seat)[x] \in Nat
    BY TermsInt DEF TypeOK
  <2> QED
    BY <2>1, PlacesFinite, SumNat
<1> QED
  BY <1>1, <1>2, <1>3, TotalNat, Sums3 DEF Booked, TypeOK

LEMMA BooksNext ==
  ASSUME TypeOK'
  PROVE  /\ Booked' = Sum(wallet', Players) + Sum(Own(seat'), Places) + Total(handler'.due) + burnt'
         /\ burnt' \in Nat
         /\ Sum(wallet', Players) \in Nat
         /\ Sum(Own(seat'), Places) \in Nat
         /\ Total(handler'.due) \in Nat
<1>1. handler'.due \in Seq(Money) /\ DOMAIN wallet' = Players /\ \A p \in Players : wallet'[p] \in Nat
  BY DEF TypeOK, Handler
<1>2. Sum(wallet', Players) \in Nat
  BY <1>1, CashierAssumption, SumNat
<1>3. Sum(Own(seat'), Places) \in Nat
  <2>1. \A x \in Places : Own(seat')[x] \in Nat
    BY TermsInt DEF TypeOK
  <2> QED
    BY <2>1, PlacesFinite, SumNat
<1> QED
  BY <1>1, <1>2, <1>3, TotalNat, Sums3Next DEF Booked, TypeOK

(* One wallet changes.                                                     *)
LEMMA WalletChanged ==
  ASSUME NEW f \in [Players -> Nat], NEW g \in [Players -> Nat], NEW p \in Players,
         \A x \in Players \ {p} : g[x] = f[x]
  PROVE  Sum(g, Players) = Sum(f, Players) - f[p] + g[p]
<1>1. \A x \in Players : f[x] \in Int /\ g[x] \in Int
  OBVIOUS
<1> QED
  BY <1>1, CashierAssumption, SumChanged

(* One seat changes.                                                       *)
SeatMaps == [Tables -> [Seats -> Seat]]

LEMMA SeatChanged ==
  ASSUME NEW m \in SeatMaps, NEW n \in SeatMaps, NEW t \in Tables, NEW s \in Seats,
         \A u \in Tables, v \in Seats : <<u, v>> # <<t, s>> => n[u][v] = m[u][v]
  PROVE  Sum(Own(n), Places)
            = Sum(Own(m), Places) - (m[t][s].chips + m[t][s].bet) + (n[t][s].chips + n[t][s].bet)
<1> DEFINE x == <<t, s>>
<1> DEFINE f == Own(m)
<1> DEFINE g == Own(n)
<1>1. x \in Places /\ x[1] = t /\ x[2] = s
  BY DEF Places
<1>2. f[x] = m[t][s].chips + m[t][s].bet /\ g[x] = n[t][s].chips + n[t][s].bet
  BY <1>1 DEF Own
<1>3. \A y \in Places : f[y] \in Nat
  BY TermsInt DEF SeatMaps
<1>4. \A y \in Places : g[y] \in Nat
  BY TermsInt DEF SeatMaps
<1>5. \A y \in Places \ {x} : g[y] = f[y]
  <2> SUFFICES ASSUME NEW y \in Places, y # x PROVE g[y] = f[y]
    OBVIOUS
  <2>1. y[1] \in Tables /\ y[2] \in Seats /\ <<y[1], y[2]>> # <<t, s>>
    BY DEF Places
  <2>2. n[y[1]][y[2]] = m[y[1]][y[2]]
    BY <2>1
  <2> QED
    BY <2>2 DEF Own
<1> HIDE DEF x, f, g
<1>6. Sum(g, Places) = Sum(f, Places) - f[x] + g[x]
  BY <1>1, <1>3, <1>4, <1>5, PlacesFinite, SumChanged
<1> QED
  BY <1>2, <1>6 DEF f, g

(* No stack and no bet changes.                                            *)
LEMMA ChipsUnchanged ==
  ASSUME NEW m \in SeatMaps, NEW n \in SeatMaps,
         \A t \in Tables, s \in Seats : n[t][s].chips = m[t][s].chips /\ n[t][s].bet = m[t][s].bet
  PROVE  Sum(Own(n), Places) = Sum(Own(m), Places)
<1>1. \A x \in Places : Own(m)[x] \in Int /\ Own(n)[x] = Own(m)[x]
  <2> SUFFICES ASSUME NEW x \in Places PROVE Own(m)[x] \in Int /\ Own(n)[x] = Own(m)[x]
    OBVIOUS
  <2>1. x[1] \in Tables /\ x[2] \in Seats
    BY DEF Places
  <2>2. Own(m)[x] \in Nat
    BY TermsInt DEF SeatMaps
  <2> QED
    BY <2>1, <2>2 DEF Own
<1> QED
  BY <1>1, PlacesFinite, SumEqual

LEMMA LowestEmptySeat ==
  ASSUME NEW S \in SUBSET Seats, S # {}
  PROVE  Min(S) \in S
<1>1. S \subseteq Nat
  BY CashierAssumption
<1>2. PICK x \in S : \A y \in S : ~(<<y, x>> \in OpToRel(<, Nat))
  BY <1>1, WFMin, NatLessThanWellFounded
<1>3. \A y \in S : ~(y < x)
  BY <1>1, <1>2 DEF OpToRel
<1>4. \A y \in S : x <= y
  BY <1>1, <1>3
<1> QED
  BY <1>4 DEF Min

-----------------------------------------------------------------------------
(* What every step keeps, and what it may lose.                            *)
Loss == Crash \/ CreditFails \/ Kicks \/ DeadMoneyLeaves

Kept ==
  /\ TypeOK' /\ SeatsOK' /\ BuyInOK'
  /\ Booked' <= Booked
  /\ Booked' < Booked => Loss

LEMMA InitIInv == Init => IInv
<1> SUFFICES ASSUME Init PROVE IInv
  OBVIOUS
<1>1. EmptySeat \in Seat /\ EmptySeat.chips = 0 /\ EmptySeat.bet = 0 /\ EmptySeat.status = "empty"
  BY DEF EmptySeat, Seat
<1>2. Idle \in Handler /\ Idle.op = "idle" /\ Idle.due = << >>
  BY DEF Idle, Handler
<1>3. TypeOK
  BY <1>1, <1>2, CashierAssumption DEF Init, TypeOK
<1>4. SeatsOK /\ BuyInOK
  BY <1>1, <1>2 DEF Init, SeatsOK, BuyInOK
<1>5. Sum(wallet, Players) = Purse * Cardinality(Players)
  <2>1. Purse \in Int /\ \A p \in Players : wallet[p] = Purse
    BY CashierAssumption DEF Init
  <2> QED
    BY <2>1, CashierAssumption, SumConst
<1>6. Sum(Own(seat), Places) = 0
  <2>1. \A x \in Places : Own(seat)[x] = 0
    BY <1>1 DEF Own, Places, Init
  <2> QED
    BY <2>1, PlacesFinite, SumZero
<1>7. Total(handler.due) = 0
  BY <1>2, TotalNone DEF Init
<1>8. Booked = Purse * Cardinality(Players) /\ Booked \in Nat
  BY <1>3, <1>5, <1>6, <1>7, Books DEF Init
<1> QED
  BY <1>3, <1>4, <1>8 DEF IInv, NoChipsMinted

-----------------------------------------------------------------------------
(* Steps that move no chips.                                               *)
LEMMA NoChipsMoved ==
  ASSUME IInv, TypeOK', SeatsOK', BuyInOK',
         wallet' = wallet, handler'.due = handler.due, burnt' = burnt,
         \A t \in Tables, s \in Seats : /\ seat'[t][s].chips = seat[t][s].chips
                                       /\ seat'[t][s].bet = seat[t][s].bet
  PROVE  Kept
<1>1. seat \in SeatMaps /\ seat' \in SeatMaps
  BY DEF IInv, NoChipsMinted, TypeOK, SeatMaps
<1>2. Sum(Own(seat'), Places) = Sum(Own(seat), Places)
  BY <1>1, ChipsUnchanged
<1>3. Booked' = Booked /\ Booked \in Nat
  BY <1>2, Books, BooksNext DEF IInv, NoChipsMinted
<1> QED
  BY <1>3 DEF Kept

LEMMA QuietSteps ==
  ASSUME IInv, UNCHANGED <<wallet, seat, live, pending, handler, burnt>>,
         away' \subseteq Tables \X Players, at' \in [Players -> Tables \cup {"offline"}],
         tracked' \subseteq Tables \X Players
  PROVE  Kept
<1>1. TypeOK' /\ SeatsOK' /\ BuyInOK'
  BY DEF IInv, NoChipsMinted, TypeOK, SeatsOK, BuyInOK
<1> QED
  BY <1>1, NoChipsMoved

LEMMA ConnectKeeps ==
  ASSUME IInv, NEW p \in Players, NEW t \in Tables, Connect(p, t)
  PROVE  Kept
BY QuietSteps DEF Connect, IInv, NoChipsMinted, TypeOK

(* A buy-in is debited, and due at the table.                              *)
LEMMA BuyInKeeps ==
  ASSUME IInv, NEW p \in Players, NEW t \in Tables, NEW n \in BuyIns,
         NEW op \in {"join", "match"}, BuyIn(p, t, n, op)
  PROVE  Kept
<1>0. TypeOK /\ SeatsOK
  BY DEF IInv, NoChipsMinted
<1>1. n \in Nat /\ n # 0 /\ n <= wallet[p] /\ wallet[p] \in Nat
  BY <1>0, CashierAssumption DEF BuyIn, TypeOK
<1>2. /\ wallet' \in [Players -> Nat] /\ wallet'[p] = wallet[p] - n
      /\ \A x \in Players \ {p} : wallet'[x] = wallet[x]
  BY <1>0, <1>1 DEF BuyIn, TypeOK
<1>3. /\ Cash(p, t, n) \in Seq(Money) /\ Total(Cash(p, t, n)) = n
      /\ Len(Cash(p, t, n)) = 1 /\ Cash(p, t, n) # << >>
  BY <1>1, CashTotal
<1>4. handler'.op = op /\ handler'.due = Cash(p, t, n)
  BY DEF BuyIn
<1>5. TypeOK'
  <2>1. handler' \in Handler /\ handler' # Idle
    BY <1>3, <1>4 DEF BuyIn, Handler, Idle
  <2>2. pending' \subseteq Money
    BY <1>0, <1>1 DEF BuyIn, TypeOK, Money
  <2> QED
    BY <1>0, <1>2, <1>3, <1>4, <2>1, <2>2 DEF BuyIn, TypeOK
<1>6. SeatsOK' /\ BuyInOK'
  BY <1>0, <1>3, <1>4 DEF BuyIn, SeatsOK, BuyInOK
<1>7. Total(handler.due) = 0 /\ handler = Idle
  BY TotalNone DEF BuyIn, Ready, Idle
<1>8. Sum(wallet', Players) = Sum(wallet, Players) - wallet[p] + wallet'[p]
  BY <1>0, <1>2, WalletChanged DEF TypeOK
<1>9. seat' = seat /\ burnt' = burnt
  BY DEF BuyIn
<1>10. Booked' = Booked /\ Booked \in Nat
  <2>1. Total(handler'.due) = n /\ Sum(wallet', Players) = Sum(wallet, Players) - n
    BY <1>1, <1>2, <1>3, <1>4, <1>8, <1>0, Books
  <2>2. Sum(Own(seat'), Places) = Sum(Own(seat), Places)
    BY <1>9
  <2> QED
    BY <1>0, <1>1, <1>5, <1>7, <1>9, <2>1, <2>2, Books, BooksNext
<1> QED
  BY <1>5, <1>6, <1>10 DEF Kept

(* The only buy-in a handler has.                                          *)
LEMMA OneBuyIn ==
  ASSUME IInv, handler.op \in {"join", "match"}
  PROVE  /\ Head(handler.due) \in Money /\ Total(handler.due) = Head(handler.due).amount
         /\ handler.due \in Seq(Money) /\ handler.due # << >>
<1>1. handler.due \in Seq(Money) /\ Len(handler.due) = 1
  BY DEF IInv, NoChipsMinted, TypeOK, Handler, BuyInOK
<1> DEFINE d == handler.due
<1> HIDE DEF d
<1>2. d # << >> /\ Tail(d) = << >> /\ Head(d) = d[1]
  <2>1. d \in Seq(Money) /\ Len(d) = 1
    BY <1>1 DEF d
  <2>2. d # << >> /\ Head(d) = d[1]
    BY <2>1
  <2>3. Tail(d) \in Seq(Money) /\ Len(Tail(d)) = 0
    BY <2>1, <2>2
  <2>4. \A e \in Seq(Money) : Len(e) = 0 => e = << >>
    OBVIOUS
  <2> QED
    BY <2>2, <2>3, <2>4
<1> USE DEF d
<1>3. /\ handler.due[1] \in Money
      /\ Total(handler.due) = handler.due[1].amount + Total(<< >>)
  BY <1>1, <1>2, TotalTail
<1> QED
  BY <1>1, <1>2, <1>3, TotalNone DEF Money

(* The player sits down with what was due.                                 *)
LEMMA JoinedKeeps ==
  ASSUME IInv, Joined
  PROVE  Kept
<1> DEFINE m == Head(handler.due)
<1> DEFINE t == m.table
<1> DEFINE s == Min(SeatsOf(t, Nobody))
<1> DEFINE e == [seat[t][s] EXCEPT !.id = m.player, !.status = "sitting", !.chips = m.amount]
<1>0. TypeOK /\ SeatsOK
  BY DEF IInv, NoChipsMinted
<1>1. m \in Money /\ Total(handler.due) = m.amount
  BY OneBuyIn DEF Joined
<1>2. t \in Tables /\ m.player \in Players /\ m.amount \in Nat
  BY <1>1 DEF Money
<1>3. s \in SeatsOf(t, Nobody)
  <2>1. SeatsOf(t, Nobody) \in SUBSET Seats /\ SeatsOf(t, Nobody) # {}
    BY DEF Joined, SitDown, SeatsOf
  <2> QED
    BY <2>1, LowestEmptySeat
<1>4. s \in Seats /\ seat[t][s].id = Nobody /\ seat[t][s].chips = 0 /\ seat[t][s].bet = 0
  BY <1>0, <1>2, <1>3 DEF SeatsOf, SeatsOK
<1>5. seat' = [seat EXCEPT ![t][s] = e]
  BY DEF Joined, SitDown
<1> HIDE DEF m, s
<1>6. seat[t][s] \in Seat
  BY <1>0, <1>2, <1>4 DEF TypeOK
<1>7. e \in Seat /\ e.chips = m.amount /\ e.bet = 0 /\ e.id # Nobody
  BY <1>2, <1>4, <1>6, CashierAssumption DEF Seat
<1> HIDE DEF e
<1>8. /\ seat \in SeatMaps /\ seat' \in SeatMaps /\ seat'[t][s] = e
      /\ \A u \in Tables, v \in Seats : <<u, v>> # <<t, s>> => seat'[u][v] = seat[u][v]
  BY <1>0, <1>2, <1>4, <1>5, <1>7 DEF TypeOK, SeatMaps
<1>9. Sum(Own(seat'), Places) = Sum(Own(seat), Places) - (0 + 0) + (m.amount + 0)
  BY <1>2, <1>4, <1>7, <1>8, SeatChanged
<1>10. handler' = Idle /\ wallet' = wallet /\ live' = live /\ burnt' = burnt
  BY DEF Joined
<1>11. TypeOK'
  <2>1. Idle \in Handler /\ Idle.due = << >>
    BY DEF Idle, Handler
  <2>2. pending' \subseteq Money /\ tracked' \subseteq Tables \X Players
    BY <1>0, <1>2 DEF Joined, TypeOK, m
  <2>3. at' \in [Players -> Tables \cup {"offline"}]
    BY <1>0, <1>2 DEF Joined, TypeOK, m
  <2>4. away' = away
    BY DEF Joined
  <2> QED
    BY <1>0, <1>8, <1>10, <2>1, <2>2, <2>3, <2>4 DEF TypeOK, SeatMaps
<1>12. SeatsOK'
  BY <1>0, <1>7, <1>8, <1>10 DEF SeatsOK
<1>13. BuyInOK' /\ Total(handler'.due) = 0
  BY <1>10, TotalNone DEF BuyInOK, Idle
<1>14. Booked' = Booked /\ Booked \in Nat
  BY <1>0, <1>1, <1>2, <1>9, <1>10, <1>11, <1>13, Books, BooksNext DEF m
<1> QED
  BY <1>11, <1>12, <1>13, <1>14 DEF Kept

(* The refund of a buy-in, and the next cash-out.                          *)
LEMMA RefundKeeps ==
  ASSUME IInv, NotJoined
  PROVE  Kept
<1>0. TypeOK /\ SeatsOK /\ BuyInOK
  BY DEF IInv, NoChipsMinted
<1>1. handler.due \in Seq(Money)
  BY <1>0 DEF TypeOK, Handler
<1>2. handler' = Crediting(handler.due)
  BY DEF NotJoined
<1>3. /\ handler' \in Handler /\ handler'.due = handler.due
      /\ handler'.op \in {"idle", "credit"}
      /\ handler' = Idle <=> handler'.due = << >>
      /\ handler'.op = "idle" => handler'.due = << >>
  BY <1>1, <1>2, CreditingOK
<1>4. UNCHANGED <<wallet, seat, live, away, at, tracked, burnt>> /\ pending' \subseteq pending
  BY DEF NotJoined
<1>5. TypeOK' /\ SeatsOK' /\ BuyInOK'
  BY <1>0, <1>3, <1>4 DEF TypeOK, SeatsOK, BuyInOK
<1> QED
  BY <1>3, <1>4, <1>5, NoChipsMoved

LEMMA CreditKeeps ==
  ASSUME IInv, Credit
  PROVE  Kept
<1> DEFINE m == Head(handler.due)
<1>0. TypeOK /\ SeatsOK /\ BuyInOK
  BY DEF IInv, NoChipsMinted
<1>1. handler.due \in Seq(Money) /\ handler.due # << >>
  BY <1>0 DEF Credit, TypeOK, Handler, Idle
<1>2. /\ Tail(handler.due) \in Seq(Money) /\ m \in Money
      /\ Total(handler.due) = m.amount + Total(Tail(handler.due))
  BY <1>1, TotalTail
<1> DEFINE p == m.player
<1>3. p \in Players /\ m.amount \in Nat
  BY <1>2 DEF Money
<1>4. wallet' = [wallet EXCEPT ![p] = @ + m.amount] /\ handler' = Crediting(Tail(handler.due))
  BY DEF Credit
<1> HIDE DEF m
<1>5. /\ wallet' \in [Players -> Nat] /\ wallet'[p] = wallet[p] + m.amount
      /\ wallet \in [Players -> Nat] /\ wallet[p] \in Nat
      /\ \A x \in Players \ {p} : wallet'[x] = wallet[x]
  BY <1>0, <1>3, <1>4 DEF TypeOK
<1>6. /\ handler' \in Handler /\ handler'.due = Tail(handler.due)
      /\ handler'.op \in {"idle", "credit"}
      /\ handler' = Idle <=> handler'.due = << >>
      /\ handler'.op = "idle" => handler'.due = << >>
  BY <1>2, <1>4, CreditingOK
<1>7. UNCHANGED <<seat, live, away, at, tracked, pending, burnt>>
  BY DEF Credit
<1>8. TypeOK' /\ SeatsOK' /\ BuyInOK'
  BY <1>0, <1>5, <1>6, <1>7 DEF TypeOK, SeatsOK, BuyInOK
<1>9. Sum(wallet', Players) = Sum(wallet, Players) - wallet[p] + wallet'[p]
  BY <1>3, <1>5, WalletChanged
<1>10. Sum(Own(seat'), Places) = Sum(Own(seat), Places)
  BY <1>7
<1>11. Booked' = Booked /\ Booked \in Nat
  <2>1. Sum(wallet', Players) = Sum(wallet, Players) + m.amount
    BY <1>0, <1>3, <1>5, <1>9, Books
  <2>2. Total(handler.due) = m.amount + Total(handler'.due)
    BY <1>2, <1>6
  <2> QED
    BY <1>0, <1>3, <1>7, <1>8, <1>10, <2>1, <2>2, Books, BooksNext
<1> QED
  BY <1>8, <1>11 DEF Kept

LEMMA CreditFailsKeeps ==
  ASSUME IInv, CreditFails
  PROVE  Kept
<1> DEFINE m == Head(handler.due)
<1>0. TypeOK /\ SeatsOK /\ BuyInOK
  BY DEF IInv, NoChipsMinted
<1>1. handler.due \in Seq(Money) /\ handler.due # << >>
  BY <1>0 DEF CreditFails, TypeOK, Handler, Idle
<1>2. /\ Tail(handler.due) \in Seq(Money) /\ m \in Money
      /\ Total(handler.due) = m.amount + Total(Tail(handler.due))
  BY <1>1, TotalTail
<1>3. m.amount \in Nat
  BY <1>2 DEF Money
<1>4. handler' = Crediting(Tail(handler.due))
  BY DEF CreditFails
<1> HIDE DEF m
<1>6. /\ handler' \in Handler /\ handler'.due = Tail(handler.due)
      /\ handler'.op \in {"idle", "credit"}
      /\ handler' = Idle <=> handler'.due = << >>
      /\ handler'.op = "idle" => handler'.due = << >>
  BY <1>2, <1>4, CreditingOK
<1>7. UNCHANGED <<wallet, seat, live, away, at, tracked, pending, burnt>>
  BY DEF CreditFails
<1>8. TypeOK' /\ SeatsOK' /\ BuyInOK'
  BY <1>0, <1>6, <1>7 DEF TypeOK, SeatsOK, BuyInOK
<1>10. /\ Sum(Own(seat'), Places) = Sum(Own(seat), Places)
       /\ Sum(wallet', Players) = Sum(wallet, Players)
  BY <1>7
<1>11. Booked' <= Booked
  <2>1. Total(handler.due) = m.amount + Total(handler'.due)
    BY <1>2, <1>6
  <2> QED
    BY <1>0, <1>3, <1>7, <1>8, <1>10, <2>1, Books, BooksNext
<1> QED
  BY <1>8, <1>11 DEF Kept, Loss

-----------------------------------------------------------------------------
(* Steps of a hand.                                                        *)
LEMMA Marked ==
  ASSUME NEW r \in Seat, NEW e, NEW st \in {"empty", "sitting", "playing", "folded"},
         NEW l \in BOOLEAN,
         \/ e = r
         \/ e = [r EXCEPT !.status = st]
         \/ e = [r EXCEPT !.leaving = l, !.status = st]
         \/ e = [r EXCEPT !.status = st, !.leaving = l]
  PROVE  e \in Seat /\ e.id = r.id /\ e.chips = r.chips /\ e.bet = r.bet
BY DEF Seat

(* A step that changes nothing at the seats but the status and `leaving`.  *)
LEMMA OnlyMarks ==
  ASSUME IInv, seat' \in SeatMaps,
         \A t \in Tables, s \in Seats :
           /\ seat'[t][s].id = seat[t][s].id
           /\ seat'[t][s].chips = seat[t][s].chips /\ seat'[t][s].bet = seat[t][s].bet
           /\ seat[t][s].id = Nobody => seat'[t][s].status = seat[t][s].status,
         UNCHANGED <<wallet, at, pending, handler, burnt>>,
         live \subseteq live', live' \subseteq Tables,
         away' \subseteq Tables \X Players, tracked' \subseteq Tables \X Players
  PROVE  Kept
<1>0. TypeOK /\ SeatsOK /\ BuyInOK
  BY DEF IInv, NoChipsMinted
<1>1. TypeOK' /\ BuyInOK'
  BY <1>0 DEF TypeOK, BuyInOK, SeatMaps
<1>2. SeatsOK'
  BY <1>0 DEF SeatsOK
<1> QED
  BY <1>1, <1>2, NoChipsMoved

LEMMA StartHandKeeps ==
  ASSUME IInv, NEW t \in Tables, StartHand(t)
  PROVE  Kept
<1> DEFINE dealt == {s \in Seats : seat[t][s].status = "sitting" /\ seat[t][s].chips > 0}
<1> DEFINE row == [s \in Seats |->
                IF s \in dealt THEN [seat[t][s] EXCEPT !.status = "playing"] ELSE seat[t][s]]
<1>0. TypeOK /\ SeatsOK /\ BuyInOK
  BY DEF IInv, NoChipsMinted
<1>1. seat' = [seat EXCEPT ![t] = row]
  BY DEF StartHand
<1>2. \A s \in Seats : seat[t][s] \in Seat
  BY <1>0 DEF TypeOK
<1>3. \A s \in Seats : /\ row[s] \in Seat /\ row[s].id = seat[t][s].id
                       /\ row[s].chips = seat[t][s].chips /\ row[s].bet = seat[t][s].bet
  BY <1>2, Marked
<1>4. \A s \in Seats : seat[t][s].id = Nobody => row[s] = seat[t][s]
  BY <1>0 DEF SeatsOK
<1>5. row \in [Seats -> Seat]
  BY <1>3
<1> HIDE DEF row
<1>6. seat' \in SeatMaps /\ \A u \in Tables : seat'[u] = IF u = t THEN row ELSE seat[u]
  BY <1>0, <1>1, <1>5 DEF TypeOK, SeatMaps
<1>7. UNCHANGED <<wallet, away, at, tracked, pending, handler, burnt>> /\ live' = live \cup {t}
  BY DEF StartHand
<1> QED
  BY <1>0, <1>3, <1>4, <1>6, <1>7, OnlyMarks DEF TypeOK

LEMMA BetKeeps ==
  ASSUME IInv, NEW t \in Tables, NEW s \in Seats, Bet(t, s)
  PROVE  Kept
<1> DEFINE e == [seat[t][s] EXCEPT !.chips = @ - 1, !.bet = @ + 1]
<1>0. TypeOK /\ SeatsOK /\ BuyInOK
  BY DEF IInv, NoChipsMinted
<1>1. /\ seat' = [seat EXCEPT ![t][s] = e] /\ seat[t][s].chips > 0 /\ t \in live
      /\ seat[t][s].status = "playing"
  <2>1. seat[t][s].chips > 0 /\ t \in live /\ seat[t][s].status = "playing"
    BY DEF Bet
  <2>2. seat' = [seat EXCEPT ![t][s].chips = @ - 1, ![t][s].bet = @ + 1]
    BY DEF Bet
  <2>3. seat' = [seat EXCEPT ![t][s] = e]
    BY <2>2, <1>0 DEF TypeOK, Seat
  <2> QED
    BY <2>1, <2>3
<1>2. seat[t][s] \in Seat
  BY <1>0 DEF TypeOK
<1> DEFINE r == seat[t][s]
<1>3. /\ e \in Seat /\ e.id = seat[t][s].id /\ e.status = seat[t][s].status
      /\ e.chips + e.bet = seat[t][s].chips + seat[t][s].bet
      /\ seat[t][s].chips \in Nat /\ seat[t][s].bet \in Nat
  <2> HIDE DEF r
  <2>1. r \in Seat /\ r.chips > 0
    BY <1>1, <1>2 DEF r
  <2>2. e = [r EXCEPT !.chips = @ - 1, !.bet = @ + 1]
    BY DEF r
  <2> HIDE DEF e
  <2>3. r.chips \in Nat /\ r.bet \in Nat /\ r.chips - 1 \in Nat /\ r.bet + 1 \in Nat
    BY <2>1 DEF Seat
  <2>4. /\ e \in Seat /\ e.id = r.id /\ e.status = r.status
        /\ e.chips = r.chips - 1 /\ e.bet = r.bet + 1
    BY <2>1, <2>2, <2>3 DEF Seat
  <2> QED
    BY <2>3, <2>4 DEF r
<1> HIDE DEF e
<1>4. /\ seat \in SeatMaps /\ seat' \in SeatMaps /\ seat'[t][s] = e
      /\ \A u \in Tables, v \in Seats : <<u, v>> # <<t, s>> => seat'[u][v] = seat[u][v]
  BY <1>0, <1>1, <1>3 DEF TypeOK, SeatMaps
<1>5. Sum(Own(seat'), Places)
        = Sum(Own(seat), Places) - (seat[t][s].chips + seat[t][s].bet) + (e.chips + e.bet)
  BY <1>4, SeatChanged
<1>6. UNCHANGED <<wallet, live, away, at, tracked, pending, handler, burnt>>
  BY DEF Bet
<1>7. TypeOK' /\ BuyInOK'
  BY <1>0, <1>4, <1>6 DEF TypeOK, BuyInOK, SeatMaps
<1>8. seat[t][s].id # Nobody
  BY <1>0, <1>1 DEF SeatsOK
<1>9. SeatsOK'
  BY <1>0, <1>1, <1>3, <1>4, <1>6, <1>8 DEF SeatsOK
<1>10. Sum(wallet', Players) = Sum(wallet, Players) /\ Total(handler'.due) = Total(handler.due)
  BY <1>6
<1>11. Booked' = Booked /\ Booked \in Nat
  BY <1>0, <1>3, <1>5, <1>6, <1>7, <1>10, Books, BooksNext
<1> QED
  BY <1>7, <1>9, <1>11 DEF Kept

(* Folding, for oneself or when the grace period is over.                  *)
LEMMA FoldKeeps ==
  ASSUME IInv, NEW t \in Tables, NEW s \in Seats, Fold(t, s)
  PROVE  Kept
<1> DEFINE e == [seat[t][s] EXCEPT !.status = "folded"]
<1>0. TypeOK /\ SeatsOK /\ BuyInOK
  BY DEF IInv, NoChipsMinted
<1>1. seat' = [seat EXCEPT ![t][s] = e] /\ seat[t][s].status = "playing"
  BY <1>0 DEF Fold, TypeOK
<1>2. seat[t][s] \in Seat /\ seat[t][s].id # Nobody
  BY <1>0, <1>1 DEF TypeOK, SeatsOK
<1>3. e \in Seat /\ e.id = seat[t][s].id /\ e.chips = seat[t][s].chips /\ e.bet = seat[t][s].bet
  BY <1>2, Marked
<1> HIDE DEF e
<1>4. /\ seat' \in SeatMaps /\ seat'[t][s] = e
      /\ \A u \in Tables, v \in Seats : <<u, v>> # <<t, s>> => seat'[u][v] = seat[u][v]
  BY <1>0, <1>1, <1>3 DEF TypeOK, SeatMaps
<1>5. UNCHANGED <<wallet, live, away, at, tracked, pending, handler, burnt>>
  BY DEF Fold
<1>6. \A u \in Tables, v \in Seats :
           /\ seat'[u][v].id = seat[u][v].id
           /\ seat'[u][v].chips = seat[u][v].chips /\ seat'[u][v].bet = seat[u][v].bet
           /\ seat[u][v].id = Nobody => seat'[u][v].status = seat[u][v].status
  BY <1>2, <1>3, <1>4
<1> QED
  BY <1>0, <1>4, <1>5, <1>6, OnlyMarks DEF TypeOK

LEMMA GraceOverKeeps ==
  ASSUME IInv, NEW t \in Tables, NEW p \in Players, GraceOver(t, p)
  PROVE  Kept
<1> DEFINE row == [s \in Seats |->
                IF seat[t][s].id = p /\ seat[t][s].status = "playing" /\ seat[t][s].chips > 0
                THEN [seat[t][s] EXCEPT !.status = "folded", !.leaving = TRUE]
                ELSE seat[t][s]]
<1>0. TypeOK /\ SeatsOK /\ BuyInOK
  BY DEF IInv, NoChipsMinted
<1>1. seat' = [seat EXCEPT ![t] = row]
  BY DEF GraceOver
<1>2. \A s \in Seats : seat[t][s] \in Seat
  BY <1>0 DEF TypeOK
<1>3. \A s \in Seats : /\ row[s] \in Seat /\ row[s].id = seat[t][s].id
                       /\ row[s].chips = seat[t][s].chips /\ row[s].bet = seat[t][s].bet
  BY <1>2, Marked
<1>4. \A s \in Seats : seat[t][s].id = Nobody => row[s] = seat[t][s]
  BY <1>0 DEF SeatsOK
<1>5. row \in [Seats -> Seat]
  BY <1>3
<1> HIDE DEF row
<1>6. seat' \in SeatMaps /\ \A u \in Tables : seat'[u] = IF u = t THEN row ELSE seat[u]
  BY <1>0, <1>1, <1>5 DEF TypeOK, SeatMaps
<1>7. UNCHANGED <<wallet, live, at, tracked, pending, handler, burnt>> /\ away' \subseteq away
  BY DEF GraceOver
<1> QED
  BY <1>0, <1>3, <1>4, <1>6, <1>7, OnlyMarks DEF TypeOK

-----------------------------------------------------------------------------
(* A player leaves his seat with his stack, but not with his bet.          *)
LEMMA SeatVacated ==
  ASSUME IInv, NEW t \in Tables, NEW s \in Seats, NEW p \in Players,
         handler = Idle, t \in live => seat[t][s].status # "playing",
         seat' \in SeatMaps,
         seat'[t][s].id = Nobody, seat'[t][s].status = "empty",
         seat'[t][s].chips = 0, seat'[t][s].bet = 0,
         \A u \in Tables, v \in Seats : <<u, v>> # <<t, s>> => seat'[u][v] = seat[u][v],
         handler' = Crediting(Cash(p, t, seat[t][s].chips)),
         UNCHANGED <<wallet, live, pending, burnt>>,
         away' \subseteq Tables \X Players, at' \in [Players -> Tables \cup {"offline"}],
         tracked' \subseteq Tables \X Players
  PROVE  Kept
<1> DEFINE n == seat[t][s].chips
<1> DEFINE k == seat[t][s].bet
<1>0. TypeOK /\ SeatsOK /\ BuyInOK /\ seat \in SeatMaps
  BY DEF IInv, NoChipsMinted, TypeOK, SeatMaps
<1>1. n \in Nat /\ k \in Nat
  BY <1>0 DEF SeatMaps, Seat
<1>2. Cash(p, t, n) \in Seq(Money) /\ Total(Cash(p, t, n)) = n
  BY <1>1, CashTotal
<1>3. /\ handler' \in Handler /\ handler'.due = Cash(p, t, n)
      /\ handler'.op \in {"idle", "credit"}
      /\ handler' = Idle <=> handler'.due = << >>
      /\ handler'.op = "idle" => handler'.due = << >>
  BY <1>2, CreditingOK
<1>4. TypeOK'
  BY <1>0, <1>3 DEF TypeOK, SeatMaps
<1>5. SeatsOK' /\ BuyInOK'
  BY <1>0, <1>3 DEF SeatsOK, BuyInOK
<1>6. Sum(Own(seat'), Places) = Sum(Own(seat), Places) - (n + k) + (0 + 0)
  BY <1>0, SeatChanged
<1>7. /\ Total(handler'.due) = n /\ Total(handler.due) = 0
      /\ Sum(wallet', Players) = Sum(wallet, Players)
  BY <1>2, <1>3, TotalNone DEF Idle
<1>8. Booked' = Booked - k /\ Booked \in Nat
  BY <1>0, <1>1, <1>4, <1>6, <1>7, Books, BooksNext
<1>9. ASSUME k > 0 PROVE DeadMoneyLeaves
  <2>1. t \in live \cap live'
    BY <1>0, <1>9 DEF SeatsOK
  <2>2. InHand(t)' = InHand(t)
    <3>1. \A v \in Seats : seat'[t][v].status = "playing" <=> seat[t][v].status = "playing"
      BY <2>1
    <3> QED
      BY <3>1 DEF InHand
  <2>3. Booked' + k = Booked
    BY <1>1, <1>8
  <2> QED
    BY <1>9, <2>1, <2>2, <2>3 DEF DeadMoneyLeaves
<1>10. Booked' <= Booked /\ (Booked' < Booked => k > 0)
  BY <1>1, <1>8
<1> QED
  BY <1>4, <1>5, <1>9, <1>10 DEF Kept, Loss

LEMMA EmptySeats ==
  /\ EmptySeat \in Seat /\ EmptySeat.id = Nobody /\ EmptySeat.status = "empty"
  /\ EmptySeat.chips = 0 /\ EmptySeat.bet = 0
  /\ \A r \in Seat : /\ Vacated(r) \in Seat /\ Vacated(r).id = Nobody
                     /\ Vacated(r).status = "empty"
                     /\ Vacated(r).chips = 0 /\ Vacated(r).bet = 0
BY DEF EmptySeat, Vacated, Seat

LEMMA LeaveTableKeeps ==
  ASSUME IInv, NEW p \in Players, NEW t \in Tables, LeaveTable(p, t)
  PROVE  Kept
<1>0. TypeOK /\ SeatsOK /\ BuyInOK
  BY DEF IInv, NoChipsMinted
<1>1. /\ handler = Idle
      /\ UNCHANGED <<wallet, live, away, at, pending, burnt>> /\ tracked' \subseteq tracked
  BY DEF LeaveTable, Ready
<1>2. PICK s \in SeatsOf(t, p) :
       IF t \in live /\ seat[t][s].status = "playing"
         THEN /\ seat' = [seat EXCEPT ![t][s] =
                   [seat[t][s] EXCEPT !.leaving = TRUE,
                             !.status = IF seat[t][s].chips > 0 THEN "folded" ELSE "playing"]]
              /\ UNCHANGED handler
         ELSE /\ seat' = [seat EXCEPT ![t][s] = EmptySeat]
              /\ handler' = Crediting(Cash(p, t, seat[t][s].chips))
  BY DEF LeaveTable
<1>3. s \in Seats /\ seat[t][s].id = p /\ seat[t][s].id # Nobody /\ seat[t][s] \in Seat
  BY <1>0, CashierAssumption DEF SeatsOf, TypeOK
<1>4. CASE t \in live /\ seat[t][s].status = "playing"
  <2> DEFINE st == IF seat[t][s].chips > 0 THEN "folded" ELSE "playing"
  <2> DEFINE e == [seat[t][s] EXCEPT !.leaving = TRUE, !.status = st]
  <2>1. st \in {"empty", "sitting", "playing", "folded"}
    OBVIOUS
  <2>2. seat' = [seat EXCEPT ![t][s] = e] /\ handler' = handler
    BY <1>2, <1>4
  <2> HIDE DEF st
  <2>3. /\ e \in Seat /\ e.id = seat[t][s].id
        /\ e.chips = seat[t][s].chips /\ e.bet = seat[t][s].bet
    BY <1>3, <2>1, Marked
  <2> HIDE DEF e
  <2>4. /\ seat' \in SeatMaps /\ seat'[t][s] = e
        /\ \A u \in Tables, v \in Seats : <<u, v>> # <<t, s>> => seat'[u][v] = seat[u][v]
    BY <1>0, <1>3, <2>2, <2>3 DEF TypeOK, SeatMaps
  <2>5. \A u \in Tables, v \in Seats :
           /\ seat'[u][v].id = seat[u][v].id
           /\ seat'[u][v].chips = seat[u][v].chips /\ seat'[u][v].bet = seat[u][v].bet
           /\ seat[u][v].id = Nobody => seat'[u][v].status = seat[u][v].status
    BY <1>3, <2>3, <2>4
  <2> QED
    BY <1>0, <1>1, <2>2, <2>4, <2>5, OnlyMarks DEF TypeOK
<1>5. CASE ~(t \in live /\ seat[t][s].status = "playing")
  <2>1. /\ seat' = [seat EXCEPT ![t][s] = EmptySeat]
        /\ handler' = Crediting(Cash(p, t, seat[t][s].chips))
    BY <1>2, <1>5
  <2>2. /\ seat' \in SeatMaps /\ seat'[t][s] = EmptySeat
        /\ \A u \in Tables, v \in Seats : <<u, v>> # <<t, s>> => seat'[u][v] = seat[u][v]
    BY <1>0, <1>3, <2>1, EmptySeats DEF TypeOK, SeatMaps
  <2>3. /\ seat'[t][s].id = Nobody /\ seat'[t][s].status = "empty"
        /\ seat'[t][s].chips = 0 /\ seat'[t][s].bet = 0
    BY <2>2, EmptySeats
  <2>4. /\ away' \subseteq Tables \X Players /\ at' \in [Players -> Tables \cup {"offline"}]
        /\ tracked' \subseteq Tables \X Players
    BY <1>0, <1>1 DEF TypeOK
  <2>5. s \in Seats /\ handler = Idle /\ UNCHANGED <<wallet, live, pending, burnt>>
    BY <1>1, <1>3
  <2>6. /\ handler' = Crediting(Cash(p, t, seat[t][s].chips))
        /\ t \in live => seat[t][s].status # "playing"
    BY <1>5, <2>1
  <2>7. seat' \in SeatMaps
    BY <2>2
  <2>8. \A u \in Tables, v \in Seats : <<u, v>> # <<t, s>> => seat'[u][v] = seat[u][v]
    BY <2>2
  <2> QED
    BY <2>3, <2>4, <2>5, <2>6, <2>7, <2>8, SeatVacated
<1> QED
  BY <1>4, <1>5

LEMMA DisconnectKeeps ==
  ASSUME IInv, NEW p \in Players, Disconnect(p)
  PROVE  Kept
<1> DEFINE t == at[p]
<1>0. TypeOK /\ SeatsOK /\ BuyInOK
  BY DEF IInv, NoChipsMinted
<1>1. /\ handler = Idle /\ t \in Tables
      /\ UNCHANGED <<wallet, live, tracked, pending, burnt>>
      /\ at' \in [Players -> Tables \cup {"offline"}]
  BY <1>0 DEF Disconnect, Ready, TypeOK
<1>2. CASE UNCHANGED <<seat, handler>> /\ away' \subseteq away \cup {<<t, p>>}
  <2>1. away' \subseteq Tables \X Players
    BY <1>0, <1>1, <1>2 DEF TypeOK
  <2> QED
    BY <1>0, <1>1, <1>2, <2>1, QuietSteps DEF TypeOK
<1>3. CASE \E s \in SeatsOf(t, p) : /\ ~Keeps(t, s)
                                   /\ seat' = [seat EXCEPT ![t][s] = Vacated(seat[t][s])]
                                   /\ handler' = Crediting(Cash(p, t, seat[t][s].chips))
                                   /\ UNCHANGED away
  <2>1. PICK s \in SeatsOf(t, p) : /\ ~Keeps(t, s)
                                   /\ seat' = [seat EXCEPT ![t][s] = Vacated(seat[t][s])]
                                   /\ handler' = Crediting(Cash(p, t, seat[t][s].chips))
                                   /\ UNCHANGED away
    BY <1>3
  <2> DEFINE e == Vacated(seat[t][s])
  <2>2. s \in Seats /\ seat[t][s] \in Seat
    BY <1>0, <1>1 DEF SeatsOf, TypeOK
  <2>3. e \in Seat /\ e.id = Nobody /\ e.status = "empty" /\ e.chips = 0 /\ e.bet = 0
    BY <2>2, EmptySeats
  <2> HIDE DEF e
  <2>4. /\ seat' \in SeatMaps /\ seat'[t][s] = e
        /\ \A u \in Tables, v \in Seats : <<u, v>> # <<t, s>> => seat'[u][v] = seat[u][v]
    BY <1>0, <1>1, <2>1, <2>2, <2>3 DEF TypeOK, SeatMaps, e
  <2>5. /\ seat'[t][s].id = Nobody /\ seat'[t][s].status = "empty"
        /\ seat'[t][s].chips = 0 /\ seat'[t][s].bet = 0
    BY <2>3, <2>4
  <2>6. /\ away' \subseteq Tables \X Players /\ at' \in [Players -> Tables \cup {"offline"}]
        /\ tracked' \subseteq Tables \X Players
    BY <1>0, <1>1, <2>1 DEF TypeOK
  <2>7. s \in Seats /\ handler = Idle /\ UNCHANGED <<wallet, live, pending, burnt>>
    BY <1>1, <2>2
  <2>8. /\ handler' = Crediting(Cash(p, t, seat[t][s].chips))
        /\ t \in live => seat[t][s].status # "playing"
    BY <2>1 DEF Keeps
  <2>9. t \in Tables /\ seat' \in SeatMaps
    BY <1>1, <2>4
  <2>10. \A u \in Tables, v \in Seats : <<u, v>> # <<t, s>> => seat'[u][v] = seat[u][v]
    BY <2>4
  <2> HIDE DEF t
  <2> QED
    BY <2>5, <2>6, <2>7, <2>8, <2>9, <2>10, SeatVacated
<1> QED
  BY <1>2, <1>3 DEF Disconnect

-----------------------------------------------------------------------------
(* A restart finds the wallets and nothing else.                           *)
LEMMA CrashKeeps ==
  ASSUME IInv, Crash
  PROVE  Kept
<1>0. TypeOK /\ SeatsOK /\ BuyInOK
  BY DEF IInv, NoChipsMinted
<1>1. wallet' = wallet
  <2>1. \A p \in Players : SumFunction([b \in {e \in {} : e.player = p} |-> b.amount]) = 0
    <3> SUFFICES ASSUME NEW p \in Players
                 PROVE  SumFunction([b \in {e \in {} : e.player = p} |-> b.amount]) = 0
      OBVIOUS
    <3> DEFINE f == [b \in {e \in {} : e.player = p} |-> b.amount]
    <3>1. DOMAIN f = {}
      OBVIOUS
    <3> HIDE DEF f
    <3>2. SumFunction(f) = 0
      BY <3>1, SumEmpty DEF SumFunction, Sum
    <3> QED
      BY <3>2 DEF f
  <2>2. \A p \in Players : wallet[p] + 0 = wallet[p]
    BY <1>0 DEF TypeOK
  <2>3. wallet = [p \in Players |-> wallet[p]]
    BY <1>0 DEF TypeOK
  <2>4. wallet' = RecoverOrphanedBuyIns({})
    BY DEF Crash
  <2> QED
    BY <2>1, <2>2, <2>3, <2>4 DEF RecoverOrphanedBuyIns
<1>2. /\ seat' = [t \in Tables |-> [s \in Seats |-> EmptySeat]]
      /\ live' = {} /\ away' = {} /\ tracked' = {} /\ pending' = {}
      /\ at' = [p \in Players |-> "offline"]
      /\ handler' = Idle /\ burnt' = burnt
  BY DEF Crash
<1>3. Idle \in Handler /\ Idle.due = << >> /\ Idle.op = "idle"
  BY DEF Idle, Handler
<1>4. TypeOK' /\ SeatsOK' /\ BuyInOK'
  BY <1>0, <1>1, <1>2, <1>3, EmptySeats DEF TypeOK, SeatsOK, BuyInOK
<1>5. Sum(Own(seat'), Places) = 0
  <2>1. \A x \in Places : Own(seat')[x] = 0
    BY <1>2, EmptySeats DEF Own, Places
  <2> QED
    BY <2>1, PlacesFinite, SumZero
<1>6. Total(handler'.due) = 0 /\ Sum(wallet', Players) = Sum(wallet, Players)
  BY <1>1, <1>2, <1>3, TotalNone
<1>7. Booked' <= Booked
  BY <1>0, <1>2, <1>4, <1>5, <1>6, Books, BooksNext
<1> QED
  BY <1>4, <1>7 DEF Kept, Loss

-----------------------------------------------------------------------------
(* The end of a hand.                                                      *)
(* Chips of the seats of one table, and of no other.                       *)
Row(f, t) == [x \in Places |-> IF x[1] = t THEN f[x[2]] ELSE 0]

LEMMA RowSum ==
  ASSUME NEW f \in [Seats -> Nat], NEW t \in Tables
  PROVE  /\ \A x \in Places : Row(f, t)[x] \in Nat
         /\ Sum(Row(f, t), Places) = Sum(f, Seats)
<1> DEFINE at_t == [s \in Seats |-> <<t, s>>]
<1> DEFINE r == Row(f, t)
<1>1. IsFiniteSet(Seats) /\ IsFiniteSet(Places)
  BY CashierAssumption, PlacesFinite
<1>2. \A x \in Places : x[1] \in Tables /\ x[2] \in Seats /\ x = <<x[1], x[2]>>
  BY DEF Places
<1>3. at_t \in [Seats -> Places] /\ \A x, y \in Seats : at_t[x] = at_t[y] => x = y
  BY DEF Places
<1>4. \A s \in Seats : at_t[s] \in Places /\ at_t[s][1] = t /\ at_t[s][2] = s
  BY DEF Places
<1>5. \A s \in Seats : f[s] \in Int /\ r[at_t[s]] = f[s]
  BY <1>4 DEF Row
<1>6. \A z \in Places : /\ r[z] \in Nat
                        /\ (\A s \in Seats : at_t[s] # z) => r[z] = 0
  BY <1>2 DEF Row
<1>7. Sum(r, Places) = Sum(f, Seats)
  <2>1. /\ at_t \in [Seats -> Places] /\ \A x, y \in Seats : at_t[x] = at_t[y] => x = y
        /\ \A s \in Seats : f[s] \in Int /\ r[at_t[s]] = f[s]
        /\ \A z \in Places : (\A s \in Seats : at_t[s] # z) => r[z] = 0
    BY <1>3, <1>5, <1>6
  <2> HIDE DEF at_t, r
  <2> QED
    BY <1>1, <2>1, SumReindex
<1>8. \A x \in Places : r[x] \in Nat
  BY <1>6
<1> QED
  BY <1>7, <1>8

(* The pot is what was bet: paying it to the winner moves chips only.      *)
Bets(m, t) == [s \in Seats |-> m[t][s].bet]

PotOf(m, t) == Sum(Bets(m, t), Seats)

WithPot(m, t, w) ==
  [x \in Places |-> IF x[1] = t THEN m[t][x[2]].chips + (IF x[2] = w THEN PotOf(m, t) ELSE 0)
                    ELSE Own(m)[x]]

LEMMA PotPaid ==
  ASSUME NEW m \in SeatMaps, NEW t \in Tables, NEW w \in Seats
  PROVE  /\ PotOf(m, t) \in Nat
         /\ \A x \in Places : WithPot(m, t, w)[x] \in Nat
         /\ Sum(WithPot(m, t, w), Places) = Sum(Own(m), Places)
<1> DEFINE bet == Bets(m, t)
<1> DEFINE pot == PotOf(m, t)
<1> DEFINE n == WithPot(m, t, w)
<1>0. /\ \A s \in Seats : bet[s] = m[t][s].bet
      /\ pot = Sum(bet, Seats)
      /\ \A x \in Places :
           n[x] = IF x[1] = t THEN m[t][x[2]].chips + (IF x[2] = w THEN pot ELSE 0) ELSE Own(m)[x]
  BY DEF Bets, PotOf, WithPot
<1> HIDE DEF bet, pot, n
<1> DEFINE bets == [x \in Places |-> IF x[1] = t THEN m[t][x[2]].bet ELSE 0]
<1> DEFINE paid == [x \in Places |-> IF x = <<t, w>> THEN pot ELSE 0]
<1> DEFINE own == Own(m)
<1> DEFINE all == [x \in Places |-> own[x] + paid[x]]
<1>1. \A u \in Tables, s \in Seats : m[u][s] \in Seat /\ m[u][s].chips \in Nat /\ m[u][s].bet \in Nat
  BY DEF SeatMaps, Seat
<1>2. IsFiniteSet(Seats) /\ IsFiniteSet(Places)
  BY CashierAssumption, PlacesFinite
<1>3. \A s \in Seats : bet[s] \in Nat
  BY <1>0, <1>1
<1>4. pot \in Nat
  BY <1>0, <1>2, <1>3, SumNat
<1>5. \A x \in Places : x[1] \in Tables /\ x[2] \in Seats /\ x = <<x[1], x[2]>>
  BY DEF Places
<1>6. \A x \in Places : own[x] \in Nat /\ own[x] = m[x[1]][x[2]].chips + m[x[1]][x[2]].bet
  BY TermsInt DEF Own, SeatMaps
<1>7. \A x \in Places : bets[x] \in Nat /\ paid[x] \in Nat
  BY <1>1, <1>4, <1>5
<1>8. \A x \in Places : n[x] \in Nat
  BY <1>0, <1>1, <1>4, <1>5, <1>6
<1>9. \A x \in Places : all[x] = own[x] + paid[x] /\ all[x] = n[x] + bets[x]
  <2> SUFFICES ASSUME NEW x \in Places PROVE own[x] + paid[x] = n[x] + bets[x]
    OBVIOUS
  <2>1. x[1] \in Tables /\ x[2] \in Seats /\ x = <<x[1], x[2]>>
    BY <1>5
  <2>2. own[x] = m[x[1]][x[2]].chips + m[x[1]][x[2]].bet /\ own[x] \in Nat
    BY <1>6
  <2>3. CASE x[1] # t
    <3>1. bets[x] = 0 /\ paid[x] = 0 /\ n[x] = own[x]
      BY <1>0, <2>1, <2>3
    <3> QED
      BY <2>2, <3>1
  <2>4. CASE x[1] = t /\ x[2] # w
    <3>1. bets[x] = m[t][x[2]].bet /\ paid[x] = 0 /\ n[x] = m[t][x[2]].chips + 0
      BY <1>0, <2>1, <2>4
    <3>2. m[t][x[2]].chips \in Nat /\ m[t][x[2]].bet \in Nat
      BY <1>1, <2>1
    <3> QED
      BY <2>2, <2>4, <3>1, <3>2
  <2>5. CASE x[1] = t /\ x[2] = w
    <3>1. bets[x] = m[t][w].bet /\ paid[x] = pot /\ n[x] = m[t][w].chips + pot
      BY <1>0, <2>1, <2>5
    <3>2. m[t][w].chips \in Nat /\ m[t][w].bet \in Nat
      BY <1>1, <2>1
    <3> QED
      BY <1>4, <2>2, <2>5, <3>1, <3>2
  <2> QED
    BY <2>3, <2>4, <2>5
<1>10. Sum(bets, Places) = pot
  <2>1. bet \in [Seats -> Nat]
    BY <1>3 DEF bet, Bets
  <2>2. bets = Row(bet, t)
    BY <1>0, <1>5 DEF Row
  <2> QED
    BY <1>0, <2>1, <2>2, RowSum
<1>11. Sum(paid, Places) = pot
  <2> DEFINE e == <<t, w>>
  <2>1. e \in Places /\ paid[e] = pot /\ \A x \in Places \ {e} : paid[x] = 0
    BY DEF Places
  <2>2. IsFiniteSet(Places \ {e}) /\ \A x \in Places : paid[x] \in Int
    BY <1>2, <1>7, FS_Subset
  <2> HIDE DEF e, paid
  <2>3. Sum(paid, Places) = paid[e] + Sum(paid, Places \ {e})
    BY <1>2, <2>1, <2>2, SumRemove
  <2>4. Sum(paid, Places \ {e}) = 0
    BY <2>1, <2>2, SumZero
  <2> QED
    BY <1>4, <2>1, <2>3, <2>4
<1> HIDE DEF own, paid, bets, all
<1>12. \A x \in Places : own[x] \in Int /\ paid[x] \in Int /\ n[x] \in Int /\ bets[x] \in Int
  BY <1>6, <1>7, <1>8
<1>13. Sum(all, Places) = Sum(own, Places) + Sum(paid, Places)
  BY <1>2, <1>9, <1>12, SumPlus
<1>14. Sum(all, Places) = Sum(n, Places) + Sum(bets, Places)
  BY <1>2, <1>9, <1>12, SumPlus
<1>15. Sum(n, Places) \in Int /\ Sum(own, Places) \in Int
  BY <1>2, <1>12, SumInt
<1> QED
  BY <1>4, <1>8, <1>10, <1>11, <1>13, <1>14, <1>15 DEF own, pot, n

(* What is due to the leavers is what the swept seats held.                *)
Paid(swept, stack) == {s \in swept : stack[s] > 0}

SweptChips(t, swept, stack) ==
  [x \in Places |-> IF x[1] = t /\ x[2] \in swept THEN stack[x[2]] ELSE 0]

LEMMA SweptDue ==
  ASSUME NEW t \in Tables, NEW swept \in SUBSET Seats, NEW stack \in [Seats -> Nat],
         NEW due \in Seq(Money), DOMAIN due = 1 .. Cardinality(Paid(swept, stack)),
         \A i \in DOMAIN due : due[i].amount = stack[Nth(Paid(swept, stack), i)]
  PROVE  /\ \A x \in Places : SweptChips(t, swept, stack)[x] \in Nat
         /\ Sum(SweptChips(t, swept, stack), Places) = Total(due)
<1> DEFINE paid == Paid(swept, stack)
<1> DEFINE d == SweptChips(t, swept, stack)
<1>0. /\ paid \in SUBSET swept /\ \A s \in swept : s \in paid <=> stack[s] > 0
      /\ \A x \in Places : d[x] = IF x[1] = t /\ x[2] \in swept THEN stack[x[2]] ELSE 0
      /\ DOMAIN due = 1 .. Cardinality(paid)
      /\ \A i \in DOMAIN due : due[i].amount = stack[Nth(paid, i)]
  BY DEF Paid, SweptChips
<1> HIDE DEF paid, d
<1> DEFINE b == [i \in DOMAIN due |-> <<t, Nth(paid, i)>>]
<1> DEFINE a == Amounts(due)
<1>1. paid \in SUBSET Seats /\ paid \in SUBSET swept
  BY <1>0
<1>2. /\ \A i \in DOMAIN due : Nth(paid, i) \in paid
      /\ \A i, j \in DOMAIN due : Nth(paid, i) = Nth(paid, j) => i = j
      /\ \A s \in paid : \E i \in DOMAIN due : Nth(paid, i) = s
  <2> DEFINE I == 1 .. Cardinality(paid)
  <2>1. /\ \A i \in I : Nth(paid, i) \in paid
        /\ \A i, j \in I : Nth(paid, i) = Nth(paid, j) => i = j
        /\ \A s \in paid : \E i \in I : Nth(paid, i) = s
    BY <1>1, NthCounts
  <2>2. DOMAIN due = I
    BY <1>0
  <2> HIDE DEF I
  <2> QED
    BY <2>1, <2>2
<1>3. \A x \in Places : x[1] \in Tables /\ x[2] \in Seats /\ x = <<x[1], x[2]>>
  BY DEF Places
<1>4. \A x \in Places : d[x] \in Nat
  BY <1>0, <1>3
<1>5. b \in [DOMAIN due -> Places]
  BY <1>1, <1>2 DEF Places
<1>6. \A x, y \in DOMAIN due : b[x] = b[y] => x = y
  BY <1>2
<1>7. \A i \in DOMAIN due : a[i] = stack[Nth(paid, i)] /\ a[i] \in Int
  <2>1. \A i \in DOMAIN due : a[i] = due[i].amount
    BY DEF Amounts
  <2> QED
    BY <1>0, <1>1, <1>2, <2>1
<1>8. \A i \in DOMAIN due : d[b[i]] = a[i]
  <2> SUFFICES ASSUME NEW i \in DOMAIN due PROVE d[b[i]] = a[i]
    OBVIOUS
  <2>1. b[i] \in Places /\ b[i][1] = t /\ b[i][2] = Nth(paid, i)
    BY <1>5
  <2> QED
    BY <1>0, <1>1, <1>2, <1>7, <2>1
<1>9. ASSUME NEW z \in Places, \A i \in DOMAIN due : b[i] # z PROVE d[z] = 0
  <2>1. CASE z[1] = t /\ z[2] \in swept /\ stack[z[2]] > 0
    <3>1. PICK i \in DOMAIN due : Nth(paid, i) = z[2]
      BY <1>0, <1>2, <2>1
    <3>2. b[i] = z
      BY <1>3, <2>1, <3>1
    <3> QED
      BY <1>9, <3>2
  <2>2. CASE ~(z[1] = t /\ z[2] \in swept /\ stack[z[2]] > 0)
    BY <1>0, <1>3, <2>2
  <2> QED
    BY <2>1, <2>2
<1>10. IsFiniteSet(DOMAIN due) /\ IsFiniteSet(Places)
  BY PlacesFinite, DomainFinite
<1>11. Sum(d, Places) = Sum(a, DOMAIN due)
  <2> DEFINE I == DOMAIN due
  <2>1. /\ IsFiniteSet(I) /\ IsFiniteSet(Places) /\ b \in [I -> Places]
        /\ \A x, y \in I : b[x] = b[y] => x = y
        /\ \A i \in I : a[i] \in Int /\ d[b[i]] = a[i]
        /\ \A z \in Places : (\A i \in I : b[i] # z) => d[z] = 0
    BY <1>5, <1>6, <1>7, <1>8, <1>9, <1>10
  <2> HIDE DEF a, b, I
  <2>2. Sum(d, Places) = Sum(a, I)
    BY <2>1, SumReindex
  <2> QED
    BY <2>2 DEF I
<1> QED
  BY <1>4, <1>11 DEF a, Total, d

LEMMA EndHandKeeps ==
  ASSUME IInv, NEW t \in Tables, NEW w \in InHand(t), NEW alerted,
         NEW lost \in Losses(t, w, alerted), EndHand(t, w, alerted, lost)
  PROVE  Kept
<1> DEFINE kicked == Kicked(t, alerted)
<1> DEFINE swept == Swept(t, alerted)
<1> DEFINE pot == Pot(t)
<1> DEFINE gross == [s \in Seats |-> seat[t][s].chips + (IF s = w THEN pot ELSE 0)]
<1> DEFINE stack == [s \in Seats |-> seat[t][s].chips + (IF s = w THEN pot ELSE 0) - lost[s]]
<1> DEFINE paid == Paid(swept, stack)
<1> DEFINE out(u, s) == s \in Kicked(u, alerted) /\ (u = t \/ ~Keeps(u, s))
<1> DEFINE due == [i \in 1 .. Cardinality(paid) |->
                   LET s == Nth(paid, i)
                   IN  [player |-> seat[t][s].id, table |-> t, amount |-> stack[s]]]
<1> DEFINE after == [s \in Seats |->
                    CASE s \in kicked               -> Vacated(seat[t][s])
                      [] s \in swept                -> EmptySeat
                      [] seat[t][s].id = Nobody     -> seat[t][s]
                      [] OTHER -> [seat[t][s] EXCEPT !.status = "sitting",
                                                     !.chips = stack[s], !.bet = 0]]
<1>0. TypeOK /\ SeatsOK /\ BuyInOK /\ seat \in SeatMaps
  BY DEF IInv, NoChipsMinted, TypeOK, SeatMaps
<1>1. /\ handler = Idle /\ t \in live /\ live' \subseteq live /\ live \ {t} \subseteq live'
      /\ burnt' = burnt + SumFunction(lost)
      /\ tracked' = {x \in tracked : x[2] \notin alerted}
      /\ UNCHANGED <<wallet, at, pending>>
  BY DEF EndHand
<1>2. seat' = [u \in Tables |->
                IF u = t THEN after
                ELSE [s \in Seats |-> IF s \in Kicked(u, alerted) /\ ~Keeps(u, s)
                                         THEN Vacated(seat[u][s]) ELSE seat[u][s]]]
  BY DEF EndHand
<1>3. handler' = Crediting(due)
  BY DEF EndHand, CashOuts, Paid
<1>4. away' \subseteq away \cup {x \in Tables \X alerted : x \in tracked}
  BY DEF EndHand
<1>5. /\ w \in Seats /\ seat[t][w].status = "playing" /\ seat[t][w].id # Nobody
      /\ kicked \subseteq Seats /\ swept \subseteq Seats \ kicked
      /\ \A s \in kicked \cup swept : seat[t][s].id # Nobody
  BY <1>0, CashierAssumption DEF InHand, SeatsOK, Kicked, Swept, TypeOK
<1>6. \A u \in Tables, s \in Seats :
        /\ seat[u][s] \in Seat /\ seat[u][s].chips \in Nat /\ seat[u][s].bet \in Nat
        /\ seat[u][s].id \in Players \cup {Nobody}
  BY <1>0 DEF SeatMaps, Seat
<1>7. pot = PotOf(seat, t)
  <2> DEFINE bet == Bets(seat, t)
  <2>1. DOMAIN bet = Seats
    BY DEF Bets
  <2>2. pot = SumFunction(bet)
    BY DEF Pot, Bets
  <2> HIDE DEF bet
  <2> QED
    BY <2>1, <2>2 DEF SumFunction, Sum, PotOf, bet
<1> DEFINE n == WithPot(seat, t, w)
<1>8. pot \in Nat /\ (\A x \in Places : n[x] \in Nat) /\ Sum(n, Places) = Sum(Own(seat), Places)
  BY <1>0, <1>5, <1>7, PotPaid
<1>8a. \A x \in Places : n[x] = IF x[1] = t THEN gross[x[2]] ELSE Own(seat)[x]
  <2>1. \A x \in Places : x[2] \in Seats
    BY DEF Places
  <2> QED
    BY <1>7, <2>1 DEF WithPot
<1> HIDE DEF pot, n
<1>8b. /\ lost \in [Seats -> Nat]
       /\ \A s \in Seats : lost[s] <= (IF s = w THEN pot ELSE 0)
                          + (IF DealtEarly(t, alerted) /\ s \in Stays(t, alerted)
                               THEN seat[t][s].chips ELSE 0)
  <2>1. lost \in [Seats -> 0 .. Purse * Cardinality(Players)]
    BY DEF Losses
  <2>2. Purse * Cardinality(Players) \in Nat
    BY CashierAssumption, FS_CardinalityType
  <2>3. lost \in [Seats -> Nat]
    BY <2>1, <2>2
  <2> QED
    BY <2>3 DEF Losses, pot
<1>9. \A s \in Seats : /\ stack[s] \in Nat /\ gross[s] = stack[s] + lost[s] /\ lost[s] \in Nat
                       /\ seat[t][s].id = Nobody => stack[s] = 0
  <2> SUFFICES ASSUME NEW s \in Seats
               PROVE  /\ stack[s] \in Nat /\ gross[s] = stack[s] + lost[s] /\ lost[s] \in Nat
                      /\ seat[t][s].id = Nobody => stack[s] = 0
    OBVIOUS
  <2>1. /\ lost[s] \in Nat /\ seat[t][s].chips \in Nat
        /\ lost[s] <= (IF s = w THEN pot ELSE 0) + seat[t][s].chips
    BY <1>6, <1>8, <1>8b
  <2>2. seat[t][s].id = Nobody => s # w /\ seat[t][s].chips = 0
    BY <1>0, <1>5 DEF SeatsOK
  <2>3. /\ gross[s] = seat[t][s].chips + (IF s = w THEN pot ELSE 0)
        /\ stack[s] = seat[t][s].chips + (IF s = w THEN pot ELSE 0) - lost[s]
    OBVIOUS
  <2> HIDE DEF stack, gross
  <2>4. CASE s = w
    BY <1>8, <2>1, <2>2, <2>3, <2>4
  <2>5. CASE s # w
    BY <1>8, <2>1, <2>2, <2>3, <2>5
  <2> QED
    BY <2>4, <2>5
<1>9a. stack \in [Seats -> Nat]
  <2>1. DOMAIN stack = Seats /\ stack = [s \in Seats |-> stack[s]]
    OBVIOUS
  <2> HIDE DEF stack
  <2> QED
    BY <1>9, <2>1
<1> HIDE DEF stack, gross
<1>10. /\ due \in Seq(Money) /\ DOMAIN due = 1 .. Cardinality(paid)
       /\ \A i \in DOMAIN due : due[i].amount = stack[Nth(paid, i)]
  <2>1. paid \in SUBSET Seats
    BY <1>5 DEF Paid
  <2>2. Cardinality(paid) \in Nat /\ \A i \in 1 .. Cardinality(paid) : Nth(paid, i) \in paid
    BY <2>1, NthCounts
  <2>3. \A s \in paid : s \in Seats /\ stack[s] \in Nat /\ seat[t][s].id \in Players
    BY <1>5, <1>6, <1>9 DEF Paid
  <2> HIDE DEF stack, paid
  <2>4. \A i \in 1 .. Cardinality(paid) : due[i] \in Money /\ due[i].amount = stack[Nth(paid, i)]
    BY <2>2, <2>3 DEF Money
  <2> QED
    BY <2>2, <2>4
<1>11. /\ handler' \in Handler /\ handler'.due = due
       /\ handler'.op \in {"idle", "credit"}
       /\ handler' = Idle <=> handler'.due = << >>
       /\ handler'.op = "idle" => handler'.due = << >>
  <2> HIDE DEF due
  <2> QED
    BY <1>3, <1>10, CreditingOK
<1>12. \A s \in Seats :
        /\ s \in kicked => after[s] = Vacated(seat[t][s])
        /\ s \in swept => after[s] = EmptySeat
        /\ s \notin kicked \cup swept /\ seat[t][s].id = Nobody => after[s] = seat[t][s]
        /\ s \notin kicked \cup swept /\ seat[t][s].id # Nobody =>
             after[s] = [seat[t][s] EXCEPT !.status = "sitting", !.chips = stack[s], !.bet = 0]
  <2> SUFFICES ASSUME NEW s \in Seats
               PROVE  /\ s \in kicked => after[s] = Vacated(seat[t][s])
                      /\ s \in swept => after[s] = EmptySeat
                      /\ s \notin kicked \cup swept /\ seat[t][s].id = Nobody => after[s] = seat[t][s]
                      /\ s \notin kicked \cup swept /\ seat[t][s].id # Nobody =>
                           after[s] = [seat[t][s] EXCEPT !.status = "sitting", !.chips = stack[s], !.bet = 0]
    OBVIOUS
  <2> DEFINE e == [seat[t][s] EXCEPT !.status = "sitting", !.chips = stack[s], !.bet = 0]
  <2>1. after[s] = CASE s \in kicked           -> Vacated(seat[t][s])
                     [] s \in swept            -> EmptySeat
                     [] seat[t][s].id = Nobody -> seat[t][s]
                     [] OTHER                  -> e
    OBVIOUS
  <2> HIDE DEF kicked, swept, stack, after, e
  <2>2. /\ s \in kicked => seat[t][s].id # Nobody
        /\ s \in swept => s \notin kicked /\ seat[t][s].id # Nobody
    BY <1>5
  <2>3. CASE s \in kicked
    BY <2>1, <2>2, <2>3
  <2>4. CASE s \in swept
    BY <2>1, <2>2, <2>4
  <2>5. CASE s \notin kicked \cup swept
    BY <2>1, <2>5 DEF e
  <2> QED
    BY <2>3, <2>4, <2>5
<1> HIDE DEF after
<1>13. \A s \in Seats :
        /\ after[s] \in Seat /\ after[s].bet = 0
        /\ s \in kicked => after[s].id = Nobody
        /\ s \in kicked \cup swept => after[s].chips = 0
        /\ s \notin kicked \cup swept => after[s].chips = stack[s]
        /\ after[s].id = Nobody => after[s].status = "empty" /\ after[s].chips = 0
  <2> SUFFICES ASSUME NEW s \in Seats
               PROVE  /\ after[s] \in Seat /\ after[s].bet = 0
                      /\ s \in kicked => after[s].id = Nobody
                      /\ s \in kicked \cup swept => after[s].chips = 0
                      /\ s \notin kicked \cup swept => after[s].chips = stack[s]
                      /\ after[s].id = Nobody => after[s].status = "empty" /\ after[s].chips = 0
    OBVIOUS
  <2> DEFINE r == seat[t][s]
  <2>1. r \in Seat /\ stack[s] \in Nat
    BY <1>6, <1>9
  <2>2. CASE s \in kicked
    <3> HIDE DEF stack, kicked, swept
    <3>1. after[s] = Vacated(r)
      BY <1>12, <2>2
    <3> HIDE DEF r
    <3> QED
      BY <2>1, <2>2, <3>1, EmptySeats
  <2>3. CASE s \in swept
    BY <1>5, <1>12, <2>3, EmptySeats
  <2>4. CASE s \notin kicked \cup swept /\ r.id = Nobody
    <3>1. s # w /\ r.chips = 0 /\ r.bet = 0 /\ r.status = "empty"
      BY <1>0, <1>5, <2>4 DEF SeatsOK
    <3>2. stack[s] = 0
      BY <1>9, <2>4
    <3>3. after[s] = r
      BY <1>12, <2>4
    <3> QED
      BY <2>1, <2>4, <3>1, <3>2, <3>3
  <2>5. CASE s \notin kicked \cup swept /\ r.id # Nobody
    <3>1. after[s] = [r EXCEPT !.status = "sitting", !.chips = stack[s], !.bet = 0]
      BY <1>12, <2>5
    <3> DEFINE c == stack[s]
    <3> HIDE DEF r, stack, c
    <3>2. after[s] \in Seat /\ after[s].bet = 0 /\ after[s].chips = c /\ after[s].id = r.id
      <4> DEFINE e == [r EXCEPT !.status = "sitting", !.chips = c, !.bet = 0]
      <4>1. c \in Nat /\ after[s] = e
        BY <2>1, <3>1 DEF c
      <4>2. e \in Seat /\ e.bet = 0 /\ e.chips = c /\ e.id = r.id
        BY <2>1, <4>1 DEF Seat
      <4> HIDE DEF e
      <4> QED
        BY <4>1, <4>2
    <3> QED
      BY <2>5, <3>2 DEF c, r
  <2> QED
    BY <2>2, <2>3, <2>4, <2>5
<1>14. /\ seat' \in SeatMaps
       /\ \A u \in Tables \ {t}, s \in Seats :
             seat'[u][s] = IF out(u, s) THEN Vacated(seat[u][s]) ELSE seat[u][s]
       /\ \A s \in Seats : seat'[t][s] = after[s]
  <2>1. after \in [Seats -> Seat]
    BY <1>13 DEF after
  <2>2. \A u \in Tables, s \in Seats : Vacated(seat[u][s]) \in Seat
    BY <1>6, EmptySeats
  <2> QED
    BY <1>2, <1>6, <2>1, <2>2 DEF SeatMaps
<1>15. TypeOK'
  <2>1. away' \subseteq Tables \X Players /\ tracked' \subseteq Tables \X Players
    BY <1>0, <1>1, <1>4 DEF TypeOK
  <2>2. burnt' \in Nat
    <3>1. DOMAIN lost = Seats /\ SumFunction(lost) = Sum(lost, DOMAIN lost)
      BY <1>8b DEF SumFunction, Sum
    <3>2. Sum(lost, Seats) \in Nat
      BY <1>8b, CashierAssumption, SumNat
    <3> QED
      BY <1>0, <1>1, <3>1, <3>2 DEF TypeOK
  <2> QED
    BY <1>0, <1>1, <1>11, <1>14, <2>1, <2>2 DEF TypeOK, SeatMaps
<1>16. SeatsOK'
  <2> SUFFICES ASSUME NEW u \in Tables, NEW s \in Seats
               PROVE  /\ seat'[u][s].id = Nobody => /\ seat'[u][s].status = "empty"
                                                    /\ seat'[u][s].chips = 0
                                                    /\ seat'[u][s].bet = 0
                      /\ u \notin live' => seat'[u][s].bet = 0
    BY DEF SeatsOK
  <2>1. CASE u = t
    BY <1>13, <1>14, <2>1
  <2>2. CASE u # t
    <3>1. seat'[u][s] = Vacated(seat[u][s]) \/ seat'[u][s] = seat[u][s]
      BY <1>14, <2>2
    <3>2. u \notin live' => u \notin live
      BY <1>1, <2>2
    <3> QED
      BY <1>0, <1>6, <3>1, <3>2, EmptySeats DEF SeatsOK
  <2> QED
    BY <2>1, <2>2
<1>17. BuyInOK'
  BY <1>11 DEF BuyInOK
<1> DEFINE d == SweptChips(t, swept, stack)
<1> DEFINE k == [x \in Places |-> IF ~out(x[1], x[2]) THEN 0
                                 ELSE IF x[1] = t THEN stack[x[2]] ELSE n[x]]
<1> DEFINE v == Own(seat')
<1> DEFINE z == Row(lost, t)
<1> DEFINE dk == [x \in Places |-> d[x] + k[x]]
<1> DEFINE dkz == [x \in Places |-> dk[x] + z[x]]
<1>18. (\A x \in Places : d[x] \in Nat) /\ Sum(d, Places) = Total(due)
  <2>1. stack \in [Seats -> Nat] /\ swept \in SUBSET Seats
    BY <1>5, <1>9a
  <2> HIDE DEF swept, stack, due
  <2> QED
    BY <1>10, <2>1, SweptDue
<1>18a. (\A x \in Places : z[x] \in Nat) /\ Sum(z, Places) = Sum(lost, Seats)
  BY <1>8b, RowSum
<1>19. \A x \in Places : k[x] \in Nat
  <2>1. \A x \in Places : x[2] \in Seats
    BY DEF Places
  <2> HIDE DEF n, stack
  <2> QED
    BY <1>8, <1>9, <2>1
<1>20. \A x \in Places : /\ v[x] \in Nat /\ dk[x] = d[x] + k[x] /\ dkz[x] = dk[x] + z[x]
                         /\ n[x] = v[x] + ((d[x] + k[x]) + z[x])
  <2> SUFFICES ASSUME NEW x \in Places PROVE v[x] \in Nat /\ n[x] = v[x] + ((d[x] + k[x]) + z[x])
    OBVIOUS
  <2> DEFINE u == x[1]
  <2> DEFINE s == x[2]
  <2>1. u \in Tables /\ s \in Seats
    BY DEF Places
  <2>2. v[x] \in Nat /\ v[x] = seat'[u][s].chips + seat'[u][s].bet
    BY <1>14, TermsInt DEF Own, SeatMaps
  <2>3. Own(seat)[x] = seat[u][s].chips + seat[u][s].bet
    BY DEF Own
  <2>4. CASE u = t
    <3>0. z[x] = lost[s] /\ lost[s] \in Nat
      BY <1>9, <2>1, <2>4 DEF Row
    <3>1. v[x] = after[s].chips + 0 /\ n[x] = stack[s] + z[x] /\ stack[s] \in Nat
      BY <1>8a, <1>9, <1>13, <1>14, <2>1, <2>2, <2>4, <3>0
    <3>2. d[x] = IF s \in swept THEN stack[s] ELSE 0
      BY <2>4 DEF SweptChips
    <3>3. k[x] = IF s \in kicked THEN stack[s] ELSE 0
      BY <2>4, <3>1
    <3>4. after[s].chips = IF s \in kicked \cup swept THEN 0 ELSE stack[s]
      BY <1>13, <2>1
    <3>5. s \in swept => s \notin kicked
      BY <1>5
    <3> HIDE DEF stack, swept, kicked, d, k, v, n, z, u, s
    <3> QED
      BY <2>2, <3>0, <3>1, <3>2, <3>3, <3>4, <3>5
  <2>5. CASE u # t
    <3>1. d[x] = 0 /\ z[x] = 0 /\ n[x] = seat[u][s].chips + seat[u][s].bet
      BY <1>8a, <2>3, <2>5 DEF SweptChips, Row
    <3>2. CASE out(u, s)
      <4>1. k[x] = n[x] /\ seat'[u][s] = Vacated(seat[u][s])
        BY <1>14, <2>1, <2>5, <3>2
      <4>2. v[x] = 0 + 0
        BY <1>6, <2>1, <2>2, <4>1, EmptySeats
      <4>3. n[x] \in Nat
        BY <1>8
      <4> HIDE DEF d, k, v, n, z
      <4> QED
        BY <2>2, <3>1, <4>1, <4>2, <4>3
    <3>3. CASE ~out(u, s)
      <4>1. k[x] = 0 /\ seat'[u][s] = seat[u][s]
        BY <1>14, <2>1, <2>5, <3>3
      <4>2. v[x] = n[x]
        BY <2>2, <3>1, <4>1
      <4> HIDE DEF d, k, v, n, z
      <4> QED
        BY <2>2, <3>1, <4>1, <4>2
    <3> QED
      BY <3>2, <3>3
  <2> QED
    BY <2>4, <2>5
<1>21. (\E x \in Places : k[x] # 0) => Kicks
  <2> SUFFICES ASSUME NEW x \in Places, k[x] # 0 PROVE Kicks
    OBVIOUS
  <2> DEFINE u == x[1]
  <2> DEFINE s == x[2]
  <2>1. u \in Tables /\ s \in Seats /\ out(u, s)
    BY DEF Places
  <2>2. s \in Seats /\ seat[u][s].id \in alerted /\ <<u, seat[u][s].id>> \in tracked
    BY <2>1 DEF Kicked
  <2>3. seat'[u][s].id = Nobody
    BY <1>6, <1>13, <1>14, <2>1, EmptySeats
  <2>4. <<u, seat[u][s].id>> \in tracked \ tracked' /\ s \in SeatsOf(u, seat[u][s].id)
    BY <1>1, <2>2 DEF SeatsOf
  <2>5. InHand(t)' # InHand(t)
    <3>1. seat'[t][w].status # "playing"
      <4> DEFINE r == seat[t][w]
      <4>0. r \in Seat /\ t \in Tables /\ w \in Seats /\ r.id # Nobody
        BY <1>5, <1>6
      <4>1. w \in kicked => after[w] = Vacated(r)
        BY <1>12, <4>0
      <4>1a. w \in swept => after[w] = EmptySeat
        BY <1>12, <4>0
      <4>1b. w \notin kicked \cup swept =>
               after[w] = [r EXCEPT !.status = "sitting", !.chips = stack[w], !.bet = 0]
        BY <1>12, <4>0
      <4> HIDE DEF r, kicked, swept, after
      <4>2. after[w].status # "playing"
        BY <4>0, <4>1, <4>1a, <4>1b, EmptySeats DEF Seat
      <4> QED
        BY <1>5, <1>14, <4>2
    <3> QED
      BY <3>1 DEF InHand
  <2> DEFINE y == <<u, seat[u][s].id>>
  <2>6. y \in tracked \ tracked' /\ s \in SeatsOf(y[1], y[2]) /\ seat'[y[1]][s].id = Nobody
    BY <2>3, <2>4
  <2> HIDE DEF y
  <2> QED
    BY <1>1, <2>5, <2>6 DEF Kicks
<1> HIDE DEF d, k, v, n, z, dk, dkz, due
<1>22. /\ Sum(Own(seat), Places) = Sum(v, Places) + (Total(due) + Sum(k, Places) + Sum(z, Places))
       /\ Sum(z, Places) \in Nat
  <2>1. \A x \in Places : /\ d[x] \in Int /\ k[x] \in Int /\ v[x] \in Int /\ z[x] \in Int
                          /\ dk[x] \in Int /\ dkz[x] \in Int
                          /\ dk[x] = d[x] + k[x] /\ dkz[x] = dk[x] + z[x] /\ n[x] = v[x] + dkz[x]
    BY <1>18, <1>18a, <1>19, <1>20
  <2>2. Sum(dk, Places) = Sum(d, Places) + Sum(k, Places)
    BY <2>1, PlacesFinite, SumPlus
  <2>3. Sum(dkz, Places) = Sum(dk, Places) + Sum(z, Places)
    BY <2>1, PlacesFinite, SumPlus
  <2>4. Sum(n, Places) = Sum(v, Places) + Sum(dkz, Places)
    BY <2>1, PlacesFinite, SumPlus
  <2>5. Sum(z, Places) \in Nat
    BY <1>18a, PlacesFinite, SumNat
  <2> QED
    BY <1>8, <1>18, <2>2, <2>3, <2>4, <2>5
<1>23. Sum(k, Places) \in Nat /\ (Sum(k, Places) # 0 => Kicks)
  <2>1. Sum(k, Places) \in Nat
    BY <1>19, PlacesFinite, SumNat
  <2>2. (\A x \in Places : k[x] = 0) => Sum(k, Places) = 0
    BY PlacesFinite, SumZero
  <2> QED
    BY <1>21, <2>1, <2>2
<1>24. /\ Total(handler.due) = 0 /\ Total(handler'.due) = Total(due)
       /\ Sum(wallet', Players) = Sum(wallet, Players)
       /\ Sum(Own(seat'), Places) = Sum(v, Places)
  BY <1>1, <1>11, TotalNone DEF Idle, v
<1>24a. burnt' = burnt + Sum(z, Places)
  <2>1. DOMAIN lost = Seats
    BY <1>8b
  <2> QED
    BY <1>1, <1>18a, <2>1 DEF SumFunction, Sum
<1>25. Booked' + Sum(k, Places) = Booked
  BY <1>0, <1>15, <1>22, <1>23, <1>24, <1>24a, Books, BooksNext
<1>26. Booked' \in Nat /\ Booked \in Nat
  BY <1>0, <1>15, Books, BooksNext
<1>27. Booked' <= Booked /\ (Booked' < Booked => Kicks)
  BY <1>23, <1>25, <1>26
<1> QED
  BY <1>15, <1>16, <1>17, <1>27 DEF Kept, Loss

-----------------------------------------------------------------------------
LEMMA StepKeeps ==
  ASSUME IInv, Next
  PROVE  Kept
<1>1. CASE Handle
  <2>1. ASSUME NEW p \in Players, Disconnect(p) PROVE Kept
    BY <2>1, DisconnectKeeps
  <2>2. ASSUME NEW p \in Players, NEW t \in Tables, NEW n \in BuyIns,
               NEW op \in {"join", "match"}, BuyIn(p, t, n, op)
        PROVE  Kept
    BY <2>2, BuyInKeeps
  <2>3. ASSUME NEW p \in Players, NEW t \in Tables,
               Connect(p, t) \/ LeaveTable(p, t) \/ GraceOver(t, p)
        PROVE  Kept
    BY <2>3, ConnectKeeps, LeaveTableKeeps, GraceOverKeeps
  <2>4. ASSUME NEW t \in Tables, NEW s \in Seats, Bet(t, s) \/ Fold(t, s)
        PROVE  Kept
    BY <2>4, BetKeeps, FoldKeeps
  <2>5. ASSUME NEW t \in Tables, StartHand(t)
        PROVE  Kept
    BY <2>5, StartHandKeeps
  <2>6. ASSUME NEW t \in Tables, NEW w \in InHand(t), NEW alerted \in Alerts(t),
               NEW lost \in Losses(t, w, alerted), EndHand(t, w, alerted, lost)
        PROVE  Kept
    BY <2>6, EndHandKeeps
  <2> QED
    BY <1>1, <2>1, <2>2, <2>3, <2>4, <2>5, <2>6 DEF Handle
<1>2. CASE Finish
  BY <1>2, JoinedKeeps, RefundKeeps, CreditKeeps, CreditFailsKeeps DEF Finish
<1>3. CASE Crash
  BY <1>3, CrashKeeps
<1> QED
  BY <1>1, <1>2, <1>3 DEF Next

LEMMA StepIInv == IInv /\ [Next]_vars => IInv'
<1> SUFFICES ASSUME IInv, [Next]_vars PROVE IInv'
  OBVIOUS
<1>1. CASE Next
  <2>1. Kept
    BY <1>1, StepKeeps
  <2>2. TypeOK /\ Booked \in Nat /\ Booked <= Purse * Cardinality(Players)
    BY Books DEF IInv, NoChipsMinted
  <2>3. Booked' \in Nat
    BY <2>1, BooksNext DEF Kept
  <2>4. Purse * Cardinality(Players) \in Nat
    BY CashierAssumption, FS_CardinalityType
  <2>5. Booked' <= Purse * Cardinality(Players)
    BY <2>1, <2>2, <2>3, <2>4 DEF Kept
  <2> QED
    BY <2>1, <2>5 DEF Kept, IInv, NoChipsMinted
<1>2. CASE UNCHANGED vars
  <2>1. TypeOK' /\ SeatsOK' /\ BuyInOK'
    BY <1>2 DEF vars, IInv, NoChipsMinted, TypeOK, SeatsOK, BuyInOK
  <2>2. Booked' = Booked
    BY <1>2 DEF vars, Booked, Worth, OnTables, Due
  <2> QED
    BY <2>1, <2>2 DEF IInv, NoChipsMinted
<1> QED
  BY <1>1, <1>2

(* The inductive invariant holds: seats nobody has own nothing, bets are   *)
(* on tables that play, and a handler that was not done with a buy-in has  *)
(* one buy-in to bring to the table.                                       *)
THEOREM CashierInvariant == Spec => []IInv
<1>1. Init => IInv
  BY InitIInv
<1>2. IInv /\ [Next]_vars => IInv'
  BY StepIInv
<1> QED
  BY <1>1, <1>2, PTL DEF Spec

(* However many players and tables there are and whatever fails, wallets,  *)
(* tables and what a handler still owes hold no more chips than the        *)
(* players started with, and no wallet is overdrawn.                       *)
THEOREM ChipsNeverMinted == Spec => []NoChipsMinted
<1>1. IInv => NoChipsMinted
  BY DEF IInv
<1> QED
  BY <1>1, CashierInvariant, PTL

(* And no chip is lost, but for those a hand is known to have ended        *)
(* without paying, other than by a crash, a credit the ledger refuses, a   *)
(* kick, or a folded player who leaves just his bet behind: the sweep at   *)
(* the end of a hand, whatever the hand burnt, forgets nobody's stack      *)
(* (poker_ws_server.cpp:1069-1104).                                        *)
THEOREM LossesExplained == Spec => LossExplained
<1>1. IInv /\ Next => (Booked' < Booked => Crash \/ CreditFails \/ Kicks \/ DeadMoneyLeaves)
  BY StepKeeps DEF Kept, Loss
<1>2. IInv /\ [Next]_vars => [Booked' < Booked => Crash \/ CreditFails \/ Kicks \/ DeadMoneyLeaves]_vars
  BY <1>1
<1> QED
  BY <1>2, CashierInvariant, PTL DEF Spec, LossExplained
=============================================================================
