-------------------------- MODULE TournamentProofs --------------------------
(***************************************************************************)
(* Proofs about TournamentDesk (and the manager of Tournament it runs),    *)
(* for any players, table size, stacks, fees, rebuys, add-ons, payouts and *)
(* faults: what is paid backs what is played, chairs and places agree with *)
(* who is in, and the last one in is paid first.                           *)
(***************************************************************************)
EXTENDS TournamentDesk, Sums, FunctionTheorems, TLAPS

(* Registered is the domain of entry throughout.                           *)
USE DEF Registered

(* The maps are functions, and everybody was told one of the tables.       *)
MapsOK ==
  /\ entry \in [Registered -> Entry]
  /\ list \in [DOMAIN list -> SUBSET Players]
  /\ Began => \A p \in Registered : entry[p].table \in DOMAIN list

(* Until it starts, everybody has what he bought, and is in.               *)
FreshOK ==
  ~Began =>
    /\ DOMAIN list = {}
    /\ \A p \in Registered :
         /\ ~entry[p].out
         /\ entry[p].rebuys = 0
         /\ entry[p].chips = StartingStack + (IF entry[p].addon THEN AddonStack ELSE 0)

(* Who is in has chips; who is out has none but those of an add-on.        *)
StacksOK ==
  \A p \in Registered :
    /\ ~entry[p].out => entry[p].chips > 0
    /\ entry[p].out => entry[p].addon \/ entry[p].chips = 0

(* A handler that took a cost still has all of it.                         *)
HandlerOK ==
  /\ handler.op = "join" => handler.due = EntryCost
  /\ handler.op = "rebuy" => handler.due = RebuyCost

(* The inductive invariant of all the theorems below.                      *)
IInv == PoolBacked /\ Seated /\ Places /\ MapsOK /\ FreshOK /\ StacksOK /\ HandlerOK

-----------------------------------------------------------------------------
(* Sums over the registered players.                                       *)
Chips(e) == [p \in DOMAIN e |-> e[p].chips]

Bought(e) == [p \in DOMAIN e |-> StartingStack + e[p].rebuys * RebuyStack
                                   + (IF e[p].addon THEN AddonStack ELSE 0)]

Paid(e) == [p \in DOMAIN e |-> EntryCost + e[p].rebuys * RebuyCost]

LEMMA Constants ==
  /\ IsFiniteSet(Players)
  /\ {StartingStack, PerTable, PaidPlaces, RebuyStack, MaxPlayers, Levels} \subseteq Nat \ {0}
  /\ {AddonStack, BuyIn, Fee, RebuyCost, AddonCost, EntryCost, Purse} \subseteq Nat
  BY TournamentAssumption, DeskAssumption DEF EntryCost

LEMMA TimesNat == \A m, n \in Nat : m * n \in Nat /\ (m + 1) * n = m * n + n
  OBVIOUS

(* A term for somebody new.                                                *)
LEMMA SumEnters ==
  ASSUME NEW S, IsFiniteSet(S), NEW e, e \notin S, NEW f, NEW g,
         \A x \in S : f[x] \in Int /\ g[x] = f[x], g[e] \in Int
  PROVE  Sum(g, S \cup {e}) = Sum(f, S) + g[e]
<1>1. Sum(g, S \cup {e}) = g[e] + Sum(g, S)
  BY SumAdd
<1>2. Sum(g, S) = Sum(f, S) /\ Sum(f, S) \in Int
  BY SumEqual, SumInt
<1> QED
  BY <1>1, <1>2

(* A term less.                                                            *)
LEMMA SumLeaves ==
  ASSUME NEW S, IsFiniteSet(S), NEW e \in S, NEW f, NEW g,
         \A x \in S : f[x] \in Int, \A x \in S \ {e} : g[x] = f[x]
  PROVE  Sum(g, S \ {e}) = Sum(f, S) - f[e]
<1>1. Sum(f, S) = f[e] + Sum(f, S \ {e})
  BY SumRemove
<1>2. IsFiniteSet(S \ {e})
  BY FS_Subset
<1>3. Sum(g, S \ {e}) = Sum(f, S \ {e}) /\ Sum(f, S \ {e}) \in Int
  BY <1>2, SumEqual, SumInt
<1> QED
  BY <1>1, <1>3

LEMMA TermsNat ==
  ASSUME NEW D, NEW e \in [D -> Entry]
  PROVE  /\ DOMAIN e = D
         /\ \A p \in D : /\ Chips(e)[p] = e[p].chips /\ Chips(e)[p] \in Nat
                         /\ Bought(e)[p] = StartingStack + e[p].rebuys * RebuyStack
                                             + (IF e[p].addon THEN AddonStack ELSE 0)
                         /\ Bought(e)[p] \in Nat
                         /\ Paid(e)[p] = EntryCost + e[p].rebuys * RebuyCost
                         /\ Paid(e)[p] \in Nat
<1> SUFFICES ASSUME NEW p \in D
             PROVE  /\ e[p].chips \in Nat
                    /\ StartingStack + e[p].rebuys * RebuyStack
                          + (IF e[p].addon THEN AddonStack ELSE 0) \in Nat
                    /\ EntryCost + e[p].rebuys * RebuyCost \in Nat
  BY DEF Chips, Bought, Paid
<1>1. e[p] \in Entry
  OBVIOUS
<1>2. e[p].chips \in Nat /\ e[p].rebuys \in Nat
  BY <1>1 DEF Entry
<1>3. e[p].rebuys * RebuyStack \in Nat /\ e[p].rebuys * RebuyCost \in Nat
  BY <1>2, Constants, TimesNat
<1> QED
  BY <1>2, <1>3, Constants

(* The fees and the prize pool without the add-ons are what was paid.      *)
LEMMA PoolPaid ==
  ASSUME NEW D, IsFiniteSet(D), NEW e \in [D -> Entry]
  PROVE  /\ PrizePool(e) - Unpaid(e) + Fees(e) = Sum(Paid(e), D)
         /\ {PrizePool(e), Unpaid(e), Fees(e), Sum(Paid(e), D)} \subseteq Int
<1> DEFINE addon == [p \in D |-> IF e[p].addon THEN AddonCost ELSE 0]
<1> DEFINE fee == [p \in D |-> Fee]
<1> DEFINE prize == [p \in D |-> BuyIn + e[p].rebuys * RebuyCost + (IF e[p].addon THEN AddonCost ELSE 0)]
<1> DEFINE both == [p \in D |-> prize[p] + fee[p]]
<1> DEFINE A == {p \in D : e[p].addon}
<1>0. DOMAIN e = D
  OBVIOUS
<1>1. \A p \in D : e[p].rebuys * RebuyCost \in Nat
  <2>1. \A p \in D : e[p].rebuys \in Nat
    BY DEF Entry
  <2> QED
    BY <2>1, Constants, TimesNat
<1>2. /\ \A p \in D : addon[p] \in Int /\ fee[p] \in Int /\ prize[p] \in Int /\ both[p] \in Int
      /\ \A p \in D : Paid(e)[p] \in Int
      /\ \A p \in D : both[p] = prize[p] + fee[p]
      /\ \A p \in D : both[p] = Paid(e)[p] + addon[p]
  BY <1>0, <1>1, Constants DEF Paid, EntryCost
<1>3. Sum(prize, D) = PrizePool(e)
  BY <1>0 DEF PrizePool, SumFunction, Sum
<1>4. Sum(fee, D) = Fees(e)
  <2>1. \A p \in D : fee[p] = Fee
    OBVIOUS
  <2> HIDE DEF fee
  <2>2. Sum(fee, D) = Fee * Cardinality(D)
    BY <2>1, Constants, SumConst
  <2> QED
    BY <1>0, <2>2 DEF Fees
<1>5. Sum(addon, D) = Unpaid(e)
  <2>1. /\ \A p \in A : addon[p] = AddonCost
        /\ \A p \in D \ A : addon[p] = 0
        /\ A \in SUBSET D /\ A \cup (D \ A) = D /\ A \cap (D \ A) = {}
    OBVIOUS
  <2>2. \A p \in A \cup (D \ A) : addon[p] \in Int
    BY <1>2, <2>1
  <2>3. Unpaid(e) = AddonCost * Cardinality(A)
    BY <1>0 DEF Unpaid
  <2> HIDE DEF addon, A
  <2>4. IsFiniteSet(A) /\ IsFiniteSet(D \ A)
    BY <2>1, FS_Subset
  <2>5. Sum(addon, A) = AddonCost * Cardinality(A)
    BY <2>1, <2>4, Constants, SumConst
  <2>6. Sum(addon, D \ A) = 0
    BY <2>1, <2>4, SumZero
  <2>7. Sum(addon, A \cup (D \ A)) = Sum(addon, A) + Sum(addon, D \ A)
    BY <2>1, <2>2, <2>4, SumUnion
  <2>8. Sum(addon, A) \in Int
    BY <2>2, <2>4, SumInt
  <2>9. Sum(addon, D) = Sum(addon, A \cup (D \ A))
    BY <2>1
  <2>10. Sum(addon, D) = Sum(addon, A)
    BY <2>6, <2>7, <2>8, <2>9
  <2> QED
    BY <2>3, <2>5, <2>10
<1> HIDE DEF addon, fee, prize, both, A
<1>6. Sum(both, D) = Sum(prize, D) + Sum(fee, D)
  BY <1>2, SumPlus
<1>7. Sum(both, D) = Sum(Paid(e), D) + Sum(addon, D)
  BY <1>2, SumPlus
<1>8. {Sum(prize, D), Sum(fee, D), Sum(addon, D), Sum(Paid(e), D)} \subseteq Int
  BY <1>2, SumInt
<1> QED
  BY <1>3, <1>4, <1>5, <1>6, <1>7, <1>8

(* What the promises say, with these sums.                                 *)
LEMMA WorthIs ==
  ASSUME MapsOK, wallet \in [Players -> Nat], IsFiniteSet(Registered), handler.due \in Nat
  PROVE  Worth = Sum(wallet, Players) + Sum(Paid(entry), Registered) + handler.due
<1>1. entry \in [Registered -> Entry]
  BY DEF MapsOK
<1>2. /\ PrizePool(entry) - Unpaid(entry) + Fees(entry) = Sum(Paid(entry), Registered)
      /\ {PrizePool(entry), Unpaid(entry), Fees(entry)} \subseteq Int
  BY <1>1, PoolPaid
<1>3. SumFunction(wallet) = Sum(wallet, Players)
  BY DEF SumFunction, Sum
<1>4. Sum(wallet, Players) \in Int
  BY Constants, SumInt
<1> QED
  BY <1>2, <1>3, <1>4 DEF Worth
LEMMA WorthNext ==
  ASSUME MapsOK', wallet' \in [Players -> Nat], IsFiniteSet(Registered'), handler'.due \in Nat
  PROVE  Worth' = Sum(wallet', Players) + Sum(Paid(entry'), Registered') + handler'.due
<1>1. entry' \in [Registered' -> Entry]
  BY DEF MapsOK
<1>2. /\ PrizePool(entry') - Unpaid(entry') + Fees(entry') = Sum(Paid(entry'), Registered')
      /\ {PrizePool(entry'), Unpaid(entry'), Fees(entry')} \subseteq Int
  BY <1>1, PoolPaid
<1>3. SumFunction(wallet') = Sum(wallet', Players)
  BY DEF SumFunction, Sum
<1>4. Sum(wallet', Players) \in Int
  BY Constants, SumInt
<1> QED
  BY <1>2, <1>3, <1>4 DEF Worth

(* ChipsSold of the entries e, with these sums.                            *)
SoldOf(e) ==
  LET chips == Sum(Chips(e), DOMAIN e)
      sold  == Sum(Bought(e), DOMAIN e)
  IN  /\ chips <= sold
      /\ (\A p \in DOMAIN e : ~(e[p].addon /\ e[p].rebuys > 0)) => chips = sold

LEMMA SoldIs ==
  /\ ChipsSold <=> SoldOf(entry)
  /\ ChipsSold' <=> SoldOf(entry')
<1>1. /\ SumFunction([p \in Registered |-> entry[p].chips]) = Sum(Chips(entry), Registered)
      /\ Sold(entry) = Sum(Bought(entry), Registered)
  BY DEF SumFunction, Sum, Chips, Sold, Bought
<1>2. /\ SumFunction([p \in Registered' |-> entry'[p].chips]) = Sum(Chips(entry'), Registered')
      /\ Sold(entry') = Sum(Bought(entry'), Registered')
  BY DEF SumFunction, Sum, Chips, Sold, Bought
<1> QED
  BY <1>1, <1>2 DEF ChipsSold, SoldOf

LEMMA SumsInt ==
  ASSUME NEW D, IsFiniteSet(D), NEW e \in [D -> Entry]
  PROVE  {Sum(Chips(e), D), Sum(Bought(e), D), Sum(Paid(e), D)} \subseteq Nat
  BY TermsNat, SumNat

(* Everybody is in: no places yet.                                         *)
LEMMA NoPlacesYet ==
  ASSUME NEW D, IsFiniteSet(D), NEW e, DOMAIN e = D, \A p \in D : ~e[p].out
  PROVE  {e[p].place : p \in D \ In(e)} = Cardinality(In(e)) .. Cardinality(D) - 1
<1>1. In(e) = D
  BY DEF In
<1>2. Cardinality(D) \in Nat
  BY FS_CardinalityType
<1> QED
  BY <1>1, <1>2

-----------------------------------------------------------------------------
(* What the manager keeps by itself.                                       *)
ManagerOK ==
  ManagerTypeOK /\ ChipsSold /\ Seated /\ Places /\ MapsOK /\ FreshOK /\ StacksOK

LEMMA RegisteredFinite ==
  ASSUME ManagerOK
  PROVE  IsFiniteSet(Registered)
  BY Constants, FS_Subset DEF ManagerOK, ManagerTypeOK

LEMMA NewEntryIs ==
  /\ NewEntry \in Entry
  /\ NewEntry.chips = StartingStack /\ ~NewEntry.out /\ NewEntry.rebuys = 0 /\ ~NewEntry.addon
  BY Constants DEF NewEntry, Entry

LEMMA RegisterKeeps ==
  ASSUME ManagerOK, NEW p \in Players, RegisterPlayer(p)
  PROVE  /\ ManagerOK'
         /\ Registered' = Registered \cup {p}
         /\ p \notin Registered
         /\ Sum(Paid(entry'), Registered') = Sum(Paid(entry), Registered) + EntryCost
<1>0. /\ entry \in [Registered -> Entry]
      /\ IsFiniteSet(Registered)
      /\ p \notin Registered
      /\ status = "registration" /\ status' = status /\ list' = list /\ level' = level /\ paid' = paid
  BY RegisteredFinite DEF ManagerOK, MapsOK, RegisterPlayer, MayRegister
<1>1. /\ Registered' = Registered \cup {p}
      /\ entry' \in [Registered' -> Entry]
      /\ entry'[p] = NewEntry
      /\ \A q \in Registered : entry'[q] = entry[q]
      /\ IsFiniteSet(Registered')
  <2>1. entry' = [q \in Registered \cup {p} |-> IF q = p THEN NewEntry ELSE entry[q]]
    BY DEF RegisterPlayer
  <2>2. Registered' = Registered \cup {p}
    BY <2>1
  <2>3. IsFiniteSet(Registered')
    BY <1>0, <2>2, FS_AddElement
  <2> QED
    BY <1>0, <2>1, <2>2, <2>3, NewEntryIs
<1>2. /\ Chips(entry')[p] = StartingStack /\ Bought(entry')[p] = StartingStack
      /\ Paid(entry')[p] = EntryCost
      /\ \A q \in Registered : /\ Chips(entry')[q] = Chips(entry)[q]
                               /\ Bought(entry')[q] = Bought(entry)[q]
                               /\ Paid(entry')[q] = Paid(entry)[q]
  <2>1. p \in Registered'
    BY <1>1
  <2>2. /\ Chips(entry')[p] = StartingStack
        /\ Bought(entry')[p] = StartingStack + 0 * RebuyStack + 0
        /\ Paid(entry')[p] = EntryCost + 0 * RebuyCost
    BY <1>1, <2>1, NewEntryIs, TermsNat
  <2>3. 0 * RebuyStack = 0 /\ 0 * RebuyCost = 0
    BY Constants
  <2>4. StartingStack + 0 + 0 = StartingStack /\ EntryCost + 0 = EntryCost
    BY Constants
  <2>5. \A q \in Registered : /\ Chips(entry')[q] = Chips(entry)[q]
                              /\ Bought(entry')[q] = Bought(entry)[q]
                              /\ Paid(entry')[q] = Paid(entry)[q]
    BY <1>1 DEF Chips, Bought, Paid
  <2> QED
    BY <2>2, <2>3, <2>4, <2>5
<1>3. /\ Sum(Chips(entry'), Registered') = Sum(Chips(entry), Registered) + StartingStack
      /\ Sum(Bought(entry'), Registered') = Sum(Bought(entry), Registered) + StartingStack
      /\ Sum(Paid(entry'), Registered') = Sum(Paid(entry), Registered) + EntryCost
  <2>1. \A q \in Registered : /\ Chips(entry)[q] \in Int /\ Bought(entry)[q] \in Int
                              /\ Paid(entry)[q] \in Int
    BY <1>0, TermsNat
  <2>2. StartingStack \in Int /\ EntryCost \in Int
    BY Constants
  <2>3. Sum(Chips(entry'), Registered \cup {p}) = Sum(Chips(entry), Registered) + StartingStack
    <3> DEFINE f == Chips(entry)
    <3> DEFINE g == Chips(entry')
    <3>1. /\ \A q \in Registered : f[q] \in Int /\ g[q] = f[q]
          /\ g[p] \in Int /\ g[p] = StartingStack
      BY <1>2, <2>1, <2>2
    <3> HIDE DEF f, g
    <3>2. Sum(g, Registered \cup {p}) = Sum(f, Registered) + g[p]
      BY <1>0, <3>1, SumEnters
    <3> QED
      BY <3>1, <3>2 DEF f, g
  <2>4. Sum(Bought(entry'), Registered \cup {p}) = Sum(Bought(entry), Registered) + StartingStack
    <3> DEFINE f == Bought(entry)
    <3> DEFINE g == Bought(entry')
    <3>1. /\ \A q \in Registered : f[q] \in Int /\ g[q] = f[q]
          /\ g[p] \in Int /\ g[p] = StartingStack
      BY <1>2, <2>1, <2>2
    <3> HIDE DEF f, g
    <3>2. Sum(g, Registered \cup {p}) = Sum(f, Registered) + g[p]
      BY <1>0, <3>1, SumEnters
    <3> QED
      BY <3>1, <3>2 DEF f, g
  <2>5. Sum(Paid(entry'), Registered \cup {p}) = Sum(Paid(entry), Registered) + EntryCost
    <3> DEFINE f == Paid(entry)
    <3> DEFINE g == Paid(entry')
    <3>1. /\ \A q \in Registered : f[q] \in Int /\ g[q] = f[q]
          /\ g[p] \in Int /\ g[p] = EntryCost
      BY <1>2, <2>1, <2>2
    <3> HIDE DEF f, g
    <3>2. Sum(g, Registered \cup {p}) = Sum(f, Registered) + g[p]
      BY <1>0, <3>1, SumEnters
    <3> QED
      BY <3>1, <3>2 DEF f, g
  <2> QED
    BY <1>1, <2>3, <2>4, <2>5
<1>4. ManagerTypeOK'
  <2>1. Registered' \subseteq Players
    BY <1>1 DEF ManagerOK, ManagerTypeOK
  <2>2. \A q \in Registered' : entry'[q] \in Entry
    BY <1>1
  <2> QED
    BY <1>0, <2>1, <2>2 DEF ManagerOK, ManagerTypeOK
<1>5. ChipsSold'
  <2>1. SoldOf(entry)
    BY SoldIs DEF ManagerOK
  <2>2. (\A q \in Registered' : ~(entry'[q].addon /\ entry'[q].rebuys > 0))
           => \A q \in Registered : ~(entry[q].addon /\ entry[q].rebuys > 0)
    BY <1>1
  <2>3. {Sum(Chips(entry), Registered), Sum(Bought(entry), Registered)} \subseteq Int
    BY <1>0, SumsInt
  <2>4. SoldOf(entry')
    BY <1>3, <2>1, <2>2, <2>3, Constants DEF SoldOf
  <2> QED
    BY <2>4, SoldIs
<1>6. Seated' /\ MapsOK'
  BY <1>0, <1>1 DEF Seated, Began, MapsOK, ManagerOK
<1>7. FreshOK' /\ StacksOK'
  <2>1. \A q \in Registered' : q \in Registered \/ q = p
    BY <1>1
  <2>2. \A q \in Registered :
          /\ ~entry[q].out /\ entry[q].rebuys = 0
          /\ entry[q].chips = StartingStack + (IF entry[q].addon THEN AddonStack ELSE 0)
    BY <1>0 DEF ManagerOK, FreshOK, Began
  <2>3. FreshOK'
    BY <1>0, <1>1, <2>1, <2>2, NewEntryIs, Constants DEF ManagerOK, FreshOK, Began
  <2>4. StacksOK'
    BY <1>1, <2>1, <2>2, NewEntryIs, Constants DEF StacksOK
  <2> QED
    BY <2>3, <2>4
<1>8. Places'
  <2>1. \A q \in Registered' : ~entry'[q].out
    BY <1>0, <1>7 DEF FreshOK, Began
  <2> QED
    BY <1>1, <2>1, NoPlacesYet DEF Places
<1> QED
  BY <1>0, <1>1, <1>3, <1>4, <1>5, <1>6, <1>7, <1>8 DEF ManagerOK

LEMMA UnregisterKeeps ==
  ASSUME ManagerOK, NEW p \in Players, UnregisterPlayer(p)
  PROVE  /\ ManagerOK'
         /\ Registered' = Registered \ {p}
         /\ p \in Registered
         /\ Sum(Paid(entry'), Registered') = Sum(Paid(entry), Registered) - EntryCost
<1>0. /\ entry \in [Registered -> Entry]
      /\ IsFiniteSet(Registered)
      /\ p \in Registered
      /\ status = "registration" /\ status' = status /\ list' = list /\ level' = level /\ paid' = paid
      /\ \A q \in Registered :
           /\ ~entry[q].out /\ entry[q].rebuys = 0
           /\ entry[q].chips = StartingStack + (IF entry[q].addon THEN AddonStack ELSE 0)
  BY RegisteredFinite DEF ManagerOK, MapsOK, UnregisterPlayer, FreshOK, Began
<1>1. /\ Registered' = Registered \ {p}
      /\ entry' \in [Registered' -> Entry]
      /\ \A q \in Registered' : entry'[q] = entry[q] /\ q \in Registered
      /\ IsFiniteSet(Registered')
  <2>1. entry' = [q \in Registered \ {p} |-> entry[q]]
    BY DEF UnregisterPlayer
  <2>2. Registered' = Registered \ {p}
    BY <2>1
  <2>3. IsFiniteSet(Registered')
    BY <1>0, <2>2, FS_RemoveElement
  <2> QED
    BY <1>0, <2>1, <2>2, <2>3
<1>2. /\ Chips(entry)[p] = Bought(entry)[p] /\ Paid(entry)[p] = EntryCost
      /\ \A q \in Registered' : /\ Chips(entry')[q] = Chips(entry)[q]
                                /\ Bought(entry')[q] = Bought(entry)[q]
                                /\ Paid(entry')[q] = Paid(entry)[q]
  <2>1. /\ Chips(entry)[p] = StartingStack + (IF entry[p].addon THEN AddonStack ELSE 0)
        /\ Bought(entry)[p] = StartingStack + 0 * RebuyStack + (IF entry[p].addon THEN AddonStack ELSE 0)
        /\ Paid(entry)[p] = EntryCost + 0 * RebuyCost
    BY <1>0, TermsNat
  <2>2. 0 * RebuyStack = 0 /\ 0 * RebuyCost = 0
    BY Constants
  <2>3. StartingStack + 0 = StartingStack /\ EntryCost + 0 = EntryCost
    BY Constants
  <2>4. \A q \in Registered' : /\ Chips(entry')[q] = Chips(entry)[q]
                               /\ Bought(entry')[q] = Bought(entry)[q]
                               /\ Paid(entry')[q] = Paid(entry)[q]
    BY <1>1 DEF Chips, Bought, Paid
  <2> QED
    BY <2>1, <2>2, <2>3, <2>4
<1>3. /\ Sum(Chips(entry'), Registered') = Sum(Chips(entry), Registered) - Chips(entry)[p]
      /\ Sum(Bought(entry'), Registered') = Sum(Bought(entry), Registered) - Bought(entry)[p]
      /\ Sum(Paid(entry'), Registered') = Sum(Paid(entry), Registered) - EntryCost
  <2>1. \A q \in Registered : /\ Chips(entry)[q] \in Int /\ Bought(entry)[q] \in Int
                              /\ Paid(entry)[q] \in Int
    BY <1>0, TermsNat
  <2>2. Sum(Chips(entry'), Registered \ {p}) = Sum(Chips(entry), Registered) - Chips(entry)[p]
    <3> DEFINE f == Chips(entry)
    <3> DEFINE g == Chips(entry')
    <3>1. /\ \A q \in Registered : f[q] \in Int
          /\ \A q \in Registered \ {p} : g[q] = f[q]
      BY <1>1, <1>2, <2>1
    <3> HIDE DEF f, g
    <3>2. Sum(g, Registered \ {p}) = Sum(f, Registered) - f[p]
      BY <1>0, <3>1, SumLeaves
    <3> QED
      BY <3>2 DEF f, g
  <2>3. Sum(Bought(entry'), Registered \ {p}) = Sum(Bought(entry), Registered) - Bought(entry)[p]
    <3> DEFINE f == Bought(entry)
    <3> DEFINE g == Bought(entry')
    <3>1. /\ \A q \in Registered : f[q] \in Int
          /\ \A q \in Registered \ {p} : g[q] = f[q]
      BY <1>1, <1>2, <2>1
    <3> HIDE DEF f, g
    <3>2. Sum(g, Registered \ {p}) = Sum(f, Registered) - f[p]
      BY <1>0, <3>1, SumLeaves
    <3> QED
      BY <3>2 DEF f, g
  <2>4. Sum(Paid(entry'), Registered \ {p}) = Sum(Paid(entry), Registered) - Paid(entry)[p]
    <3> DEFINE f == Paid(entry)
    <3> DEFINE g == Paid(entry')
    <3>1. /\ \A q \in Registered : f[q] \in Int
          /\ \A q \in Registered \ {p} : g[q] = f[q]
      BY <1>1, <1>2, <2>1
    <3> HIDE DEF f, g
    <3>2. Sum(g, Registered \ {p}) = Sum(f, Registered) - f[p]
      BY <1>0, <3>1, SumLeaves
    <3> QED
      BY <3>2 DEF f, g
  <2> QED
    BY <1>1, <1>2, <2>2, <2>3, <2>4
<1>4. ManagerTypeOK'
  <2>1. Registered' \subseteq Players
    BY <1>1 DEF ManagerOK, ManagerTypeOK
  <2>2. \A q \in Registered' : entry'[q] \in Entry
    BY <1>1
  <2> QED
    BY <1>0, <2>1, <2>2 DEF ManagerOK, ManagerTypeOK
<1>5. ChipsSold'
  <2>1. SoldOf(entry)
    BY SoldIs DEF ManagerOK
  <2>2. /\ \A q \in Registered : ~(entry[q].addon /\ entry[q].rebuys > 0)
        /\ {Sum(Chips(entry), Registered), Sum(Bought(entry), Registered), Chips(entry)[p]} \subseteq Int
    BY <1>0, SumsInt, TermsNat
  <2>3. SoldOf(entry')
    BY <1>2, <1>3, <2>1, <2>2 DEF SoldOf
  <2> QED
    BY <2>3, SoldIs
<1>6. Seated' /\ MapsOK'
  BY <1>0, <1>1 DEF Seated, Began, MapsOK, ManagerOK
<1>7. FreshOK' /\ StacksOK'
  <2>1. FreshOK'
    BY <1>0, <1>1 DEF ManagerOK, FreshOK, Began
  <2>2. StacksOK'
    BY <1>0, <1>1, Constants DEF StacksOK
  <2> QED
    BY <2>1, <2>2
<1>8. Places'
  <2>1. \A q \in Registered' : ~entry'[q].out
    BY <1>0, <1>1
  <2> QED
    BY <1>1, <2>1, NoPlacesYet DEF Places
<1> QED
  BY <1>0, <1>1, <1>3, <1>4, <1>5, <1>6, <1>7, <1>8 DEF ManagerOK

-----------------------------------------------------------------------------
(* The tables.                                                             *)
LEMMA MaxWithOne == \A n \in Nat : Max({1, n}) = IF n = 0 THEN 1 ELSE n
<1> SUFFICES ASSUME NEW n \in Nat PROVE Max({1, n}) = IF n = 0 THEN 1 ELSE n
  OBVIOUS
<1> DEFINE m == IF n = 0 THEN 1 ELSE n
<1>1. /\ m \in {1, n} /\ \A y \in {1, n} : m >= y
      /\ \A x \in {1, n} : (\A y \in {1, n} : x >= y) => x = m
  OBVIOUS
<1> HIDE DEF m
<1>2. Max({1, n}) = m
  BY <1>1 DEF Max
<1> QED
  BY <1>2 DEF m

LEMMA MinWithTwo == \A m, n \in Int : Min({m, n}) = IF m <= n THEN m ELSE n
<1> SUFFICES ASSUME NEW m \in Int, NEW n \in Int
             PROVE  Min({m, n}) = IF m <= n THEN m ELSE n
  OBVIOUS
<1> DEFINE k == IF m <= n THEN m ELSE n
<1>1. /\ k \in {m, n} /\ \A y \in {m, n} : k <= y
      /\ \A x \in {m, n} : (\A y \in {m, n} : x <= y) => x = k
  OBVIOUS
<1> HIDE DEF k
<1>2. Min({m, n}) = k
  BY <1>1 DEF Min
<1> QED
  BY <1>2 DEF k

LEMMA Division ==
  ASSUME NEW m \in Nat, NEW n \in Nat \ {0}
  PROVE  /\ m \div n \in Nat /\ m % n \in Nat /\ m % n < n
         /\ m = n * (m \div n) + (m % n)
<1>1. n \in Int /\ n > 0
  OBVIOUS
<1>2. m \div n \in Nat /\ m % n \in Nat /\ m % n < n
  BY <1>1
<1>3. m = n * (m \div n) + (m % n)
  BY <1>1
<1> QED
  BY <1>2, <1>3

LEMMA TimesMonotone == \A k, m \in Nat, n \in Nat : k <= m => n * k <= n * m
  OBVIOUS

(* Enough tables for everybody.                                            *)
LEMMA TablesEnough ==
  ASSUME NEW n \in Nat, n > 1
  PROVE  /\ TableCount(n) \in Nat \ {0}
         /\ \A k \in {n \div TableCount(n), (n + TableCount(n) - 1) \div TableCount(n)} :
              k <= PerTable
<1> DEFINE P == PerTable
<1> DEFINE q == n \div P
<1> DEFINE r == n % P
<1> DEFINE T == TableCount(n)
<1>0. P \in Nat \ {0}
  BY Constants
<1>1. q \in Nat /\ r \in Nat /\ r < P /\ n = P * q + r
  BY <1>0, Division
<1>2. T = (IF q = 0 THEN 1 ELSE q) + (IF r > 0 THEN 1 ELSE 0)
  BY <1>1, MaxWithOne DEF TableCount
<1> HIDE DEF P, q, r, T
<1>3. T \in Nat \ {0}
  BY <1>1, <1>2
<1>4. n <= P * T
  <2>1. CASE r = 0
    <3>1. P * 0 = 0
      BY <1>0
    <3>2. q # 0
      BY <1>1, <2>1, <3>1
    <3>3. T = q
      BY <1>1, <1>2, <2>1, <3>2
    <3>4. P * q \in Nat
      BY <1>0, <1>1
    <3> QED
      BY <1>1, <2>1, <3>3, <3>4
  <2>2. CASE r > 0
    <3>1. P * (q + 1) <= P * T
      BY <1>0, <1>1, <1>2, <1>3, <2>2, TimesMonotone
    <3>2. P * (q + 1) = P * q + P /\ P * q \in Nat
      BY <1>0, <1>1
    <3>3. P * T \in Nat
      BY <1>0, <1>3
    <3> QED
      BY <1>0, <1>1, <3>1, <3>2, <3>3
  <2> QED
    BY <1>1, <2>1, <2>2
<1>5. ASSUME NEW m \in Nat, m < P * T + T
      PROVE  m \div T <= P
  <2> DEFINE k == m \div T
  <2>1. k \in Nat /\ m % T \in Nat /\ m = T * k + (m % T)
    BY <1>3, Division
  <2> HIDE DEF k
  <2>2. ASSUME k > P PROVE FALSE
    <3>1. T * (P + 1) <= T * k
      BY <1>0, <1>3, <2>1, <2>2, TimesMonotone
    <3>2. T * (P + 1) = P * T + T /\ P * T \in Nat /\ T * k \in Nat
      BY <1>0, <1>3, <2>1
    <3> DEFINE x == P * T
    <3> DEFINE y == T * k
    <3>3. x \in Nat /\ y \in Nat /\ x + T <= y /\ m < x + T /\ m >= y
      <4>1. m % T \in Nat /\ m = y + (m % T) /\ y \in Nat
        BY <2>1, <3>2
      <4>2. m >= y
        BY <4>1
      <4> QED
        BY <1>5, <3>1, <3>2, <4>2
    <3> HIDE DEF x, y
    <3> QED
      BY <1>3, <3>3
  <2> QED
    BY <1>0, <2>1, <2>2 DEF k
<1>6. n < P * T + T /\ n + T - 1 < P * T + T /\ n + T - 1 \in Nat
  <2>1. P * T \in Nat
    BY <1>0, <1>3
  <2> QED
    BY <1>3, <1>4, <2>1
<1>7. n \div T <= P /\ (n + T - 1) \div T <= P
  BY <1>5, <1>6
<1> QED
  BY <1>3, <1>7 DEF P, T

(* Nothing but what the sums do not see.                                   *)
LEMMA SameSums ==
  ASSUME NEW e, NEW f, DOMAIN e = DOMAIN f
  PROVE  /\ (\A p \in DOMAIN e : e[p].chips = f[p].chips) => Chips(e) = Chips(f)
         /\ (\A p \in DOMAIN e : e[p].rebuys = f[p].rebuys)
              => /\ Paid(e) = Paid(f)
                 /\ (\A p \in DOMAIN e : e[p].addon = f[p].addon) => Bought(e) = Bought(f)
  BY DEF Chips, Paid, Bought

LEMMA StartKeeps ==
  ASSUME ManagerOK, Start
  PROVE  /\ ManagerOK'
         /\ Registered' = Registered
         /\ Paid(entry') = Paid(entry)
<1> DEFINE n == Cardinality(Registered)
<1> DEFINE T == TableCount(n)
<1>0. /\ entry \in [Registered -> Entry]
      /\ IsFiniteSet(Registered) /\ n \in Nat /\ n > 1
      /\ status = "registration" /\ status' = "running" /\ level' = level /\ paid' = paid
      /\ \A q \in Registered : ~entry[q].out /\ entry[q].rebuys = 0
  BY RegisteredFinite, FS_CardinalityType
     DEF ManagerOK, MapsOK, Start, FreshOK, Began
<1>1. PICK at \in [Registered -> 0 .. T - 1] :
        /\ \A t \in 0 .. T - 1 :
             Cardinality({p \in Registered : at[p] = t}) \in {n \div T, (n + T - 1) \div T}
        /\ entry' = [p \in Registered |-> [entry[p] EXCEPT !.table = at[p]]]
        /\ list' = [t \in 0 .. T - 1 |-> {p \in Registered : at[p] = t}]
  BY DEF Start, Dealt
<1>2. T \in Nat \ {0} /\ \A k \in {n \div T, (n + T - 1) \div T} : k <= PerTable
  BY <1>0, TablesEnough
<1> HIDE DEF n, T
<1>3. /\ Registered' = Registered
      /\ \A p \in Registered :
           /\ entry'[p] \in Entry
           /\ entry'[p].table = at[p] /\ at[p] \in 0 .. T - 1
           /\ entry'[p].out = entry[p].out /\ entry'[p].rebuys = entry[p].rebuys
           /\ entry'[p].chips = entry[p].chips /\ entry'[p].addon = entry[p].addon
  <2>1. Registered' = Registered
    BY <1>1
  <2>2. ASSUME NEW p \in Registered
        PROVE  /\ entry'[p] \in Entry
               /\ entry'[p].table = at[p] /\ at[p] \in 0 .. T - 1
               /\ entry'[p].out = entry[p].out /\ entry'[p].rebuys = entry[p].rebuys
               /\ entry'[p].chips = entry[p].chips /\ entry'[p].addon = entry[p].addon
    <3>1. entry'[p] = [entry[p] EXCEPT !.table = at[p]]
      BY <1>1
    <3>2. entry[p] \in Entry /\ at[p] \in 0 .. T - 1 /\ at[p] \in Int
      BY <1>0, <1>1
    <3> QED
      BY <3>1, <3>2 DEF Entry
  <2> QED
    BY <2>1, <2>2
<1>4. /\ Chips(entry') = Chips(entry) /\ Paid(entry') = Paid(entry)
      /\ Bought(entry') = Bought(entry)
  BY <1>3, SameSums
<1>5. entry' \in [Registered' -> Entry] /\ list' \in [DOMAIN list' -> SUBSET Players]
  <2>1. Registered \subseteq Players
    BY DEF ManagerOK, ManagerTypeOK
  <2> QED
    BY <1>1, <1>3, <2>1
<1>6. ManagerTypeOK' /\ MapsOK'
  <2>1. \A p \in Registered' : entry'[p].table \in DOMAIN list'
    BY <1>1, <1>3
  <2> QED
    BY <1>0, <1>3, <1>5, <2>1 DEF ManagerOK, ManagerTypeOK, MapsOK
<1>7. ChipsSold'
  <2>1. SoldOf(entry)
    BY SoldIs DEF ManagerOK
  <2>2. SoldOf(entry')
    BY <1>3, <1>4, <2>1 DEF SoldOf
  <2> QED
    BY <2>2, SoldIs
<1>8. FreshOK' /\ StacksOK'
  BY <1>0, <1>3 DEF FreshOK, StacksOK, Began, ManagerOK
<1>9. Places'
  BY <1>0, <1>3, NoPlacesYet DEF Places
<1>10. Seated'
  <2>1. ASSUME NEW t \in DOMAIN list'
        PROVE  /\ \A p \in list'[t] : p \in In(entry') /\ entry'[p].table = t
               /\ Cardinality(list'[t]) <= PerTable
    BY <1>0, <1>1, <1>2, <1>3 DEF In
  <2>2. ASSUME NEW p \in In(entry')
        PROVE  p \in list'[entry'[p].table]
    BY <1>1, <1>3 DEF In
  <2> QED
    BY <2>1, <2>2 DEF Seated
<1> QED
  BY <1>3, <1>4, <1>6, <1>7, <1>8, <1>9, <1>10 DEF ManagerOK

-----------------------------------------------------------------------------
(* Orders.                                                                 *)
LEMMA OrderIs ==
  ASSUME NEW S, IsFiniteSet(S), NEW order \in SetToSeqs(S)
  PROVE  /\ Cardinality(S) \in Nat
         /\ order \in [1 .. Cardinality(S) -> S] /\ order \in Seq(S)
         /\ Len(order) = Cardinality(S)
         /\ \A i, j \in 1 .. Cardinality(S) : order[i] = order[j] => i = j
         /\ \A x \in S : \E i \in 1 .. Cardinality(S) : order[i] = x
<1> DEFINE n == Cardinality(S)
<1>1. n \in Nat
  BY FS_CardinalityType
<1>2. order \in [1 .. n -> S] /\ \A i, j \in 1 .. n : order[i] = order[j] => i = j
  BY DEF SetToSeqs
<1> HIDE DEF n
<1>3. order \in Seq(S) /\ Len(order) = n
  BY <1>1, <1>2
<1>4. IsFiniteSet(1 .. n) /\ Cardinality(1 .. n) = n
  BY <1>1, FS_Interval
<1>5. order \in Injection(1 .. n, S)
  BY <1>2 DEF Injection, IsInjective
<1>6. order \in Surjection(1 .. n, S)
  BY <1>4, <1>5, FS_Injection DEF n
<1>7. \A x \in S : \E i \in 1 .. n : order[i] = x
  BY <1>6 DEF Surjection
<1> QED
  BY <1>1, <1>2, <1>3, <1>7 DEF n

(* As many of an order as prizes are paid.                                 *)
LEMMA PaidAre ==
  ASSUME NEW S, IsFiniteSet(S), S \subseteq Players, NEW s \in SetToSeqs(S)
  PROVE  /\ SubSeq(s, 1, Min({PaidPlaces, Len(s)})) \in Seq(Players)
         /\ DOMAIN SubSeq(s, 1, Min({PaidPlaces, Len(s)})) \subseteq 1 .. Len(s)
         /\ S # {} => 1 \in DOMAIN SubSeq(s, 1, Min({PaidPlaces, Len(s)}))
         /\ \A i \in DOMAIN SubSeq(s, 1, Min({PaidPlaces, Len(s)})) :
              SubSeq(s, 1, Min({PaidPlaces, Len(s)}))[i] = s[i]
<1> DEFINE k == Min({PaidPlaces, Len(s)})
<1>1. /\ s \in Seq(S) /\ Len(s) = Cardinality(S) /\ Len(s) \in Nat
  BY OrderIs
<1>2. PaidPlaces \in Int /\ PaidPlaces > 0
  BY Constants
<1>3. k = IF PaidPlaces <= Len(s) THEN PaidPlaces ELSE Len(s)
  BY <1>1, <1>2, MinWithTwo
<1>4. k \in 0 .. Len(s) /\ (S # {} => k > 0)
  <2>1. S # {} => Len(s) # 0
    BY <1>1, FS_EmptySet
  <2> HIDE DEF k
  <2> QED
    BY <1>1, <1>2, <1>3, <2>1
<1> HIDE DEF k
<1>5. s \in Seq(Players)
  BY <1>1
<1>6. /\ SubSeq(s, 1, k) \in Seq(Players)
      /\ DOMAIN SubSeq(s, 1, k) = 1 .. k
      /\ \A i \in 1 .. k : SubSeq(s, 1, k)[i] = s[i]
  BY <1>1, <1>4, <1>5
<1>7. 1 .. k \subseteq 1 .. Len(s) /\ (S # {} => 1 \in 1 .. k)
  BY <1>1, <1>4
<1>8. /\ SubSeq(s, 1, k) \in Seq(Players)
      /\ DOMAIN SubSeq(s, 1, k) \subseteq 1 .. Len(s)
      /\ S # {} => 1 \in DOMAIN SubSeq(s, 1, k)
      /\ \A i \in DOMAIN SubSeq(s, 1, k) : SubSeq(s, 1, k)[i] = s[i]
  BY <1>6, <1>7
<1> QED
  BY <1>8 DEF k

(* The place of each of them.                                              *)
LEMMA PlaceIs ==
  ASSUME NEW S, IsFiniteSet(S), NEW order \in SetToSeqs(S), NEW left \in Int
  PROVE  /\ \A i \in 1 .. Cardinality(S) : order[i] \in S /\ Place(left, order, order[i]) = left - i
         /\ \A x \in S : \E i \in 1 .. Cardinality(S) : order[i] = x /\ Place(left, order, x) = left - i
<1>1. /\ Cardinality(S) \in Nat
      /\ order \in [1 .. Cardinality(S) -> S]
      /\ Len(order) = Cardinality(S)
      /\ \A i, j \in 1 .. Cardinality(S) : order[i] = order[j] => i = j
      /\ \A x \in S : \E i \in 1 .. Cardinality(S) : order[i] = x
  BY OrderIs
<1>2. ASSUME NEW i \in 1 .. Cardinality(S)
      PROVE  Place(left, order, order[i]) = left - i
  <2> DEFINE k == CHOOSE j \in 1 .. Len(order) : order[j] = order[i]
  <2>1. k \in 1 .. Len(order) /\ order[k] = order[i]
    BY <1>1
  <2>2. k = i
    BY <1>1, <2>1
  <2> QED
    BY <2>2 DEF Place
<1> QED
  BY <1>1, <1>2

(* The players of a hand, and what they play it for.                       *)
Deal(t) == {p \in list[t] : entry[p].chips > 0}

LEMMA HandIs ==
  ASSUME ManagerOK, NEW t \in DOMAIN list, NEW stacks \in Hands(t)
  PROVE  /\ Began
         /\ Deal(t) \subseteq list[t] /\ Deal(t) \subseteq Registered
         /\ \A p \in list[t] : p \in Registered /\ ~entry[p].out /\ entry[p].table = t
         /\ DOMAIN stacks = Deal(t) /\ \A p \in Deal(t) : stacks[p] \in Nat
         /\ Sum(stacks, Deal(t)) = Sum(Chips(entry), Deal(t))
         /\ \E p \in Deal(t) : stacks[p] > 0
<1> DEFINE D == Deal(t)
<1>1. Began /\ entry \in [Registered -> Entry] /\ IsFiniteSet(Registered)
  BY RegisteredFinite DEF ManagerOK, FreshOK, MapsOK
<1>2. \A p \in list[t] : p \in Registered /\ ~entry[p].out /\ entry[p].table = t
  BY <1>1 DEF ManagerOK, Seated, In
<1>3. D \subseteq list[t] /\ D \subseteq Registered /\ \A p \in D : entry[p].chips > 0
  BY <1>2 DEF Deal
<1>4. IsFiniteSet(D)
  BY <1>1, <1>3, FS_Subset
<1> DEFINE chips == [p \in D |-> entry[p].chips]
<1>5. /\ ~(Cardinality(D) < 2)
      /\ stacks \in [D -> 0 .. SumFunction(chips)]
      /\ SumFunction(stacks) = SumFunction(chips)
  BY DEF Hands, Deal
<1>6. D # {}
  BY <1>5, FS_EmptySet
<1>7. SumFunction(chips) = Sum(chips, D) /\ SumFunction(stacks) = Sum(stacks, D)
  BY <1>5 DEF SumFunction, Sum
<1>8. \A p \in D : /\ Chips(entry)[p] \in Nat /\ chips[p] = Chips(entry)[p] /\ chips[p] > 0
                   /\ chips[p] \in Nat
  BY <1>1, <1>3, TermsNat
<1> HIDE DEF chips, D
<1>9. Sum(chips, D) = Sum(Chips(entry), D) /\ Sum(chips, D) \in Nat
  <2> DEFINE f == Chips(entry)
  <2>1. \A p \in D : f[p] \in Int /\ chips[p] = f[p] /\ chips[p] \in Nat
    BY <1>8
  <2> HIDE DEF f
  <2>2. Sum(chips, D) = Sum(f, D) /\ Sum(chips, D) \in Nat
    BY <1>4, <2>1, SumEqual, SumNat
  <2> QED
    BY <2>2 DEF f
<1>10. \A p \in D : stacks[p] \in Nat
  BY <1>5, <1>7, <1>9
<1>11. ASSUME \A p \in D : ~(stacks[p] > 0) PROVE FALSE
  <2>1. \A p \in D : stacks[p] = 0
    BY <1>10, <1>11
  <2>2. Sum(stacks, D) = 0
    BY <1>4, <2>1, SumZero
  <2>3. PICK p \in D : TRUE
    BY <1>6
  <2>4. Sum(chips, D) = chips[p] + Sum(chips, D \ {p})
    BY <1>4, <1>8, SumRemove
  <2>5. IsFiniteSet(D \ {p}) /\ \A q \in D \ {p} : chips[q] \in Nat
    BY <1>4, <1>8, FS_Subset
  <2>6. Sum(chips, D \ {p}) \in Nat
    BY <2>5, SumNat
  <2>7. chips[p] > 0 /\ chips[p] \in Nat
    BY <1>8
  <2> QED
    BY <1>5, <1>7, <2>2, <2>4, <2>6, <2>7
<1> QED
  BY <1>1, <1>2, <1>3, <1>5, <1>7, <1>9, <1>10, <1>11 DEF D

(* What a hand does.                                                       *)
LEMMA HandCompleteIs ==
  ASSUME ManagerOK, NEW t \in DOMAIN list, NEW stacks \in Hands(t), HandComplete(t, stacks),
         NEW busted, busted = Busted(t, stacks)
  PROVE  /\ busted \subseteq Deal(t) /\ IsFiniteSet(busted)
         /\ \A p \in Deal(t) : p \notin busted => stacks[p] > 0
         /\ status \in {"running", "final"} /\ status' \in {"running", "final", "completed"}
         /\ Registered' = Registered
         /\ In(entry') = In(entry) \ busted /\ busted \subseteq In(entry)
         /\ Cardinality(In(entry)) \in Nat
         /\ Cardinality(In(entry')) = Cardinality(In(entry)) - Cardinality(busted)
         /\ \E order \in SetToSeqs(busted) : \A p \in busted :
              entry'[p].place = Place(Cardinality(In(entry)), order, p)
         /\ \A p \in busted : entry'[p].chips = 0 /\ entry'[p].out
         /\ \A p \in Registered :
              /\ entry'[p] \in Entry
              /\ entry'[p].table = entry[p].table /\ entry'[p].rebuys = entry[p].rebuys
              /\ entry'[p].addon = entry[p].addon
              /\ p \notin busted => /\ entry'[p].out = entry[p].out
                                    /\ entry'[p].place = entry[p].place
              /\ entry'[p].chips = IF p \in Deal(t) THEN stacks[p] ELSE entry[p].chips
         /\ \E f : entry' = [p \in Registered |-> f[p]]
         /\ list' = [list EXCEPT ![t] = @ \ busted]
         /\ level' = level
<1> DEFINE left == Cardinality(In(entry))
<1>1. /\ entry \in [Registered -> Entry] /\ IsFiniteSet(Registered)
      /\ Deal(t) \subseteq Registered /\ DOMAIN stacks = Deal(t)
      /\ \A p \in Deal(t) : stacks[p] \in Nat /\ ~entry[p].out /\ p \in Registered
  BY RegisteredFinite, HandIs DEF ManagerOK, MapsOK
<1>2. /\ busted \subseteq Deal(t)
      /\ \A p \in busted : stacks[p] = 0
      /\ \A p \in Deal(t) : p \notin busted => stacks[p] > 0
  BY <1>1 DEF Busted
<1>3. IsFiniteSet(busted) /\ busted \subseteq In(entry) /\ IsFiniteSet(In(entry))
  <2>1. busted \subseteq In(entry) /\ In(entry) \subseteq Registered
    BY <1>1, <1>2 DEF In
  <2> QED
    BY <1>1, <2>1, FS_Subset
<1>4. PICK order \in SetToSeqs(busted) :
        entry' = [p \in Registered |->
                   IF p \in busted
                     THEN [entry[p] EXCEPT !.chips = 0, !.out = TRUE,
                                           !.place = Place(left, order, p)]
                   ELSE IF p \in DOMAIN stacks THEN [entry[p] EXCEPT !.chips = stacks[p]]
                   ELSE entry[p]]
  BY DEF HandComplete
<1>5. left \in Nat /\ Cardinality(busted) \in Nat /\ Cardinality(busted) <= left
  BY <1>3, FS_CardinalityType, FS_Subset
<1>6. ASSUME NEW p \in Registered
      PROVE  /\ entry'[p] \in Entry
             /\ entry'[p].table = entry[p].table /\ entry'[p].rebuys = entry[p].rebuys
             /\ entry'[p].addon = entry[p].addon
             /\ p \notin busted => /\ entry'[p].out = entry[p].out
                                   /\ entry'[p].place = entry[p].place
             /\ p \in busted => /\ entry'[p].out
                                /\ entry'[p].place = Place(left, order, p)
                                /\ entry'[p].chips = 0
             /\ entry'[p].chips = IF p \in Deal(t) THEN stacks[p] ELSE entry[p].chips
  <2>1. entry[p] \in Entry
    BY <1>1
  <2> HIDE DEF left
  <2>2. CASE p \in busted
    <3>1. entry'[p] = [entry[p] EXCEPT !.chips = 0, !.out = TRUE, !.place = Place(left, order, p)]
      BY <1>4, <2>2
    <3>2. Place(left, order, p) \in Nat
      <4>1. PICK i \in 1 .. Cardinality(busted) : Place(left, order, p) = left - i
        BY <1>3, <1>5, <2>2, PlaceIs
      <4> QED
        BY <1>5, <4>1
    <3>3. ASSUME NEW e \in Entry, NEW k \in Nat
          PROVE  [e EXCEPT !.chips = 0, !.out = TRUE, !.place = k] \in Entry
      BY DEF Entry
    <3>4. entry'[p] \in Entry
      BY <2>1, <3>1, <3>2, <3>3
    <3> QED
      BY <1>2, <2>1, <2>2, <3>1, <3>4 DEF Entry
  <2>3. CASE p \notin busted /\ p \in Deal(t)
    <3>1. entry'[p] = [entry[p] EXCEPT !.chips = stacks[p]] /\ stacks[p] \in Nat
      BY <1>1, <1>4, <2>3
    <3>2. entry'[p] \in Entry
      BY <2>1, <3>1 DEF Entry
    <3> QED
      BY <2>1, <2>3, <3>1, <3>2 DEF Entry
  <2>4. CASE p \notin Deal(t)
    <3>1. p \notin busted /\ entry'[p] = entry[p]
      BY <1>1, <1>2, <1>4, <2>4
    <3> QED
      BY <2>1, <2>4, <3>1
  <2> QED
    BY <2>2, <2>3, <2>4
<1>7. Registered' = Registered /\ \E f : entry' = [p \in Registered |-> f[p]]
  <2>1. Registered' = Registered
    BY <1>4
  <2>2. entry' = [p \in Registered |-> entry'[p]]
    BY <1>4
  <2> QED
    BY <2>1, <2>2
<1>8. In(entry') = In(entry) \ busted
  BY <1>6, <1>7 DEF In
<1>9. Cardinality(In(entry')) = left - Cardinality(busted)
  <2>1. In(entry) \cap busted = busted
    BY <1>3
  <2> QED
    BY <1>3, <1>8, <2>1, FS_Difference
<1>10. /\ status \in {"running", "final"} /\ status' \in {"running", "final", "completed"}
       /\ list' = [list EXCEPT ![t] = @ \ busted]
       /\ level' = level
  BY DEF HandComplete, Vacated
<1>11. \E o \in SetToSeqs(busted) : \A p \in busted :
         entry'[p].place = Place(Cardinality(In(entry)), o, p)
  BY <1>1, <1>2, <1>6
<1>12. \A p \in busted : entry'[p].chips = 0 /\ entry'[p].out
  BY <1>1, <1>2, <1>6
<1> QED
  BY <1>2, <1>3, <1>5, <1>6, <1>7, <1>8, <1>9, <1>10, <1>11, <1>12

(* The places of the busted follow those of the others.                    *)
LEMMA HandPlaces ==
  ASSUME ManagerOK, NEW t \in DOMAIN list, NEW stacks \in Hands(t), HandComplete(t, stacks)
  PROVE  Places'
<1> SUFFICES ASSUME \A p \in Registered' : entry'[p].rebuys = 0
             PROVE  {entry'[p].place : p \in Registered' \ In(entry')}
                       = Cardinality(In(entry')) .. Cardinality(Registered') - 1
  BY DEF Places
<1> DEFINE busted == Busted(t, stacks)
<1> DEFINE left == Cardinality(In(entry))
<1> DEFINE b == Cardinality(busted)
<1> DEFINE n == Cardinality(Registered)
<1> HIDE DEF busted
<1>1. /\ Registered' = Registered
      /\ In(entry') = In(entry) \ busted /\ busted \subseteq In(entry)
      /\ IsFiniteSet(busted)
      /\ left \in Nat
      /\ Cardinality(In(entry')) = left - b
      /\ \A p \in Registered :
           /\ entry'[p].rebuys = entry[p].rebuys
           /\ p \notin busted => entry'[p].place = entry[p].place
  BY HandCompleteIs DEF busted
<1>2. PICK order \in SetToSeqs(busted) :
        \A p \in busted : entry'[p].place = Place(left, order, p)
  BY HandCompleteIs DEF busted
<1>3. In(entry) \subseteq Registered /\ IsFiniteSet(Registered)
  BY RegisteredFinite DEF In
<1>4. n \in Nat /\ left <= n /\ b \in Nat /\ b <= left
  <2>1. IsFiniteSet(In(entry))
    BY <1>3, FS_Subset
  <2> QED
    BY <1>1, <1>3, <2>1, FS_CardinalityType, FS_Subset
<1>5. {entry[p].place : p \in Registered \ In(entry)} = left .. n - 1
  BY <1>1 DEF ManagerOK, Places
<1>6. /\ \A i \in 1 .. b : order[i] \in busted /\ Place(left, order, order[i]) = left - i
      /\ \A x \in busted : \E i \in 1 .. b : order[i] = x /\ Place(left, order, x) = left - i
  BY <1>1, PlaceIs
<1> HIDE DEF left, b, n
<1>7. Registered' \ In(entry') = (Registered \ In(entry)) \cup busted
  BY <1>1, <1>3
<1>8. ASSUME NEW p \in Registered' \ In(entry') PROVE entry'[p].place \in left - b .. n - 1
  <2>1. CASE p \in busted
    <3>1. PICK i \in 1 .. b : Place(left, order, p) = left - i
      BY <1>6, <2>1
    <3>2. entry'[p].place = left - i
      BY <1>2, <2>1, <3>1
    <3> QED
      BY <1>1, <1>4, <3>2
  <2>2. CASE p \in Registered \ In(entry) /\ p \notin busted
    <3>1. entry'[p].place = entry[p].place /\ entry[p].place \in left .. n - 1
      BY <1>1, <1>5, <2>2
    <3> QED
      BY <1>1, <1>4, <3>1
  <2> QED
    BY <1>7, <2>1, <2>2
<1>9. ASSUME NEW k \in left - b .. n - 1
      PROVE  \E p \in Registered' \ In(entry') : entry'[p].place = k
  <2>1. CASE k < left
    <3>1. left - k \in 1 .. b
      BY <1>1, <1>4, <2>1
    <3>2. order[left - k] \in busted /\ Place(left, order, order[left - k]) = left - (left - k)
      BY <1>6, <3>1
    <3>3. entry'[order[left - k]].place = k
      BY <1>1, <1>2, <1>4, <3>2
    <3> QED
      BY <1>7, <3>2, <3>3
  <2>2. CASE k >= left
    <3>1. k \in left .. n - 1
      BY <1>1, <1>4, <2>2
    <3>2. PICK p \in Registered \ In(entry) : entry[p].place = k
      BY <1>5, <3>1
    <3>3. p \notin busted
      BY <1>1, <3>2
    <3> QED
      BY <1>1, <1>7, <3>2, <3>3
  <2> QED
    BY <1>1, <1>4, <2>1, <2>2
<1>10. {entry'[p].place : p \in Registered' \ In(entry')} = left - b .. n - 1
  BY <1>8, <1>9
<1> QED
  BY <1>1, <1>10 DEF n

LEMMA HandKeeps ==
  ASSUME ManagerOK, NEW t \in DOMAIN list, NEW stacks \in Hands(t), HandComplete(t, stacks)
  PROVE  /\ ManagerOK'
         /\ Registered' = Registered
         /\ Paid(entry') = Paid(entry)
<1> DEFINE busted == Busted(t, stacks)
<1> DEFINE D == Deal(t)
<1> HIDE DEF busted
<1>0. /\ Began /\ D \subseteq Registered
      /\ \A p \in list[t] : p \in Registered /\ ~entry[p].out /\ entry[p].table = t
      /\ \A p \in D : stacks[p] \in Nat /\ p \in list[t]
      /\ Sum(stacks, D) = Sum(Chips(entry), D)
  BY HandIs
<1>1. /\ entry \in [Registered -> Entry] /\ list \in [DOMAIN list -> SUBSET Players]
      /\ Registered \subseteq Players /\ IsFiniteSet(Registered)
  BY RegisteredFinite DEF ManagerOK, MapsOK, ManagerTypeOK
<1>2. /\ busted \subseteq D
      /\ \A p \in D : p \notin busted => stacks[p] > 0
      /\ status' \in {"running", "final", "completed"}
      /\ Registered' = Registered
      /\ In(entry') = In(entry) \ busted
      /\ \A p \in busted : entry'[p].chips = 0 /\ entry'[p].out
      /\ list' = [list EXCEPT ![t] = @ \ busted]
      /\ level' = level
      /\ \E f : entry' = [p \in Registered |-> f[p]]
  BY HandCompleteIs DEF busted
<1>3. ASSUME NEW p \in Registered
      PROVE  /\ entry'[p] \in Entry
             /\ entry'[p].table = entry[p].table /\ entry'[p].rebuys = entry[p].rebuys
             /\ entry'[p].addon = entry[p].addon
             /\ p \notin busted => entry'[p].out = entry[p].out
             /\ entry'[p].chips = IF p \in D THEN stacks[p] ELSE entry[p].chips
  BY HandCompleteIs DEF busted
<1> HIDE DEF D
<1>4. entry' \in [Registered' -> Entry]
  BY <1>2, <1>3
<1>5. list' \in [DOMAIN list' -> SUBSET Players] /\ DOMAIN list' = DOMAIN list
  BY <1>1, <1>2
<1>6. Paid(entry') = Paid(entry) /\ Bought(entry') = Bought(entry)
  BY <1>2, <1>3, SameSums
<1>7. Sum(Chips(entry'), Registered) = Sum(Chips(entry), Registered)
  <2> DEFINE f == Chips(entry)
  <2> DEFINE g == Chips(entry')
  <2> DEFINE R == Registered \ D
  <2>1. /\ \A p \in Registered : f[p] \in Int /\ g[p] \in Int
        /\ \A p \in D : g[p] = stacks[p] /\ stacks[p] \in Int
        /\ \A p \in R : g[p] = f[p]
    BY <1>0, <1>1, <1>2, <1>3, <1>4, TermsNat
  <2>2. /\ IsFiniteSet(D) /\ IsFiniteSet(R)
        /\ D \cup R = Registered /\ D \cap R = {}
    BY <1>0, <1>1, FS_Subset
  <2>3. Sum(stacks, D) = Sum(f, D)
    BY <1>0
  <2> HIDE DEF f, g, R
  <2>4. \A p \in D \cup R : f[p] \in Int /\ g[p] \in Int
    BY <2>1, <2>2
  <2>5. Sum(f, D \cup R) = Sum(f, D) + Sum(f, R)
    BY <2>2, <2>4, SumUnion
  <2>6. Sum(g, D \cup R) = Sum(g, D) + Sum(g, R)
    BY <2>2, <2>4, SumUnion
  <2>7. Sum(g, D) = Sum(stacks, D)
    BY <2>1, <2>2, SumEqual
  <2>8. Sum(g, R) = Sum(f, R)
    BY <2>1, <2>2, <2>4, SumEqual
  <2>9. Sum(f, D \cup R) = Sum(f, Registered) /\ Sum(g, D \cup R) = Sum(g, Registered)
    BY <2>2
  <2>10. Sum(g, Registered) = Sum(f, Registered)
    BY <2>3, <2>5, <2>6, <2>7, <2>8, <2>9
  <2> QED
    BY <2>10 DEF f, g
<1>8. paid' \in Seq(Players)
  <2>1. CASE paid' = paid
    BY <2>1 DEF ManagerOK, ManagerTypeOK
  <2>2. CASE paid' \in Payouts(entry')
    <3>1. PICK s \in SetToSeqs(Registered) : paid' = SubSeq(s, 1, Min({PaidPlaces, Len(s)}))
      BY <1>2, <2>2 DEF Payouts
    <3> QED
      BY <1>1, <3>1, PaidAre
  <2> QED
    BY <2>1, <2>2 DEF HandComplete
<1>9. ManagerTypeOK' /\ MapsOK'
  <2>1. \A p \in Registered : entry[p].table \in DOMAIN list
    BY <1>0 DEF ManagerOK, MapsOK
  <2>2. \A p \in Registered' : entry'[p].table \in DOMAIN list'
    BY <1>2, <1>3, <1>5, <2>1
  <2> QED
    BY <1>1, <1>2, <1>4, <1>5, <1>8, <2>2 DEF ManagerOK, ManagerTypeOK, MapsOK
<1>10. ChipsSold'
  <2>1. SoldOf(entry)
    BY SoldIs DEF ManagerOK
  <2>2. SoldOf(entry')
    BY <1>2, <1>3, <1>6, <1>7, <2>1 DEF SoldOf
  <2> QED
    BY <2>2, SoldIs
<1>11. FreshOK' /\ StacksOK'
  <2>1. FreshOK'
    BY <1>2 DEF FreshOK, Began
  <2>2. ASSUME NEW p \in Registered
        PROVE  /\ ~entry'[p].out => entry'[p].chips > 0
               /\ entry'[p].out => entry'[p].addon \/ entry'[p].chips = 0
    <3>1. CASE p \in busted
      BY <1>2, <3>1
    <3>2. CASE p \in D /\ p \notin busted
      BY <1>0, <1>2, <1>3, <3>2
    <3>3. CASE p \notin D
      BY <1>2, <1>3, <3>3 DEF ManagerOK, StacksOK
    <3> QED
      BY <3>1, <3>2, <3>3
  <2> QED
    BY <1>2, <2>1, <2>2 DEF StacksOK
<1>12. Seated'
  <2>1. /\ \A u \in DOMAIN list : /\ \A p \in list[u] : p \in In(entry) /\ entry[p].table = u
                                  /\ Cardinality(list[u]) <= PerTable
        /\ \A p \in In(entry) : entry[p].rebuys = 0 => p \in list[entry[p].table]
    BY <1>0 DEF ManagerOK, Seated
  <2>2. ASSUME NEW u \in DOMAIN list
        PROVE  /\ list'[u] \subseteq list[u]
               /\ \A p \in list[u] : p \notin busted => p \in list'[u]
               /\ \A p \in list'[u] : p \notin busted
    <3>1. \A p \in busted : p \in list[t]
      BY <1>0, <1>2
    <3>2. CASE u = t
      BY <1>1, <1>2, <3>2
    <3>3. CASE u # t
      <4>1. list'[u] = list[u]
        BY <1>1, <1>2, <3>3
      <4>2. \A p \in list[u] : p \notin list[t]
        BY <2>1, <3>3
      <4> QED
        BY <3>1, <4>1, <4>2
    <3> QED
      BY <3>2, <3>3
  <2>3. ASSUME NEW u \in DOMAIN list'
        PROVE  /\ \A p \in list'[u] : p \in In(entry') /\ entry'[p].table = u
               /\ Cardinality(list'[u]) <= PerTable
    <3>1. \A p \in list'[u] : p \in In(entry') /\ p \in Registered /\ entry'[p].table = u
      BY <1>2, <1>3, <1>5, <2>1, <2>2 DEF In
    <3>2. IsFiniteSet(list[u]) /\ Cardinality(list[u]) <= PerTable
      BY <1>1, <1>5, <2>1, Constants, FS_Subset
    <3>3. IsFiniteSet(list'[u]) /\ Cardinality(list'[u]) <= Cardinality(list[u])
      BY <1>5, <2>2, <3>2, FS_Subset
    <3>4. Cardinality(list'[u]) \in Nat /\ Cardinality(list[u]) \in Nat
      BY <3>2, <3>3, FS_CardinalityType
    <3> QED
      BY <3>1, <3>2, <3>3, <3>4, Constants
  <2>4. ASSUME NEW p \in In(entry'), entry'[p].rebuys = 0
        PROVE  p \in list'[entry'[p].table]
    <3>1. p \in In(entry) /\ p \notin busted /\ p \in Registered
      BY <1>2 DEF In
    <3>2. p \in list[entry[p].table] /\ entry'[p].table = entry[p].table
      BY <1>3, <2>1, <2>4, <3>1
    <3>3. entry[p].table \in DOMAIN list
      BY <1>0, <3>1 DEF ManagerOK, MapsOK
    <3> QED
      BY <2>2, <3>1, <3>2, <3>3
  <2> QED
    BY <2>3, <2>4 DEF Seated
<1>13. Places'
  BY HandPlaces
<1> QED
  BY <1>2, <1>6, <1>9, <1>10, <1>11, <1>12, <1>13 DEF ManagerOK

-----------------------------------------------------------------------------
(* One entry changes, and nobody comes in who was out.                     *)
LEMMA AddonKeeps ==
  ASSUME ManagerOK, NEW p \in Players, Addon(p)
  PROVE  /\ ManagerOK'
         /\ Registered' = Registered
         /\ Paid(entry') = Paid(entry)
<1>0. /\ entry \in [Registered -> Entry] /\ IsFiniteSet(Registered) /\ p \in Registered
      /\ entry[p] \in Entry
      /\ ~entry[p].addon
      /\ status' = status /\ list' = list /\ level' = level /\ paid' = paid
  BY RegisteredFinite DEF ManagerOK, MapsOK, Addon
<1>1. entry' = [entry EXCEPT ![p].chips = @ + AddonStack, ![p].addon = TRUE]
  BY DEF Addon
<1>2. /\ Registered' = Registered
      /\ \A q \in Registered : q # p => entry'[q] = entry[q]
      /\ entry'[p] \in Entry
      /\ entry'[p].chips = entry[p].chips + AddonStack /\ entry'[p].addon
      /\ entry'[p].rebuys = entry[p].rebuys /\ entry'[p].out = entry[p].out
      /\ entry'[p].table = entry[p].table /\ entry'[p].place = entry[p].place
  <2>1. /\ Registered' = Registered
        /\ \A q \in Registered : q # p => entry'[q] = entry[q]
        /\ entry'[p] = [entry[p] EXCEPT !.chips = entry[p].chips + AddonStack, !.addon = TRUE]
    BY <1>0, <1>1 DEF Entry
  <2>2. ASSUME NEW e \in Entry, NEW c \in Nat
        PROVE  [e EXCEPT !.chips = c, !.addon = TRUE] \in Entry
    BY DEF Entry
  <2>3. entry[p].chips + AddonStack \in Nat
    BY <1>0, Constants DEF Entry
  <2>4. entry'[p] \in Entry
    BY <1>0, <2>1, <2>2, <2>3
  <2> QED
    BY <1>0, <2>1, <2>4 DEF Entry
<1>3. /\ entry' \in [Registered' -> Entry]
      /\ \A q \in Registered :
           /\ entry'[q].rebuys = entry[q].rebuys /\ entry'[q].out = entry[q].out
           /\ entry'[q].table = entry[q].table /\ entry'[q].place = entry[q].place
  BY <1>0, <1>1, <1>2
<1>4. Paid(entry') = Paid(entry)
  BY <1>2, <1>3, SameSums
<1>5. /\ Sum(Chips(entry'), Registered) = Sum(Chips(entry), Registered) + AddonStack
      /\ Sum(Bought(entry'), Registered) = Sum(Bought(entry), Registered) + AddonStack
  <2> DEFINE f == Chips(entry)
  <2> DEFINE g == Chips(entry')
  <2> DEFINE h == Bought(entry)
  <2> DEFINE k == Bought(entry')
  <2>1. \A q \in Registered : {f[q], g[q], h[q], k[q]} \subseteq Int
    BY <1>0, <1>2, <1>3, TermsNat
  <2>2. \A q \in Registered \ {p} : g[q] = f[q] /\ k[q] = h[q]
    BY <1>2 DEF Chips, Bought
  <2>3. g[p] = f[p] + AddonStack
    BY <1>0, <1>2 DEF Chips
  <2>4. k[p] = h[p] + AddonStack
    <3>1. /\ h[p] = StartingStack + entry[p].rebuys * RebuyStack + 0
          /\ k[p] = StartingStack + entry[p].rebuys * RebuyStack + AddonStack
      BY <1>0, <1>2 DEF Bought
    <3>2. StartingStack + entry[p].rebuys * RebuyStack \in Int
      <4>1. entry[p].rebuys \in Nat
        BY <1>0 DEF Entry
      <4> QED
        BY <4>1, Constants, TimesNat
    <3> HIDE DEF h, k
    <3> QED
      BY <3>1, <3>2, Constants
  <2> HIDE DEF f, g, h, k
  <2>5. Sum(g, Registered) = Sum(f, Registered) - f[p] + g[p]
    BY <1>0, <2>1, <2>2, SumChanged
  <2>6. Sum(k, Registered) = Sum(h, Registered) - h[p] + k[p]
    BY <1>0, <2>1, <2>2, SumChanged
  <2>7. /\ Sum(f, Registered) \in Int /\ Sum(h, Registered) \in Int
        /\ f[p] \in Int /\ h[p] \in Int /\ AddonStack \in Int
    BY <1>0, <2>1, SumInt, Constants
  <2>8. /\ Sum(g, Registered) = Sum(f, Registered) + AddonStack
        /\ Sum(k, Registered) = Sum(h, Registered) + AddonStack
    BY <2>3, <2>4, <2>5, <2>6, <2>7
  <2> QED
    BY <2>8 DEF f, g, h, k
<1>6. ManagerTypeOK' /\ MapsOK'
  BY <1>0, <1>2, <1>3 DEF ManagerOK, ManagerTypeOK, MapsOK, Began
<1>7. ChipsSold'
  <2>1. SoldOf(entry) /\ {Sum(Chips(entry), Registered), Sum(Bought(entry), Registered)} \subseteq Int
    BY <1>0, SoldIs, SumsInt DEF ManagerOK
  <2>2. (\A q \in Registered' : ~(entry'[q].addon /\ entry'[q].rebuys > 0))
           => \A q \in Registered : ~(entry[q].addon /\ entry[q].rebuys > 0)
    BY <1>0, <1>2
  <2>3. SoldOf(entry')
    BY <1>2, <1>5, <2>1, <2>2, Constants DEF SoldOf
  <2> QED
    BY <2>3, SoldIs
<1>8. FreshOK' /\ StacksOK'
  <2>1. FreshOK'
    <3> SUFFICES ASSUME ~Began', NEW q \in Registered
                 PROVE  /\ ~entry'[q].out /\ entry'[q].rebuys = 0
                        /\ entry'[q].chips
                             = StartingStack + (IF entry'[q].addon THEN AddonStack ELSE 0)
      BY <1>0, <1>2 DEF FreshOK, Began, ManagerOK
    <3>1. /\ ~entry[q].out /\ entry[q].rebuys = 0
          /\ entry[q].chips = StartingStack + (IF entry[q].addon THEN AddonStack ELSE 0)
      BY <1>0 DEF FreshOK, Began, ManagerOK
    <3>2. CASE q = p
      BY <1>0, <1>2, <3>1, <3>2, Constants
    <3>3. CASE q # p
      BY <1>2, <3>1, <3>3
    <3> QED
      BY <3>2, <3>3
  <2>2. entry[p].chips \in Nat
    BY <1>0 DEF Entry
  <2>3. StacksOK'
    BY <1>0, <1>2, <2>2, Constants DEF StacksOK, ManagerOK
  <2> QED
    BY <2>1, <2>3
<1>9. In(entry') = In(entry)
  BY <1>2, <1>3 DEF In
<1>10. Seated'
  BY <1>0, <1>2, <1>3, <1>9 DEF Seated, Began, ManagerOK, In
<1>11. Places'
  <2>1. {entry'[q].place : q \in Registered \ In(entry)} = {entry[q].place : q \in Registered \ In(entry)}
    BY <1>3
  <2> QED
    BY <1>2, <1>3, <1>9, <2>1 DEF Places, ManagerOK
<1> QED
  BY <1>2, <1>4, <1>6, <1>7, <1>8, <1>10, <1>11 DEF ManagerOK

(* Who rebuys was out: who is in has chips.                                *)
LEMMA RebuyKeeps ==
  ASSUME ManagerOK, NEW p \in Players, Rebuy(p)
  PROVE  /\ ManagerOK'
         /\ Registered' = Registered
         /\ Sum(Paid(entry'), Registered') = Sum(Paid(entry), Registered) + RebuyCost
<1>0. /\ entry \in [Registered -> Entry] /\ IsFiniteSet(Registered) /\ p \in Registered
      /\ entry[p] \in Entry
      /\ status' = status /\ list' = list /\ level' = level /\ paid' = paid
  BY RegisteredFinite DEF ManagerOK, MapsOK, Rebuy, MayRebuy
<1>1. entry[p].out /\ Began /\ entry[p].rebuys \in Nat /\ entry[p].chips \in Nat
      /\ (entry[p].addon \/ entry[p].chips = 0)
  <2>1. entry[p].rebuys \in Nat /\ entry[p].chips \in Nat
    BY <1>0 DEF Entry
  <2>2. entry[p].out
    BY <1>0, <2>1 DEF Rebuy, MayRebuy, ManagerOK, StacksOK
  <2> QED
    BY <1>0, <2>1, <2>2 DEF ManagerOK, StacksOK, FreshOK
<1>2. entry' = [entry EXCEPT ![p].chips = RebuyStack, ![p].rebuys = @ + 1, ![p].out = FALSE]
  BY DEF Rebuy
<1>3. /\ Registered' = Registered
      /\ \A q \in Registered : q # p => entry'[q] = entry[q]
      /\ entry'[p] \in Entry
      /\ entry'[p].chips = RebuyStack /\ entry'[p].addon = entry[p].addon
      /\ entry'[p].rebuys = entry[p].rebuys + 1 /\ ~entry'[p].out
      /\ entry'[p].table = entry[p].table
  <2>1. /\ Registered' = Registered
        /\ \A q \in Registered : q # p => entry'[q] = entry[q]
        /\ entry'[p] = [entry[p] EXCEPT !.chips = RebuyStack, !.rebuys = entry[p].rebuys + 1,
                                       !.out = FALSE]
    BY <1>0, <1>2 DEF Entry
  <2>2. ASSUME NEW e \in Entry, NEW c \in Nat, NEW n \in Nat
        PROVE  [e EXCEPT !.chips = c, !.rebuys = n, !.out = FALSE] \in Entry
    BY DEF Entry
  <2> DEFINE k == entry[p].rebuys + 1
  <2>3. RebuyStack \in Nat /\ k \in Nat
    BY <1>1, Constants
  <2> HIDE DEF k
  <2>4. entry'[p] \in Entry
    <3>1. [entry[p] EXCEPT !.chips = RebuyStack, !.rebuys = k, !.out = FALSE] \in Entry
      BY <1>0, <2>2, <2>3
    <3> QED
      BY <2>1, <3>1 DEF k
  <2> QED
    BY <1>0, <2>1, <2>4 DEF Entry
<1>4. entry' \in [Registered' -> Entry]
  BY <1>0, <1>2, <1>3
<1>5. /\ Sum(Chips(entry'), Registered) = Sum(Chips(entry), Registered) - entry[p].chips + RebuyStack
      /\ Sum(Bought(entry'), Registered) = Sum(Bought(entry), Registered) + RebuyStack
      /\ Sum(Paid(entry'), Registered) = Sum(Paid(entry), Registered) + RebuyCost
  <2> DEFINE f == Chips(entry)
  <2> DEFINE g == Chips(entry')
  <2> DEFINE h == Bought(entry)
  <2> DEFINE k == Bought(entry')
  <2> DEFINE m == Paid(entry)
  <2> DEFINE n == Paid(entry')
  <2>1. \A q \in Registered : {f[q], g[q], h[q], k[q], m[q], n[q]} \subseteq Int
    BY <1>0, <1>3, <1>4, TermsNat
  <2>2. \A q \in Registered \ {p} : g[q] = f[q] /\ k[q] = h[q] /\ n[q] = m[q]
    BY <1>3 DEF Chips, Bought, Paid
  <2>3. g[p] = RebuyStack /\ f[p] = entry[p].chips
    BY <1>0, <1>3 DEF Chips
  <2>4. k[p] = h[p] + RebuyStack /\ n[p] = m[p] + RebuyCost
    <3> DEFINE a == IF entry[p].addon THEN AddonStack ELSE 0
    <3>1. /\ h[p] = StartingStack + entry[p].rebuys * RebuyStack + a
          /\ k[p] = StartingStack + (entry[p].rebuys + 1) * RebuyStack + a
          /\ m[p] = EntryCost + entry[p].rebuys * RebuyCost
          /\ n[p] = EntryCost + (entry[p].rebuys + 1) * RebuyCost
      BY <1>0, <1>3 DEF Bought, Paid
    <3>2. /\ entry[p].rebuys * RebuyStack \in Nat /\ entry[p].rebuys * RebuyCost \in Nat
          /\ (entry[p].rebuys + 1) * RebuyStack = entry[p].rebuys * RebuyStack + RebuyStack
          /\ (entry[p].rebuys + 1) * RebuyCost = entry[p].rebuys * RebuyCost + RebuyCost
      BY <1>1, Constants, TimesNat
    <3>3. a \in Nat
      BY Constants
    <3> HIDE DEF h, k, m, n, a
    <3> QED
      BY <3>1, <3>2, <3>3, Constants
  <2> HIDE DEF f, g, h, k, m, n
  <2>5. Sum(g, Registered) = Sum(f, Registered) - f[p] + g[p]
    BY <1>0, <2>1, <2>2, SumChanged
  <2>6. Sum(k, Registered) = Sum(h, Registered) - h[p] + k[p]
    BY <1>0, <2>1, <2>2, SumChanged
  <2>7. Sum(n, Registered) = Sum(m, Registered) - m[p] + n[p]
    BY <1>0, <2>1, <2>2, SumChanged
  <2>8. /\ Sum(f, Registered) \in Int /\ Sum(h, Registered) \in Int /\ Sum(m, Registered) \in Int
        /\ f[p] \in Int /\ h[p] \in Int /\ m[p] \in Int
        /\ RebuyStack \in Int /\ RebuyCost \in Int
    BY <1>0, <2>1, SumInt, Constants
  <2>9. /\ Sum(g, Registered) = Sum(f, Registered) - entry[p].chips + RebuyStack
        /\ Sum(k, Registered) = Sum(h, Registered) + RebuyStack
        /\ Sum(n, Registered) = Sum(m, Registered) + RebuyCost
    BY <2>3, <2>4, <2>5, <2>6, <2>7, <2>8
  <2> QED
    BY <2>9 DEF f, g, h, k, m, n
<1>6. ManagerTypeOK' /\ MapsOK'
  <2>1. \A q \in Registered : entry'[q].table = entry[q].table
    BY <1>3
  <2> QED
    BY <1>0, <1>3, <1>4, <2>1 DEF ManagerOK, ManagerTypeOK, MapsOK, Began
<1>7. ChipsSold'
  <2>1. SoldOf(entry) /\ {Sum(Chips(entry), Registered), Sum(Bought(entry), Registered)} \subseteq Int
    BY <1>0, SoldIs, SumsInt DEF ManagerOK
  <2>2. (\A q \in Registered' : ~(entry'[q].addon /\ entry'[q].rebuys > 0))
           => /\ \A q \in Registered : ~(entry[q].addon /\ entry[q].rebuys > 0)
              /\ entry[p].chips = 0
    <3> SUFFICES ASSUME \A q \in Registered' : ~(entry'[q].addon /\ entry'[q].rebuys > 0)
                 PROVE  /\ \A q \in Registered : ~(entry[q].addon /\ entry[q].rebuys > 0)
                        /\ entry[p].chips = 0
      OBVIOUS
    <3>1. ~entry[p].addon
      BY <1>0, <1>1, <1>3
    <3> QED
      BY <1>1, <1>3, <3>1
  <2>3. SoldOf(entry')
    BY <1>1, <1>3, <1>5, <2>1, <2>2, Constants DEF SoldOf
  <2> QED
    BY <2>3, SoldIs
<1>8. FreshOK' /\ StacksOK'
  BY <1>0, <1>1, <1>3, Constants DEF FreshOK, StacksOK, Began, ManagerOK
<1>9. Seated'
  <2>1. /\ \A u \in DOMAIN list : /\ \A q \in list[u] : q \in In(entry) /\ entry[q].table = u
                                  /\ Cardinality(list[u]) <= PerTable
        /\ \A q \in In(entry) : entry[q].rebuys = 0 => q \in list[entry[q].table]
    BY <1>1 DEF ManagerOK, Seated
  <2>2. \A u \in DOMAIN list : \A q \in list[u] : q \in In(entry') /\ entry'[q].table = u
    BY <1>1, <1>3, <2>1 DEF In
  <2>3. ASSUME NEW q \in In(entry'), entry'[q].rebuys = 0
        PROVE  q \in list[entry'[q].table]
    <3>1. q # p
      BY <1>1, <1>3, <2>3
    <3> QED
      BY <1>3, <2>1, <2>3, <3>1 DEF In
  <2> QED
    BY <1>0, <2>1, <2>2, <2>3 DEF Seated
<1>10. Places'
  BY <1>0, <1>1, <1>3 DEF Places
<1> QED
  BY <1>3, <1>5, <1>6, <1>7, <1>8, <1>9, <1>10 DEF ManagerOK

LEMMA BlindsKeep ==
  ASSUME ManagerOK, AdvanceBlindLevel
  PROVE  ManagerOK' /\ Registered' = Registered /\ Paid(entry') = Paid(entry)
<1>1. status' = status /\ entry' = entry /\ list' = list /\ paid' = paid
  BY DEF AdvanceBlindLevel
<1>2. level' \in 0 .. Levels - 1
  <2>1. level \in Int /\ level >= 0 /\ Levels \in Int /\ Levels > 0
    BY Constants DEF ManagerOK, ManagerTypeOK
  <2>2. level' = IF level + 1 <= Levels - 1 THEN level + 1 ELSE Levels - 1
    <3>1. level + 1 \in Int /\ Levels - 1 \in Int /\ level' = Min({level + 1, Levels - 1})
      BY <2>1 DEF AdvanceBlindLevel
    <3> QED
      BY <3>1, MinWithTwo
  <2> QED
    BY <2>1, <2>2
<1>3. ManagerTypeOK' /\ Seated' /\ Places' /\ MapsOK' /\ FreshOK' /\ StacksOK'
  BY <1>1, <1>2
     DEF ManagerOK, ManagerTypeOK, Seated, Places, MapsOK, FreshOK, StacksOK, Began
<1>4. ChipsSold'
  BY <1>1, SoldIs DEF ManagerOK
<1> QED
  BY <1>1, <1>3, <1>4 DEF ManagerOK

(* Everything the director does.                                           *)
LEMMA DirectKeeps ==
  ASSUME ManagerOK, Direct
  PROVE  ManagerOK' /\ Registered' = Registered /\ Paid(entry') = Paid(entry)
<1>1. CASE Start
  BY <1>1, StartKeeps
<1>2. CASE \E t \in DOMAIN list : \E stacks \in Hands(t) : HandComplete(t, stacks)
  BY <1>2, HandKeeps
<1>3. CASE AdvanceBlindLevel
  BY <1>3, BlindsKeep
<1>4. CASE \E p \in Players : Addon(p)
  BY <1>4, AddonKeeps
<1> QED
  BY <1>1, <1>2, <1>3, <1>4 DEF Direct

LEMMA ManagerUnchanged ==
  ASSUME ManagerOK, UNCHANGED manager
  PROVE  ManagerOK' /\ entry' = entry
<1>1. status' = status /\ entry' = entry /\ list' = list /\ level' = level /\ paid' = paid
  BY DEF manager
<1>2. ManagerTypeOK' /\ Seated' /\ Places' /\ MapsOK' /\ FreshOK' /\ StacksOK'
  BY <1>1
     DEF ManagerOK, ManagerTypeOK, Seated, Places, MapsOK, FreshOK, StacksOK, Began
<1>3. ChipsSold'
  BY <1>1, SoldIs DEF ManagerOK
<1> QED
  BY <1>1, <1>2, <1>3 DEF ManagerOK

(* A manager that has just been made.                                      *)
LEMMA NoneRegistered ==
  /\ ManagerInit => ManagerOK /\ Registered = {}
  /\ status' = "registration" /\ entry' = << >> /\ list' = << >> /\ level' = 0 /\ paid' = << >>
       => ManagerOK' /\ Registered' = {}
<1>0. /\ DOMAIN << >> = {} /\ 0 \in 0 .. Levels - 1 /\ << >> \in Seq(Players)
  BY Constants
<1>1. << >> \in [{} -> Entry] /\ << >> \in [{} -> SUBSET Players]
  BY <1>0
<1>2. SoldOf(<< >>)
  <2>1. Sum(Chips(<< >>), DOMAIN << >>) = 0 /\ Sum(Bought(<< >>), DOMAIN << >>) = 0
    BY <1>0, SumEmpty
  <2> QED
    BY <2>1 DEF SoldOf
<1>3. Cardinality({}) = 0 /\ {} = 0 .. 0 - 1
  BY FS_EmptySet
<1>4. ASSUME ManagerInit PROVE ManagerOK /\ Registered = {}
  <2>1. status = "registration" /\ entry = << >> /\ list = << >> /\ level = 0 /\ paid = << >>
    BY <1>4 DEF ManagerInit
  <2>2. ChipsSold
    BY <1>2, <2>1, SoldIs
  <2>3. Places
    BY <1>0, <1>3, <2>1 DEF Places, In
  <2>4. ManagerTypeOK /\ Seated /\ MapsOK /\ FreshOK /\ StacksOK
    BY <1>0, <1>1, <2>1 DEF ManagerTypeOK, Seated, MapsOK, FreshOK, StacksOK, Began
  <2> QED
    BY <1>0, <2>1, <2>2, <2>3, <2>4 DEF ManagerOK
<1>5. ASSUME status' = "registration", entry' = << >>, list' = << >>, level' = 0, paid' = << >>
      PROVE  ManagerOK' /\ Registered' = {}
  <2>1. ChipsSold'
    BY <1>2, <1>5, SoldIs
  <2>2. Places'
    BY <1>0, <1>3, <1>5 DEF Places, In
  <2>3. ManagerTypeOK' /\ Seated' /\ MapsOK' /\ FreshOK' /\ StacksOK'
    BY <1>0, <1>1, <1>5 DEF ManagerTypeOK, Seated, MapsOK, FreshOK, StacksOK, Began
  <2> QED
    BY <1>0, <1>5, <2>1, <2>2, <2>3 DEF ManagerOK
<1> QED
  BY <1>4, <1>5

-----------------------------------------------------------------------------
(* The desk.                                                               *)
Amount == Sum(wallet, Players) + Sum(Paid(entry), Registered) + handler.due

DeskOK ==
  /\ wallet \in [Players -> Nat]
  /\ handler = Idle \/ handler \in [op : Ops, player : Players, due : Nat]
  /\ entered = Registered
  /\ HandlerOK

LEMMA IInvIs ==
  /\ IInv <=> ManagerOK /\ DeskOK /\ Worth <= Purse * Cardinality(Players)
  /\ IInv' <=> ManagerOK' /\ DeskOK' /\ Worth' <= Purse * Cardinality(Players)
<1>1. (ManagerOK => Registered \subseteq Players) /\ (ManagerOK' => Registered' \subseteq Players)
  BY DEF ManagerOK, ManagerTypeOK
<1>2. IInv => ManagerTypeOK /\ TypeOK
  BY DEF IInv, PoolBacked, TypeOK
<1>3. IInv' => ManagerTypeOK' /\ TypeOK'
  BY DEF IInv, PoolBacked, TypeOK
<1>4. IInv <=> ManagerOK /\ DeskOK /\ Worth <= Purse * Cardinality(Players)
  BY <1>1, <1>2 DEF IInv, PoolBacked, TypeOK, ManagerOK, DeskOK
<1>5. IInv' <=> ManagerOK' /\ DeskOK' /\ Worth' <= Purse * Cardinality(Players)
  BY <1>1, <1>3 DEF IInv, PoolBacked, TypeOK, ManagerOK, DeskOK
<1> QED
  BY <1>4, <1>5

LEMMA AmountIs ==
  /\ ManagerOK /\ DeskOK => /\ Worth = Amount
                            /\ {Sum(wallet, Players), Sum(Paid(entry), Registered), handler.due} \subseteq Nat
  /\ ManagerOK' /\ DeskOK' => /\ Worth' = Amount'
                              /\ {Sum(wallet', Players), Sum(Paid(entry'), Registered'), handler'.due} \subseteq Nat
<1>1. ASSUME ManagerOK, DeskOK
      PROVE  /\ Worth = Amount
             /\ {Sum(wallet, Players), Sum(Paid(entry), Registered), handler.due} \subseteq Nat
  <2>1. /\ MapsOK /\ wallet \in [Players -> Nat] /\ IsFiniteSet(Registered)
        /\ entry \in [Registered -> Entry]
    BY <1>1, RegisteredFinite DEF ManagerOK, DeskOK, MapsOK
  <2>2. handler.due \in Nat
    BY <1>1 DEF DeskOK, Idle
  <2>3. Sum(wallet, Players) \in Nat
    BY <2>1, Constants, SumNat
  <2>4. Sum(Paid(entry), Registered) \in Nat
    BY <2>1, SumsInt
  <2> QED
    BY <2>1, <2>2, <2>3, <2>4, WorthIs DEF Amount
<1>2. ASSUME ManagerOK', DeskOK'
      PROVE  /\ Worth' = Amount'
             /\ {Sum(wallet', Players), Sum(Paid(entry'), Registered'), handler'.due} \subseteq Nat
  <2>1. /\ MapsOK' /\ wallet' \in [Players -> Nat]
        /\ entry' \in [Registered' -> Entry] /\ Registered' \subseteq Players
    BY <1>2 DEF ManagerOK, ManagerTypeOK, DeskOK, MapsOK
  <2>2. IsFiniteSet(Registered')
    BY <2>1, Constants, FS_Subset
  <2>3. handler'.due \in Nat
    BY <1>2 DEF DeskOK, Idle
  <2>4. Sum(wallet', Players) \in Nat
    BY <2>1, Constants, SumNat
  <2>5. Sum(Paid(entry'), Registered') \in Nat
    BY <2>1, <2>2, SumsInt
  <2> QED
    BY <2>1, <2>2, <2>3, <2>4, <2>5, WorthNext DEF Amount
<1> QED
  BY <1>1, <1>2

(* A wallet that changes by k.                                             *)
LEMMA WalletChanged ==
  ASSUME wallet \in [Players -> Nat], NEW p \in Players, NEW k \in Int, wallet[p] + k \in Nat,
         wallet' = [wallet EXCEPT ![p] = wallet[p] + k]
  PROVE  /\ wallet' \in [Players -> Nat]
         /\ Sum(wallet', Players) = Sum(wallet, Players) + k
<1>1. /\ wallet' \in [Players -> Nat] /\ wallet'[p] = wallet[p] + k
      /\ \A q \in Players \ {p} : wallet'[q] = wallet[q]
  OBVIOUS
<1>2. \A q \in Players : wallet[q] \in Int /\ wallet'[q] \in Int
  BY <1>1
<1>3. Sum(wallet', Players) = Sum(wallet, Players) - wallet[p] + wallet'[p]
  <2> DEFINE f == wallet
  <2> DEFINE g == wallet'
  <2>1. /\ \A q \in Players : f[q] \in Int /\ g[q] \in Int
        /\ \A q \in Players \ {p} : g[q] = f[q]
    BY <1>1, <1>2
  <2> HIDE DEF f, g
  <2>2. Sum(g, Players) = Sum(f, Players) - f[p] + g[p]
    BY <2>1, Constants, SumChanged
  <2> QED
    BY <2>2 DEF f, g
<1>4. Sum(wallet, Players) \in Int /\ wallet[p] \in Int
  BY <1>2, Constants, SumInt
<1> QED
  BY <1>1, <1>3, <1>4

(* What all the steps keep, but those that lose chips.                     *)
Kept == ManagerOK' /\ DeskOK' /\ Amount' = Amount

LEMMA IdleIs == Idle.op = "idle" /\ Idle.due = 0
  BY DEF Idle

LEMMA DebitKeeps ==
  ASSUME ManagerOK, DeskOK, NEW p \in Players, NEW cost \in Nat, NEW op \in {"join", "rebuy"},
         op = "join" => cost = EntryCost, op = "rebuy" => cost = RebuyCost,
         Debit(p, cost, op)
  PROVE  Kept
<1>1. /\ handler.due = 0 /\ wallet \in [Players -> Nat] /\ wallet[p] - cost \in Nat
      /\ wallet' = [wallet EXCEPT ![p] = wallet[p] + (0 - cost)]
      /\ handler' = [op |-> op, player |-> p, due |-> cost]
      /\ UNCHANGED manager /\ entered' = entered
  <2>1. wallet \in [Players -> Nat] /\ cost <= wallet[p] /\ handler = Idle
    BY DEF Debit, DeskOK
  <2>2. wallet' = [wallet EXCEPT ![p] = wallet[p] - cost]
    BY DEF Debit
  <2>3. wallet[p] - cost = wallet[p] + (0 - cost) /\ wallet[p] - cost \in Nat
    BY <2>1
  <2> QED
    BY <2>1, <2>2, <2>3, IdleIs DEF Debit
<1>2. ManagerOK' /\ entry' = entry
  BY <1>1, ManagerUnchanged
<1>3. wallet' \in [Players -> Nat] /\ Sum(wallet', Players) = Sum(wallet, Players) + (0 - cost)
  <2>1. 0 - cost \in Int /\ wallet[p] + (0 - cost) \in Nat
    BY <1>1
  <2> QED
    BY <1>1, <2>1, WalletChanged
<1>4. DeskOK'
  <2>1. handler' \in [op : Ops, player : Players, due : Nat] /\ handler'.op = op /\ handler'.due = cost
    BY <1>1 DEF Ops
  <2>2. HandlerOK'
    BY <2>1 DEF HandlerOK, EntryCost
  <2> QED
    BY <1>1, <1>2, <1>3, <2>1, <2>2 DEF DeskOK
<1>5. Amount' = Amount
  <2>1. Sum(wallet, Players) \in Nat /\ Sum(Paid(entry), Registered) \in Nat
    BY AmountIs
  <2>2. handler'.due = cost
    BY <1>1
  <2> QED
    BY <1>1, <1>2, <1>3, <2>1, <2>2 DEF Amount
<1> QED
  BY <1>2, <1>4, <1>5 DEF Kept

(* The handler of a cost is that of one of the players.                    *)
LEMMA HandlerIs ==
  ASSUME DeskOK, handler.op # "idle"
  PROVE  handler.player \in Players /\ handler.due \in Nat /\ handler.op \in Ops
  BY IdleIs DEF DeskOK

LEMMA JoinedKeeps ==
  ASSUME ManagerOK, DeskOK, Joined
  PROVE  Kept
<1> DEFINE p == handler.player
<1>1. /\ p \in Players /\ RegisterPlayer(p) /\ handler.due = EntryCost
      /\ entered' = entered \cup {p} /\ handler' = Idle /\ wallet' = wallet
  BY HandlerIs DEF Joined, DeskOK, HandlerOK
<1> HIDE DEF p
<1>2. /\ ManagerOK' /\ Registered' = Registered \cup {p}
      /\ Sum(Paid(entry'), Registered') = Sum(Paid(entry), Registered) + EntryCost
  BY <1>1, RegisterKeeps
<1>3. DeskOK'
  BY <1>1, <1>2, IdleIs DEF DeskOK, HandlerOK, Idle
<1>4. Amount' = Amount
  <2>1. Sum(wallet, Players) \in Nat /\ Sum(Paid(entry), Registered) \in Nat /\ EntryCost \in Nat
    BY AmountIs, Constants
  <2> QED
    BY <1>1, <1>2, <2>1, IdleIs DEF Amount
<1> QED
  BY <1>2, <1>3, <1>4 DEF Kept

LEMMA ReboughtKeeps ==
  ASSUME ManagerOK, DeskOK, Rebought
  PROVE  Kept
<1> DEFINE p == handler.player
<1>1. /\ p \in Players /\ Rebuy(p) /\ handler.due = RebuyCost
      /\ entered' = entered /\ handler' = Idle /\ wallet' = wallet
  BY HandlerIs DEF Rebought, DeskOK, HandlerOK
<1> HIDE DEF p
<1>2. /\ ManagerOK' /\ Registered' = Registered
      /\ Sum(Paid(entry'), Registered') = Sum(Paid(entry), Registered) + RebuyCost
  BY <1>1, RebuyKeeps
<1>3. DeskOK'
  BY <1>1, <1>2, IdleIs DEF DeskOK, HandlerOK, Idle
<1>4. Amount' = Amount
  <2>1. Sum(wallet, Players) \in Nat /\ Sum(Paid(entry), Registered) \in Nat /\ RebuyCost \in Nat
    BY AmountIs, Constants
  <2> QED
    BY <1>1, <1>2, <2>1, IdleIs DEF Amount
<1> QED
  BY <1>2, <1>3, <1>4 DEF Kept

LEMMA RefusedKeepsAll ==
  ASSUME ManagerOK, DeskOK, Refused
  PROVE  Kept
<1>1. /\ handler.op # "idle" /\ handler' = [handler EXCEPT !.op = "refund"]
      /\ UNCHANGED manager /\ wallet' = wallet /\ entered' = entered
  BY DEF Refused
<1>2. handler \in [op : Ops, player : Players, due : Nat]
  BY <1>1, IdleIs DEF DeskOK
<1>3. /\ handler' \in [op : Ops, player : Players, due : Nat]
      /\ handler'.op = "refund" /\ handler'.due = handler.due
  BY <1>1, <1>2 DEF Ops
<1>4. ManagerOK' /\ entry' = entry
  BY <1>1, ManagerUnchanged
<1>5. DeskOK'
  BY <1>1, <1>3, <1>4 DEF DeskOK, HandlerOK
<1>6. Amount' = Amount
  BY <1>1, <1>3, <1>4 DEF Amount
<1> QED
  BY <1>4, <1>5, <1>6 DEF Kept

LEMMA LeaveKeeps ==
  ASSUME ManagerOK, DeskOK, NEW p \in Players, Leave(p)
  PROVE  Kept
<1>1. /\ UnregisterPlayer(p) /\ handler.due = 0
      /\ entered' = entered \ {p} /\ wallet' = wallet
      /\ handler' = IF EntryCost > 0 THEN [op |-> "refund", player |-> p, due |-> EntryCost]
                    ELSE Idle
  BY IdleIs DEF Leave
<1>2. /\ ManagerOK' /\ Registered' = Registered \ {p}
      /\ Sum(Paid(entry'), Registered') = Sum(Paid(entry), Registered) - EntryCost
  BY <1>1, UnregisterKeeps
<1>3. EntryCost \in Nat
  BY Constants
<1>4. /\ handler' = Idle \/ handler' \in [op : Ops, player : Players, due : Nat]
      /\ handler'.op \in {"idle", "refund"} /\ handler'.due = EntryCost
  BY <1>1, <1>3, IdleIs DEF Ops
<1>5. DeskOK'
  BY <1>1, <1>2, <1>4 DEF DeskOK, HandlerOK
<1>6. Amount' = Amount
  <2>1. Sum(wallet, Players) \in Nat /\ Sum(Paid(entry), Registered) \in Nat
    BY AmountIs
  <2> QED
    BY <1>1, <1>2, <1>3, <1>4, <2>1 DEF Amount
<1> QED
  BY <1>2, <1>5, <1>6 DEF Kept

LEMMA RefundKeepsAll ==
  ASSUME ManagerOK, DeskOK, Refund
  PROVE  Kept
<1> DEFINE p == handler.player
<1> DEFINE k == handler.due
<1>1. /\ p \in Players /\ k \in Nat /\ wallet \in [Players -> Nat]
      /\ wallet' = [wallet EXCEPT ![p] = wallet[p] + k]
      /\ handler' = Idle /\ UNCHANGED manager /\ entered' = entered
  BY HandlerIs DEF Refund, DeskOK
<1> HIDE DEF p, k
<1>2. ManagerOK' /\ entry' = entry
  BY <1>1, ManagerUnchanged
<1>3. wallet' \in [Players -> Nat] /\ Sum(wallet', Players) = Sum(wallet, Players) + k
  <2>1. wallet[p] + k \in Nat /\ k \in Int
    BY <1>1
  <2> QED
    BY <1>1, <2>1, WalletChanged
<1>4. DeskOK'
  BY <1>1, <1>2, <1>3, IdleIs DEF DeskOK, HandlerOK
<1>5. Amount' = Amount
  <2>1. Sum(wallet, Players) \in Nat /\ Sum(Paid(entry), Registered) \in Nat
    BY AmountIs
  <2>2. handler.due = k /\ handler'.due = 0
    BY <1>1, IdleIs DEF k
  <2> QED
    BY <1>1, <1>2, <1>3, <2>1, <2>2 DEF Amount
<1> QED
  BY <1>2, <1>4, <1>5 DEF Kept

(* The two steps that lose chips.                                          *)
LEMMA RefundFailsLoses ==
  ASSUME ManagerOK, DeskOK, RefundFails
  PROVE  ManagerOK' /\ DeskOK' /\ Amount' <= Amount
<1>1. handler' = Idle /\ UNCHANGED manager /\ wallet' = wallet /\ entered' = entered
  BY DEF RefundFails
<1>2. ManagerOK' /\ entry' = entry
  BY <1>1, ManagerUnchanged
<1>3. DeskOK'
  BY <1>1, <1>2, IdleIs DEF DeskOK, HandlerOK
<1>4. Amount' <= Amount
  <2>1. /\ Sum(wallet, Players) \in Nat /\ Sum(Paid(entry), Registered) \in Nat
        /\ handler.due \in Nat
    BY AmountIs
  <2> QED
    BY <1>1, <1>2, <2>1, IdleIs DEF Amount
<1> QED
  BY <1>2, <1>3, <1>4

LEMMA CrashLoses ==
  ASSUME ManagerOK, DeskOK, Crash
  PROVE  ManagerOK' /\ DeskOK' /\ Amount' <= Amount
<1>1. /\ ManagerOK' /\ Registered' = {}
      /\ handler' = Idle /\ wallet' = wallet /\ entered' = {}
  BY NoneRegistered DEF Crash
<1>2. DeskOK'
  BY <1>1, IdleIs DEF DeskOK, HandlerOK
<1>3. Amount' <= Amount
  <2>1. /\ Sum(wallet, Players) \in Nat /\ Sum(Paid(entry), Registered) \in Nat
        /\ handler.due \in Nat
    BY AmountIs
  <2>2. Sum(Paid(entry'), Registered') = 0
    BY <1>1, SumEmpty
  <2> QED
    BY <1>1, <2>1, <2>2, IdleIs DEF Amount
<1> QED
  BY <1>1, <1>2, <1>3

LEMMA StepKeeps ==
  ASSUME ManagerOK, DeskOK, [Next]_vars
  PROVE  \/ Kept
         \/ /\ Crash \/ RefundFails
            /\ ManagerOK' /\ DeskOK' /\ Amount' <= Amount
<1>1. ASSUME NEW p \in Players, PayEntry(p) PROVE Kept
  BY <1>1, Constants, DebitKeeps DEF PayEntry
<1>2. ASSUME NEW p \in Players, PayRebuy(p) PROVE Kept
  BY <1>2, Constants, DebitKeeps DEF PayRebuy
<1>3. ASSUME NEW p \in Players, Leave(p) PROVE Kept
  BY <1>3, LeaveKeeps
<1>4. ASSUME Finish PROVE Kept \/ RefundFails
  BY <1>4, JoinedKeeps, ReboughtKeeps, RefusedKeepsAll, RefundKeepsAll DEF Finish
<1>5. ASSUME Direct, UNCHANGED <<wallet, entered, handler>> PROVE Kept
  <2>1. ManagerOK' /\ Registered' = Registered /\ Paid(entry') = Paid(entry)
    BY <1>5, DirectKeeps
  <2>2. wallet' = wallet /\ entered' = entered /\ handler' = handler
    BY <1>5
  <2>3. DeskOK'
    BY <2>1, <2>2 DEF DeskOK, HandlerOK
  <2> QED
    BY <2>1, <2>2, <2>3 DEF Kept, Amount
<1>6. ASSUME UNCHANGED vars PROVE Kept
  <2>1. UNCHANGED manager /\ wallet' = wallet /\ entered' = entered /\ handler' = handler
    BY <1>6 DEF vars, manager
  <2>2. ManagerOK' /\ entry' = entry
    BY <2>1, ManagerUnchanged
  <2> QED
    BY <2>1, <2>2 DEF Kept, Amount, DeskOK, HandlerOK
<1>7. Kept \/ Crash \/ RefundFails
  BY <1>1, <1>2, <1>3, <1>4, <1>5, <1>6 DEF Next, Handle
<1> QED
  BY <1>7, CrashLoses, RefundFailsLoses

LEMMA InitIInv == Init => IInv
<1> SUFFICES ASSUME Init PROVE IInv
  OBVIOUS
<1>1. /\ ManagerOK /\ Registered = {}
      /\ wallet = [p \in Players |-> Purse] /\ entered = {} /\ handler = Idle
  BY NoneRegistered DEF Init
<1>2. DeskOK
  BY <1>1, Constants, IdleIs DEF DeskOK, HandlerOK
<1>3. Worth = Purse * Cardinality(Players)
  <2>1. Worth = Sum(wallet, Players) + Sum(Paid(entry), {}) + 0
    BY <1>1, <1>2, AmountIs, IdleIs DEF Amount
  <2>2. Sum(wallet, Players) = Purse * Cardinality(Players)
    <3>1. \A p \in Players : wallet[p] = Purse
      BY <1>1
    <3> QED
      BY <3>1, Constants, SumConst
  <2>3. Sum(Paid(entry), {}) = 0
    BY SumEmpty
  <2>4. Sum(wallet, Players) \in Nat
    BY <1>1, <1>2, AmountIs
  <2> QED
    BY <2>1, <2>2, <2>3, <2>4
<1>4. Worth \in Int
  BY <1>1, <1>2, AmountIs DEF Amount
<1> QED
  BY <1>1, <1>2, <1>3, <1>4, IInvIs

LEMMA StepIInv == IInv /\ [Next]_vars => IInv'
<1> SUFFICES ASSUME IInv, [Next]_vars PROVE IInv'
  OBVIOUS
<1>1. ManagerOK /\ DeskOK /\ Worth <= Purse * Cardinality(Players)
  BY IInvIs
<1>2. ManagerOK' /\ DeskOK' /\ (Amount' = Amount \/ Amount' <= Amount)
  BY <1>1, StepKeeps DEF Kept
<1>3. Worth = Amount /\ Worth' = Amount' /\ Amount \in Int /\ Amount' \in Int
  BY <1>1, <1>2, AmountIs DEF Amount
<1>4. Purse * Cardinality(Players) \in Int
  BY Constants, FS_CardinalityType
<1>5. Worth' <= Purse * Cardinality(Players)
  BY <1>1, <1>2, <1>3, <1>4
<1> QED
  BY <1>2, <1>5, IInvIs

(* The inductive invariant: the manager's chips, chairs and places, what a *)
(* handler still has to do, and that wallets and entries are worth no more *)
(* than the wallets were.                                                  *)
THEOREM DeskInvariant == Spec => []IInv
<1>1. Init => IInv
  BY InitIInv
<1>2. IInv /\ [Next]_vars => IInv'
  BY StepIInv
<1> QED
  BY <1>1, <1>2, PTL DEF Spec

(* The prize pool is backed by what the wallets paid, whatever joins,      *)
(* rebuys and leaves were tried, refused, refunded or cut off by a crash.  *)
THEOREM PoolIsBacked == Spec => []PoolBacked
<1>1. IInv => PoolBacked
  BY DEF IInv
<1> QED
  BY <1>1, DeskInvariant, PTL

(* From the start to the end everybody who is in, and never bought in      *)
(* again, has the chair he was told; no table is over its size.            *)
THEOREM EverybodySeated == Spec => []Seated
<1>1. IInv => Seated
  BY DEF IInv
<1> QED
  BY <1>1, DeskInvariant, PTL

(* However many players a hand busts, the places of those who are out are  *)
(* the last ones, each once, as long as nobody bought in again.            *)
THEOREM PlacesAreRight == Spec => []Places
<1>1. IInv => Places
  BY DEF IInv
<1> QED
  BY <1>1, DeskInvariant, PTL

(* Only a crash and a refund the ledger refuses lose chips, whatever the   *)
(* director does between the two steps of a handler.                       *)
THEOREM EntriesAreKept == Spec => EntriesKept
<1>1. ASSUME IInv, [Next]_vars
      PROVE  Worth' < Worth => Crash \/ RefundFails
  <2>1. ManagerOK /\ DeskOK
    BY <1>1, IInvIs
  <2>2. CASE Kept
    <3>1. Worth' = Worth /\ Worth \in Int
      BY <2>1, <2>2, AmountIs DEF Kept, Amount
    <3> QED
      BY <3>1
  <2> QED
    BY <1>1, <2>1, <2>2, StepKeeps
<1>2. IInv /\ [Next]_vars => [Worth' < Worth => Crash \/ RefundFails]_vars
  BY <1>1
<1> QED
  BY <1>2, DeskInvariant, PTL DEF Spec, EntriesKept

-----------------------------------------------------------------------------
(* The first of an order by chips has the most.                            *)
LEMMA FirstHasMost ==
  ASSUME NEW D, IsFiniteSet(D), NEW e \in [D -> Entry], NEW s \in SetToSeqs(D),
         \A i \in 1 .. Len(s) - 1 : e[s[i]].chips >= e[s[i + 1]].chips
  PROVE  \A x \in D : s[1] \in D /\ e[s[1]].chips >= e[x].chips
<1> DEFINE n == Cardinality(D)
<1> DEFINE c == [i \in 1 .. n |-> e[s[i]].chips]
<1>1. /\ n \in Nat /\ s \in [1 .. n -> D] /\ Len(s) = n
      /\ \A x \in D : \E i \in 1 .. n : s[i] = x
  BY OrderIs
<1> HIDE DEF n
<1>2. /\ \A i \in 1 .. n : c[i] \in Nat /\ c[i] = e[s[i]].chips
      /\ \A i \in 1 .. n : i + 1 \in 1 .. n => c[i] >= c[i + 1]
  <2>1. \A i \in 1 .. n : e[s[i]] \in Entry
    BY <1>1
  <2>2. \A i \in 1 .. n : c[i] \in Nat /\ c[i] = e[s[i]].chips
    BY <2>1 DEF Entry
  <2>3. ASSUME NEW i \in 1 .. n, i + 1 \in 1 .. n PROVE c[i] >= c[i + 1]
    <3>1. i \in 1 .. Len(s) - 1
      BY <1>1, <2>3
    <3>2. e[s[i]].chips >= e[s[i + 1]].chips
      BY <3>1
    <3> QED
      BY <2>2, <2>3, <3>2
  <2> QED
    BY <2>2, <2>3
<1> HIDE DEF c
<1> DEFINE G == {i \in Nat : i + 1 \in 1 .. n => c[1] >= c[i + 1]}
<1>3. 0 \in G
  BY <1>2
<1>4. ASSUME NEW i \in Nat, i \in G PROVE i + 1 \in G
  <2> SUFFICES ASSUME i + 1 + 1 \in 1 .. n PROVE c[1] >= c[i + 1 + 1]
    OBVIOUS
  <2>1. i + 1 \in 1 .. n /\ 1 \in 1 .. n
    BY <1>1
  <2>2. c[1] >= c[i + 1] /\ c[i + 1] >= c[i + 1 + 1]
    BY <1>2, <1>4, <2>1
  <2> QED
    BY <1>2, <2>1, <2>2
<1>5. Nat \subseteq G
  <2> HIDE DEF G
  <2> QED
    BY <1>3, <1>4, NatsReached
<1>6. \A i \in 1 .. n : c[1] >= c[i]
  <2> SUFFICES ASSUME NEW i \in 1 .. n PROVE c[1] >= c[i]
    OBVIOUS
  <2>1. i - 1 \in Nat /\ (i - 1) + 1 = i
    BY <1>1
  <2>2. i - 1 \in G
    BY <1>5, <2>1
  <2> QED
    BY <2>1, <2>2
<1>7. ASSUME NEW x \in D PROVE s[1] \in D /\ e[s[1]].chips >= e[x].chips
  <2>1. PICK i \in 1 .. n : s[i] = x
    BY <1>1
  <2>2. 1 \in 1 .. n
    BY <1>1
  <2> QED
    BY <1>1, <1>2, <1>6, <2>1, <2>2
<1> QED
  BY <1>7

LEMMA LastHandPays ==
  ASSUME ManagerOK, NEW t \in DOMAIN list, NEW stacks \in Hands(t), HandComplete(t, stacks),
         status' = "completed",
         \A p \in Registered' : entry'[p].out => entry'[p].chips = 0
  PROVE  /\ paid'[1] \in In(entry')
         /\ \A i, j \in DOMAIN paid' : i # j => paid'[i] # paid'[j]
<1>1. /\ entry' \in [Registered' -> Entry] /\ Registered' = Registered
      /\ IsFiniteSet(Registered) /\ Registered \subseteq Players
  BY RegisteredFinite, HandKeeps DEF ManagerOK, MapsOK, ManagerTypeOK
<1>2. paid' \in Payouts(entry')
  BY DEF HandComplete
<1>3. PICK s \in SetToSeqs(Registered) :
        /\ \A i \in 1 .. Len(s) - 1 : entry'[s[i]].chips >= entry'[s[i + 1]].chips
        /\ paid' = SubSeq(s, 1, Min({PaidPlaces, Len(s)}))
  BY <1>1, <1>2 DEF Payouts
<1>4. PICK w \in Registered : entry'[w].chips > 0
  <2>1. PICK w \in Deal(t) : stacks[w] > 0
    BY HandIs
  <2>2. w \in Registered
    BY HandIs
  <2>3. entry'[w].chips = stacks[w]
    BY <2>2, HandCompleteIs
  <2> QED
    BY <2>1, <2>2, <2>3
<1>5. s[1] \in Registered /\ entry'[s[1]].chips >= entry'[w].chips
  BY <1>1, <1>3, FirstHasMost
<1>6. s[1] \in In(entry')
  <2>1. entry'[s[1]].chips \in Nat /\ entry'[w].chips \in Nat
    BY <1>1, <1>5 DEF Entry
  <2>2. entry'[s[1]].chips # 0
    BY <1>4, <1>5, <2>1
  <2> QED
    BY <1>1, <1>5, <2>2 DEF In
<1>7. /\ DOMAIN paid' \subseteq 1 .. Len(s) /\ 1 \in DOMAIN paid'
      /\ \A i \in DOMAIN paid' : paid'[i] = s[i]
  BY <1>1, <1>3, <1>4, PaidAre
<1>8. \A i, j \in 1 .. Len(s) : s[i] = s[j] => i = j
  BY <1>1, OrderIs
<1> QED
  BY <1>6, <1>7, <1>8

(* Nothing but the end of a hand, and a crash, changes what is paid.       *)
LEMMA OnlyHandsPay ==
  ASSUME Next
  PROVE  \/ UNCHANGED manager
         \/ paid' = paid /\ (status' = status \/ status' = "running")
         \/ entry' = << >> /\ status' = "registration"
         \/ \E t \in DOMAIN list : \E stacks \in Hands(t) : HandComplete(t, stacks)
<1>1. CASE Handle
  BY <1>1 DEF Handle, PayEntry, PayRebuy, Debit, Leave, UnregisterPlayer
<1>2. CASE Finish
  BY <1>2
     DEF Finish, Joined, RegisterPlayer, Rebought, Rebuy, Refused, Refund, RefundFails
<1>3. CASE Direct
  BY <1>3 DEF Direct, Start, AdvanceBlindLevel, Addon
<1>4. CASE Crash
  BY <1>4 DEF Crash
<1> QED
  BY <1>1, <1>2, <1>3, <1>4 DEF Next

(* Who is the only one in when the last hand ends is paid first, and       *)
(* nobody twice, unless an add-on gave chips to somebody who was out; and  *)
(* what is paid stays as it is.                                            *)
THEOREM WinnerIsPaid == Spec => WinnerPaid
<1> DEFINE Step ==
      /\ status = "completed" => paid' = paid \/ entry' = << >>
      /\ status' = "completed" /\ status # "completed" =>
           LET e == entry' IN
           (\A p \in DOMAIN e : e[p].out => e[p].chips = 0)
             => /\ paid'[1] \in In(e)
                /\ \A i, j \in DOMAIN paid' : i # j => paid'[i] # paid'[j]
<1>1. ASSUME IInv, Next PROVE Step \/ UNCHANGED manager
  <2>1. ManagerOK
    BY <1>1, IInvIs
  <2>2. CASE UNCHANGED manager
    BY <2>2
  <2>3. CASE paid' = paid /\ (status' = status \/ status' = "running")
    BY <2>3
  <2>4. CASE entry' = << >> /\ status' = "registration"
    BY <2>4
  <2>5. ASSUME NEW t \in DOMAIN list, NEW stacks \in Hands(t), HandComplete(t, stacks)
        PROVE  Step
    <3>1. status # "completed"
      BY <2>5 DEF HandComplete
    <3> QED
      BY <2>1, <2>5, <3>1, LastHandPays
  <2> QED
    BY <1>1, <2>2, <2>3, <2>4, <2>5, OnlyHandsPay
<1>2. UNCHANGED vars => UNCHANGED manager
  BY DEF vars, manager
<1>3. IInv /\ [Next]_vars => [Step]_manager
  BY <1>1, <1>2
<1>4. []IInv /\ [][Next]_vars => [][Step]_manager
  BY <1>3, PTL
<1> QED
  BY <1>4, DeskInvariant, PTL DEF Spec, WinnerPaid

=============================================================================
