---------------------------- MODULE ServerProofs ----------------------------
(***************************************************************************)
(* Proofs about two parts of the server that share no variable: Accounts,  *)
(* for any number of names, ids and days, with and without crashes and     *)
(* statements that fail, and then Matchmaking, for any players, buy-ins    *)
(* and table size.                                                         *)
(***************************************************************************)
EXTENDS Accounts, Matchmaking, Sums, SequenceTheorems

Shapes ==
  /\ paid \in [Ids -> [1 .. MaxDay -> Nat]]
  /\ irregular \subseteq Ids /\ erased \subseteq Ids /\ kept \subseteq Ids

(* What the UNIQUE columns of the table promise.                           *)
RowsOK ==
  /\ \A i \in Ids : row[i] # None => row[i].id = i
  /\ \A i, j \in Ids :
       row[i] # None /\ row[j] # None /\ row[i].name = row[j].name => i = j

(* The next id is above every one that is in use.  The id of an erased     *)
(* account stays below some row, so that a restart does not give it again. *)
IdsOK ==
  /\ \A i \in Ids : row[i] # None \/ byId[i] # None => i < nextId
  /\ \A i \in erased \ kept : \E j \in Ids : i <= j /\ row[j] # None

(* Neither a row nor an entry in memory lets an erased account back in.    *)
ErasedOK ==
  \A i \in erased \ kept : /\ row[i] # None => ~row[i].hash
                           /\ byId[i] # None => ~byId[i].hash

(* A bonus that was paid is recorded, or the running claim will record it. *)
BonusesOK ==
  /\ \A i \in Ids : bonus[i].last <= day
  /\ ~Ready => /\ claim.today \in 1 .. day
               /\ bonus[claim.id].last < claim.today
  /\ \A i \in Ids \ irregular, d \in 1 .. MaxDay :
       paid[i][d] > 0 => \/ d <= bonus[i].last
                         \/ claim.step = "paid" /\ claim.id = i /\ claim.today = d

(* The streak in the table is that of the last day recorded, also while a  *)
(* claim is under way, and the claim carries the one it will record.       *)
StreaksOK ==
  /\ \A i \in Ids \ (irregular \cup misdated) : bonus[i].streak = Run(i)
  /\ claim.step = "read" => claim.streak = bonus[claim.id].streak
  /\ claim.step = "paid" /\ claim.id \notin irregular =>
       /\ claim.id \notin misdated =>
            claim.streak = IF bonus[claim.id].last = claim.today - 1
                             THEN bonus[claim.id].streak + 1 ELSE 1
       /\ paid[claim.id][claim.today] > 0

(* The inductive invariant.                                                *)
IInv ==
  /\ CacheIsCurrent
  /\ Shapes
  /\ RowsOK
  /\ IdsOK
  /\ ErasedOK
  /\ OneBonusADay
  /\ BonusesOK
  /\ StreaksOK

(* The part of it that is about rows and indices.                          *)
Stored ==
  /\ row \in [Ids -> Account \cup {None}]
  /\ byId \in [Ids -> Account \cup {None}]
  /\ byName \in [Names -> Account \cup {None}]
  /\ nextId \in 1 .. MaxId + 1
  /\ erased \subseteq Ids /\ kept \subseteq Ids

ById   == \A i \in Ids : byId[i] # None => byId[i].id = i /\ byName[byId[i].name] = byId[i]
ByName == \A n \in Names : byName[n] # None => byName[n].name = n /\ byId[byName[n].id] = byName[n]
Cached == \A i \in Ids : row[i] # None => byId[i] \in {None, row[i]}
Loaded == \A i \in Ids \ erased : row[i] # None => byId[i] # None

Core == Stored /\ ById /\ ByName /\ Cached /\ Loaded /\ RowsOK /\ IdsOK /\ ErasedOK

(* The part of it that is about bonuses.                                   *)
Booked ==
  /\ bonus \in [Ids -> [last: 0 .. MaxDay, streak: Nat]]
  /\ paid \in [Ids -> [1 .. MaxDay -> Nat]]
  /\ irregular \subseteq Ids
  /\ day \in 1 .. MaxDay
  /\ claim \in Claim

Bonuses == Booked /\ OneBonusADay /\ BonusesOK /\ StreaksOK

Others ==
  /\ failed \in [Names -> 0 .. MaxLoginAttempts]
  /\ locked \subseteq Names
  /\ tokens \subseteq Ids
  /\ table \in [Ids -> {0, Stake}]

LEMMA Parts == IInv <=> Core /\ Bonuses /\ Others
  BY DEF IInv, CacheIsCurrent, TypeOK, Shapes, Core, Stored, ById, ByName, Cached,
         Loaded, Bonuses, Booked, Others

LEMMA PartsNext == Core' /\ Bonuses' /\ Others' => IInv'
  BY DEF IInv, CacheIsCurrent, TypeOK, Shapes, Core, Stored, ById, ByName, Cached,
         Loaded, Bonuses, Booked, Others

-----------------------------------------------------------------------------
(* A bounded set of numbers has a greatest one.                            *)
LEMMA MaxOfBounded ==
  ASSUME NEW n \in Nat, NEW S \in SUBSET (0 .. n), S # {}
  PROVE  Max(S) \in S /\ \A x \in S : x <= Max(S)
<1> DEFINE T == {n - x : x \in S}
<1>1. T \subseteq Nat /\ T # {}
  <2>1. \A x \in S : n - x \in Nat
    OBVIOUS
  <2>2. T \subseteq Nat
    BY <2>1, Zenon
  <2>3. T # {}
    BY Zenon
  <2> QED
    BY <2>2, <2>3
<1>2. PICK y \in T : \A z \in T : ~(<<z, y>> \in OpToRel(<, Nat))
  BY <1>1, NatLessThanWellFounded, WFMin
<1>3. \A z \in T : ~(z < y)
  BY <1>1, <1>2 DEF OpToRel
<1>4. PICK m \in S : y = n - m
  OBVIOUS
<1>5. \A x \in S : m >= x
  <2> TAKE x \in S
  <2>1. n - x \in T
    OBVIOUS
  <2>2. ~(n - x < n - m)
    BY <1>3, <1>4, <2>1
  <2> QED
    BY <2>2
<1>6. \A k \in S : (\A x \in S : k >= x) <=> k = m
  <2> TAKE k \in S
  <2>1. k \in Int /\ m \in Int
    OBVIOUS
  <2> QED
    BY <1>5, <2>1
<1>7. Max(S) = CHOOSE x \in S : \A z \in S : x >= z
  BY DEF Max
<1> QED
  BY <1>5, <1>7

(* Changing the chips of an account changes nothing else.                  *)
LEMMA WithChips ==
  ASSUME NEW a \in Account, NEW n \in Nat
  PROVE  /\ [a EXCEPT !.chips = n] \in Account
         /\ [a EXCEPT !.chips = n].id = a.id
         /\ [a EXCEPT !.chips = n].name = a.name
         /\ [a EXCEPT !.chips = n].hash = a.hash
         /\ [a EXCEPT !.chips = n].chips = n
  BY DEF Account

(* A movement of chips keeps rows and indices together.                    *)
LEMMA CoreMove ==
  ASSUME Core, NEW i \in Ids, NEW amount \in Int, Move(i, amount),
         UNCHANGED <<nextId, erased, kept>>
  PROVE  Core'
<1> DEFINE n == row[i].chips + amount
<1> DEFINE a == [row[i] EXCEPT !.chips = n]
<1> USE AccountsAssumption
<1>1. row[i] \in Account /\ row[i] # None /\ n \in Nat
  BY DEF Core, Stored, Move, Account
<1>2. /\ a \in Account /\ a # None
      /\ a.id = row[i].id /\ a.name = row[i].name /\ a.hash = row[i].hash
  BY <1>1, WithChips
<1>3. row' = [row EXCEPT ![i] = a]
  BY <1>1 DEF Move, Core, Stored
<1>4. row[i].id = i /\ row[i].name \in Names
  BY <1>1 DEF Core, RowsOK, Account
<1> HIDE DEF a
<1>5. CASE byId[i] = None
  <2>1. byId' = byId /\ byName' = byName
    BY <1>5 DEF Move, SetPlayerChips
  <2> QED
    BY <1>1, <1>2, <1>3, <1>4, <1>5, <2>1
       DEF Core, Stored, ById, ByName, Cached, Loaded, RowsOK, IdsOK, ErasedOK
<1>6. CASE byId[i] # None
  <2> DEFINE m == row[i].name
  <2>1. byId[i] = row[i] /\ byName[m] = row[i]
    BY <1>1, <1>6 DEF Core, Cached, ById
  <2>2. byId' = [byId EXCEPT ![i] = a] /\ byName' = [byName EXCEPT ![m] = a]
    BY <1>6, <2>1 DEF Move, SetPlayerChips, a, Core, Stored
  <2>3. /\ byId'[i] = a /\ row'[i] = a /\ byName'[m] = a
        /\ \A j \in Ids \ {i} : byId'[j] = byId[j] /\ row'[j] = row[j]
        /\ \A k \in Names \ {m} : byName'[k] = byName[k]
    BY <1>3, <1>4, <2>2 DEF Core, Stored
  <2>4. Stored'
    BY <1>2, <1>3, <1>4, <2>2 DEF Core, Stored
  <2>5. ById'
    BY <1>2, <1>4, <2>1, <2>3 DEF Core, Stored, ById, ByName, Account
  <2>6. ByName'
    BY <1>2, <1>4, <2>1, <2>3 DEF Core, Stored, ById, ByName, Account
  <2>7. Cached' /\ Loaded'
    BY <1>2, <2>3 DEF Core, Cached, Loaded
  <2>8. RowsOK'
    BY <1>1, <1>2, <1>4, <2>3 DEF Core, RowsOK
  <2>9. IdsOK'
    BY <1>1, <1>2, <2>1, <2>3 DEF Core, Stored, IdsOK
  <2>10. ErasedOK'
    BY <1>1, <1>2, <2>1, <2>3 DEF Core, Stored, ErasedOK
  <2> QED
    BY <2>4, <2>5, <2>6, <2>7, <2>8, <2>9, <2>10 DEF Core
<1> QED
  BY <1>5, <1>6

(* No id at or above the next one is in use, or belonged to somebody who   *)
(* is kept out.                                                            *)
LEMMA NextIdIsFree ==
  ASSUME Core, NEW k \in Ids, nextId <= k
  PROVE  row[k] = None /\ byId[k] = None /\ k \notin erased \ kept
<1>1. k \in Int /\ nextId \in Int /\ Ids \subseteq Int
  BY DEF Core, Stored, Ids
<1>2. ~(k < nextId)
  BY <1>1
<1>3. row[k] = None /\ byId[k] = None
  BY <1>2 DEF Core, IdsOK
<1>4. k \notin erased \ kept
  <2> SUFFICES ASSUME k \in erased \ kept PROVE FALSE
    OBVIOUS
  <2>1. PICK j \in Ids : k <= j /\ row[j] # None
    BY DEF Core, IdsOK
  <2>2. j < nextId
    BY <2>1 DEF Core, IdsOK
  <2> QED
    BY <1>1, <2>1, <2>2
<1> QED
  BY <1>3, <1>4

LEMMA CoreRegister ==
  ASSUME Core, NEW n \in Names, NEW saved \in BOOLEAN, Register(n, saved)
  PROVE  Core'
<1> USE AccountsAssumption
<1> DEFINE k == nextId
<1> DEFINE a == [id |-> k, name |-> n, hash |-> TRUE, chips |-> OpeningChips]
<1>1. k \in Ids /\ nextId' = k + 1 /\ nextId' \in 1 .. MaxId + 1
  BY DEF Core, Stored, Register, Ids
<1>2. row[k] = None /\ byId[k] = None /\ k \notin erased \ kept
  BY <1>1, NextIdIsFree DEF Ids
<1>3. a \in Account /\ a # None /\ a.id = k /\ a.name = n /\ a.hash
  <2>1. OpeningChips \in Nat
    OBVIOUS
  <2>2. a \in Account
    BY <1>1, <2>1 DEF Account
  <2> QED
    BY <2>2
<1>4. /\ byName[n] = None /\ erased' = erased /\ kept' = kept
      /\ byId' = [byId EXCEPT ![k] = a] /\ byName' = [byName EXCEPT ![n] = a]
      /\ row' = IF saved THEN Inserted(a) ELSE row
  BY DEF Register, past
<1> HIDE DEF a
<1>5. /\ byId'[k] = a /\ \A j \in Ids \ {k} : byId'[j] = byId[j]
      /\ byName'[n] = a /\ \A m \in Names \ {n} : byName'[m] = byName[m]
  BY <1>1, <1>4 DEF Core, Stored
<1>6. /\ \A j \in Ids \ {k} : row'[j] # None => row'[j] = row[j]
      /\ row'[k] \in {a, None}
      /\ saved => row'[k] = a /\ \A j \in Ids \ {k} : row'[j] # None => row'[j].name # n
      /\ row' \in [Ids -> Account \cup {None}]
  BY <1>1, <1>2, <1>3, <1>4 DEF Core, Stored, Inserted
<1>7. Stored'
  BY <1>1, <1>3, <1>4, <1>6 DEF Core, Stored
<1>8. \A j \in Ids : byId[j] # None => byId[j].name \in Names \ {n} /\ j # k
  BY <1>2, <1>4 DEF Core, Stored, ById, Account
<1>9. ById'
  BY <1>3, <1>5, <1>8 DEF Core, ById
<1>10. \A m \in Names : byName[m] # None => byName[m].id \in Ids \ {k}
  BY <1>2 DEF Core, Stored, ByName, Account
<1>11. ByName'
  BY <1>3, <1>5, <1>10, <1>1 DEF Core, ByName
<1>12. Cached' /\ Loaded'
  BY <1>1, <1>2, <1>3, <1>4, <1>5, <1>6 DEF Core, Cached, Loaded
<1>13. RowsOK'
  <2>1. CASE saved
    BY <1>1, <1>3, <1>6, <2>1 DEF Core, RowsOK
  <2>2. CASE ~saved
    BY <1>4, <2>2 DEF Core, RowsOK
  <2> QED
    BY <2>1, <2>2
<1>14. IdsOK'
  <2>1. \A j \in Ids : row'[j] # None \/ byId'[j] # None => j < nextId'
    <3> TAKE j \in Ids
    <3>1. j \in Int /\ k \in Int
      BY <1>1 DEF Ids
    <3>2. CASE j = k
      BY <1>1, <3>1, <3>2
    <3>3. CASE j # k
      <4>1. row'[j] # None \/ byId'[j] # None => j < k
        BY <1>5, <1>6, <3>3 DEF Core, IdsOK
      <4> QED
        BY <1>1, <3>1, <4>1
    <3> QED
      BY <3>2, <3>3
  <2>2. ASSUME NEW j \in erased \ kept PROVE \E l \in Ids : j <= l /\ row'[l] # None
    <3>1. PICK l \in Ids : j <= l /\ row[l] # None
      BY DEF Core, IdsOK
    <3>2. l < k /\ j \in Ids
      BY <3>1 DEF Core, Stored, IdsOK
    <3>3. j <= k
      BY <1>1, <3>1, <3>2 DEF Ids
    <3>4. CASE saved
      BY <1>1, <1>3, <1>6, <3>3, <3>4
    <3>5. CASE ~saved
      BY <1>4, <3>1, <3>5
    <3> QED
      BY <3>4, <3>5
  <2> QED
    BY <1>4, <2>1, <2>2 DEF IdsOK
<1>15. ErasedOK'
  BY <1>2, <1>4, <1>5, <1>6 DEF Core, Stored, ErasedOK
<1> QED
  BY <1>7, <1>9, <1>11, <1>12, <1>13, <1>14, <1>15 DEF Core

LEMMA CoreDelete ==
  ASSUME Core, NEW i \in Ids, NEW busy \in BOOLEAN, DeleteAccount(i, busy)
  PROVE  Core'
<1> USE AccountsAssumption
<1> DEFINE done == row[i] # None /\ ~NameTaken(i) /\ ~busy
<1>1. /\ row' = IF done THEN Anonymous(i) ELSE row
      /\ EvictPlayer(i) /\ nextId' = nextId
      /\ erased' = erased \cup {i}
      /\ kept' = IF done THEN kept \ {i} ELSE kept \cup {i}
  BY DEF DeleteAccount
<1>2. \A j \in Ids \ {i} : row'[j] = row[j]
  BY <1>1 DEF Core, Stored, Anonymous
<1>3. row[i] = None => row'[i] = None
  BY <1>1
<1>4. row[i] # None => /\ row'[i] \in Account /\ row'[i].id = i
                       /\ done => ~row'[i].hash /\ row'[i].name = AnonName[i]
                       /\ ~done => row'[i] = row[i]
  <2> SUFFICES ASSUME row[i] # None PROVE
         /\ row'[i] \in Account /\ row'[i].id = i
         /\ done => ~row'[i].hash /\ row'[i].name = AnonName[i]
         /\ ~done => row'[i] = row[i]
    OBVIOUS
  <2>1. row[i] \in Account /\ row[i].id = i
    BY DEF Core, Stored, RowsOK
  <2>2. CASE done
    <3>1. row'[i] = [row[i] EXCEPT !.name = AnonName[i], !.hash = FALSE, !.chips = 0]
      BY <1>1, <2>2 DEF Anonymous, Core, Stored
    <3>2. AnonName[i] \in Names
      OBVIOUS
    <3>3. row'[i] = [id |-> i, name |-> AnonName[i], hash |-> FALSE, chips |-> 0]
      BY <2>1, <3>1 DEF Account
    <3> QED
      BY <2>2, <3>2, <3>3 DEF Account
  <2>3. CASE ~done
    BY <1>1, <2>1, <2>3
  <2> QED
    BY <2>2, <2>3
<1>5. row' \in [Ids -> Account \cup {None}]
  BY <1>1, <1>2, <1>3, <1>4 DEF Core, Stored, Anonymous
<1>6. /\ byId'[i] = None /\ \A j \in Ids \ {i} : byId'[j] = byId[j]
      /\ \A m \in Names : byName'[m] # None => byName'[m] = byName[m]
      /\ \A m \in Names : byName[m] # None /\ byName[m].id # i => byName'[m] = byName[m]
      /\ \A m \in Names : byName'[m] # None => byName[m].id # i
      /\ byId' \in [Ids -> Account \cup {None}] /\ byName' \in [Names -> Account \cup {None}]
  <2>1. CASE byId[i] = None
    <3>1. byId' = byId /\ byName' = byName
      BY <1>1, <2>1 DEF EvictPlayer
    <3>2. \A m \in Names : byName[m] # None => byName[m].id # i
      BY <2>1 DEF Core, ByName
    <3> QED
      BY <2>1, <3>1, <3>2 DEF Core, Stored
  <2>2. CASE byId[i] # None
    <3> DEFINE n == byId[i].name
    <3>1. n \in Names /\ byId[i].id = i /\ byName[n] = byId[i]
      BY <2>2 DEF Core, Stored, ById, Account
    <3>2. byId' = [byId EXCEPT ![i] = None] /\ byName' = [byName EXCEPT ![n] = None]
      BY <1>1, <2>2 DEF EvictPlayer
    <3>3. \A m \in Names \ {n} : byName[m] # None => byName[m].id # i
      BY <3>1 DEF Core, ByName
    <3> HIDE DEF n
    <3>4. byName'[n] = None /\ \A m \in Names \ {n} : byName'[m] = byName[m]
      BY <3>1, <3>2 DEF Core, Stored
    <3> QED
      BY <3>1, <3>2, <3>3, <3>4, <2>2 DEF Core, Stored
  <2> QED
    BY <2>1, <2>2
<1>7. Stored'
  BY <1>1, <1>5, <1>6 DEF Core, Stored
<1>8. ById' /\ ByName'
  BY <1>6 DEF Core, Stored, Account, ById, ByName
<1>9. Cached' /\ Loaded'
  BY <1>1, <1>2, <1>6 DEF Core, Cached, Loaded
<1>10. RowsOK'
  <2>1. \A j \in Ids \ {i} : done /\ row[j] # None => row[j].name # AnonName[i]
    BY DEF NameTaken
  <2> QED
    BY <1>2, <1>3, <1>4, <2>1 DEF Core, RowsOK
<1>11. \A j \in Ids : row[j] # None => row'[j] # None
  BY <1>2, <1>4
<1>12. IdsOK'
  <2>1. \A j \in Ids : row'[j] # None \/ byId'[j] # None => j < nextId'
    BY <1>1, <1>2, <1>3, <1>6 DEF Core, IdsOK
  <2>2. ASSUME NEW j \in erased' \ kept' PROVE \E l \in Ids : j <= l /\ row'[l] # None
    <3>1. CASE j = i
      <4>1. done
        BY <1>1, <3>1
      <4> QED
        BY <1>11, <3>1, <4>1 DEF Ids
    <3>2. CASE j # i
      <4>1. j \in erased \ kept
        BY <1>1, <3>2
      <4> QED
        BY <1>11, <4>1 DEF Core, IdsOK
    <3> QED
      BY <3>1, <3>2
  <2> QED
    BY <2>1, <2>2 DEF IdsOK
<1>13. ErasedOK'
  BY <1>1, <1>2, <1>4, <1>6 DEF Core, Stored, ErasedOK
<1> QED
  BY <1>7, <1>8, <1>9, <1>10, <1>12, <1>13 DEF Core

LEMMA CoreCrash ==
  ASSUME Core, Crash
  PROVE  Core'
<1> USE AccountsAssumption
<1> DEFINE Named(n) == {i \in Ids : row[i] # None /\ row[i].name = n}
<1> DEFINE S == {i \in Ids : row[i] # None}
<1>1. /\ byId' = row /\ row' = row /\ erased' = erased /\ kept' = kept
      /\ byName' = [n \in Names |-> IF \E i \in Ids : row[i] # None /\ row[i].name = n
                      THEN row[CHOOSE i \in Ids : row[i] # None /\ row[i].name = n]
                      ELSE None]
      /\ nextId' = Max({0} \cup S) + 1
  BY DEF Crash, SetAccountRepository, LoadAll
<1>2. \A n \in Names : byName'[n] # None => byName'[n].name = n /\ row[byName'[n].id] = byName'[n]
  <2> TAKE n \in Names
  <2> HAVE byName'[n] # None
  <2> DEFINE w == CHOOSE i \in Ids : row[i] # None /\ row[i].name = n
  <2>1. (\E i \in Ids : row[i] # None /\ row[i].name = n) /\ byName'[n] = row[w]
    BY <1>1
  <2>2. w \in Ids /\ row[w] # None /\ row[w].name = n
    BY <2>1
  <2> QED
    BY <2>1, <2>2 DEF Core, RowsOK
<1>3. \A i \in Ids : row[i] # None => row[i].name \in Names /\ byName'[row[i].name] = row[i]
  <2> TAKE i \in Ids
  <2> HAVE row[i] # None
  <2> DEFINE n == row[i].name
  <2> DEFINE w == CHOOSE j \in Ids : row[j] # None /\ row[j].name = n
  <2>1. n \in Names
    BY DEF Core, Stored, Account
  <2>2. byName'[n] = row[w]
    BY <1>1, <2>1
  <2>3. w \in Ids /\ row[w] # None /\ row[w].name = n
    OBVIOUS
  <2> QED
    BY <2>1, <2>2, <2>3 DEF Core, RowsOK
<1>4. byName' \in [Names -> Account \cup {None}]
  <2>1. \A n \in Names : (\E i \in Ids : row[i] # None /\ row[i].name = n)
          => (CHOOSE i \in Ids : row[i] # None /\ row[i].name = n) \in Ids
    OBVIOUS
  <2> QED
    BY <1>1, <2>1 DEF Core, Stored
<1>5. Max({0} \cup S) \in {0} \cup S /\ \A i \in S : i <= Max({0} \cup S)
  <2>1. {0} \cup S \in SUBSET (0 .. MaxId) /\ MaxId \in Nat
    BY DEF Ids
  <2> QED
    BY <2>1, MaxOfBounded
<1>6. nextId' \in 1 .. MaxId + 1 /\ \A i \in S : i < nextId'
  <2> DEFINE m == Max({0} \cup S)
  <2>1. MaxId \in Int /\ S \subseteq 1 .. MaxId
    BY DEF Ids
  <2>2. m \in {0} \cup S /\ (\A i \in S : i <= m) /\ nextId' = m + 1
    BY <1>1, <1>5
  <2> HIDE DEF m, S
  <2>3. m \in 0 .. MaxId
    BY <2>1, <2>2
  <2> QED
    BY <2>1, <2>2, <2>3
<1>7. Stored'
  BY <1>1, <1>4, <1>6 DEF Core, Stored
<1>8. ById' /\ ByName' /\ Cached' /\ Loaded'
  BY <1>1, <1>2, <1>3 DEF Core, RowsOK, ById, ByName, Cached, Loaded
<1>9. RowsOK' /\ ErasedOK'
  BY <1>1 DEF Core, RowsOK, ErasedOK
<1>10. IdsOK'
  BY <1>1, <1>6 DEF Core, IdsOK
<1> QED
  BY <1>7, <1>8, <1>9, <1>10 DEF Core

-----------------------------------------------------------------------------
(* The days in a row up to t on which p says that a bonus was paid.        *)
InRow(p, t) == {d \in 1 .. t : \A e \in d .. t : p[e] > 0}

LEMMA RunIsInRow ==
  ASSUME NEW i \in Ids
  PROVE  Run(i) = Cardinality(InRow(paid[i], bonus[i].last))
  BY DEF Run, InRow

(* One day more in a row, and the first after a gap.                       *)
LEMMA OneDayMore ==
  ASSUME NEW t \in Nat \ {0}, NEW p \in [1 .. t -> Nat], p[t] > 0
  PROVE  /\ Cardinality(InRow(p, t)) = Cardinality(InRow(p, t - 1)) + 1
         /\ t > 1 /\ p[t - 1] = 0 => Cardinality(InRow(p, t)) = 1
<1> DEFINE A == InRow(p, t - 1)
<1>1. A \subseteq 1 .. t - 1 /\ t \notin A
  BY DEF InRow
<1>2. InRow(p, t) = A \cup {t}
  <2>1. ASSUME NEW d \in InRow(p, t) PROVE d \in A \cup {t}
    <3>1. d \in 1 .. t /\ \A e \in d .. t : p[e] > 0
      BY <2>1 DEF InRow
    <3> QED
      BY <3>1 DEF InRow
  <2>2. ASSUME NEW d \in A PROVE d \in InRow(p, t)
    <3>1. d \in 1 .. t - 1 /\ \A e \in d .. t - 1 : p[e] > 0
      BY <2>2 DEF InRow
    <3>2. \A e \in d .. t : e = t \/ e \in d .. t - 1
      BY <3>1
    <3> QED
      BY <3>1, <3>2 DEF InRow
  <2>3. t \in InRow(p, t)
    BY DEF InRow
  <2> QED
    BY <2>1, <2>2, <2>3
<1> HIDE DEF A
<1>3. IsFiniteSet(1 .. t - 1)
  <2>1. t - 1 \in Int /\ 1 \in Int
    OBVIOUS
  <2> QED
    BY <2>1, FS_Interval
<1>4. IsFiniteSet(A)
  BY <1>1, <1>3, FS_Subset
<1>5. Cardinality(A \cup {t}) = Cardinality(A) + 1
  BY <1>1, <1>4, FS_AddElement
<1>6. ASSUME t > 1, p[t - 1] = 0 PROVE A = {}
  <2> SUFFICES ASSUME NEW d \in A PROVE FALSE
    OBVIOUS
  <2>1. d \in 1 .. t - 1 /\ \A e \in d .. t - 1 : p[e] > 0
    BY DEF A, InRow
  <2>2. t - 1 \in d .. t - 1
    BY <2>1
  <2> QED
    BY <1>6, <2>1, <2>2
<1>7. Cardinality({}) = 0
  BY FS_EmptySet
<1>8. Cardinality(InRow(p, t)) = Cardinality(A) + 1
  BY <1>2, <1>5
<1>9. ASSUME t > 1, p[t - 1] = 0 PROVE Cardinality(InRow(p, t)) = 1
  <2>1. Cardinality(A) = 0
    BY <1>6, <1>7, <1>9
  <2> QED
    BY <1>8, <2>1
<1> QED
  BY <1>8, <1>9 DEF A

(* A day after t changes nothing.                                          *)
LEMMA InRowSame ==
  ASSUME NEW t \in Nat, NEW p, NEW q, \A e \in 1 .. t : p[e] = q[e]
  PROVE  InRow(p, t) = InRow(q, t)
<1>1. \A d \in 1 .. t : \A e \in d .. t : p[e] = q[e]
  OBVIOUS
<1> QED
  BY <1>1 DEF InRow

LEMMA BonusesSame ==
  ASSUME Bonuses, UNCHANGED <<bonus, paid, irregular, misdated, day, claim>>
  PROVE  Bonuses'
  BY DEF Bonuses, Booked, OneBonusADay, BonusesOK, StreaksOK, Ready, Run

LEMMA PaidIsRecorded ==
  ASSUME Bonuses, NEW i \in Ids \ irregular, NEW d \in 1 .. MaxDay, paid[i][d] > 0
  PROVE  d <= bonus[i].last \/ (claim.step = "paid" /\ claim.id = i /\ claim.today = d)
  BY DEF Bonuses, BonusesOK

LEMMA BonusesRead ==
  ASSUME Bonuses, NEW i \in Ids, ReadBonus(i)
  PROVE  Bonuses'
<1> USE AccountsAssumption
<1>1. /\ claim.step = "idle" /\ bonus[i].last # day
      /\ claim' = [step |-> "read", id |-> i, today |-> day, streak |-> bonus[i].streak]
      /\ UNCHANGED <<bonus, paid, irregular, misdated, day>>
  BY DEF ReadBonus, Ready, past
<1>2. Booked'
  BY <1>1 DEF Bonuses, Booked, Claim
<1>3. bonus[i].last < day /\ day \in 1 .. day
  BY <1>1 DEF Bonuses, Booked, BonusesOK
<1>4. BonusesOK'
  BY <1>1, <1>3 DEF Bonuses, BonusesOK, Ready
<1>5. OneBonusADay' /\ StreaksOK'
  BY <1>1 DEF Bonuses, OneBonusADay, StreaksOK, Run
<1> QED
  BY <1>2, <1>4, <1>5 DEF Bonuses

(* A claim that ends without a record, after a credit only as an irregular *)
(* one.                                                                    *)
LEMMA BonusesDrop ==
  ASSUME Bonuses, UNCHANGED <<bonus, paid, misdated, day>>, claim' = NoClaim,
         irregular \subseteq irregular', irregular' \subseteq Ids,
         claim.step = "paid" => claim.id \in irregular'
  PROVE  Bonuses'
<1> USE AccountsAssumption
<1>1. claim'.step = "idle" /\ claim' \in Claim
  BY DEF NoClaim, Claim, Ids
<1>2. Booked'
  BY <1>1 DEF Bonuses, Booked
<1>3. BonusesOK'
  BY <1>1 DEF Bonuses, BonusesOK, Ready
<1>4. OneBonusADay' /\ StreaksOK'
  BY <1>1 DEF Bonuses, OneBonusADay, StreaksOK, Run
<1> QED
  BY <1>2, <1>3, <1>4 DEF Bonuses

LEMMA BonusesPay ==
  ASSUME Bonuses, NEW yesterday \in Yesterdays, NEW busy \in BOOLEAN,
         PayBonus(yesterday, busy)
  PROVE  Bonuses'
<1> USE AccountsAssumption
<1> DEFINE i == claim.id
<1> DEFINE t == claim.today
<1>1. /\ claim.step = "read" /\ UNCHANGED <<bonus, day>>
      /\ irregular' = IF day # t THEN irregular \cup {i} ELSE irregular
  BY DEF PayBonus
<1>2. /\ i \in Ids /\ t \in 1 .. MaxDay /\ day \in Nat /\ bonus[i].last \in Nat
      /\ bonus[i].streak \in Nat /\ bonus[i].last < t /\ t <= day
      /\ claim.streak = bonus[i].streak
  BY <1>1 DEF Bonuses, Booked, BonusesOK, StreaksOK, Claim, Ready
<1>3. CASE busy \/ row[i] = None
  <2>1. claim' = NoClaim /\ paid' = paid /\ misdated' = misdated
    BY <1>3 DEF PayBonus
  <2>2. irregular' \subseteq Ids
    BY <1>1, <1>2 DEF Bonuses, Booked
  <2> QED
    BY <1>1, <2>1, <2>2, BonusesDrop
<1>4. CASE ~(busy \/ row[i] = None)
  <2>1. /\ paid' = [paid EXCEPT ![i][t] = @ + 1]
        /\ claim' = [claim EXCEPT !.step = "paid", !.streak = NewStreak(yesterday)]
        /\ misdated' = IF yesterday # day - 1 THEN misdated \cup {i} ELSE misdated
    BY <1>4 DEF PayBonus
  <2>2. NewStreak(yesterday) \in Nat
    BY <1>2 DEF NewStreak
  <2>3. /\ claim' \in Claim /\ claim'.step = "paid" /\ claim'.id = i
        /\ claim'.today = t /\ claim'.streak = NewStreak(yesterday)
    BY <2>1, <2>2 DEF Bonuses, Booked, Claim
  <2>4. /\ paid' \in [Ids -> [1 .. MaxDay -> Nat]]
        /\ paid'[i][t] = paid[i][t] + 1
        /\ \A d \in 1 .. MaxDay \ {t} : paid'[i][d] = paid[i][d]
        /\ \A j \in Ids \ {i} : paid'[j] = paid[j]
    <3>1. paid \in [Ids -> [1 .. MaxDay -> Nat]]
      BY DEF Bonuses, Booked
    <3>2. paid[i][t] + 1 \in Nat
      <4>1. paid[i] \in [1 .. MaxDay -> Nat] /\ t \in 1 .. MaxDay
        BY <1>2, <3>1
      <4> HIDE DEF i, t
      <4>2. paid[i][t] \in Nat
        BY <4>1
      <4> QED
        BY <4>2
    <3> DEFINE q == [paid[i] EXCEPT ![t] = paid[i][t] + 1]
    <3>3. /\ q \in [1 .. MaxDay -> Nat] /\ q[t] = paid[i][t] + 1
          /\ \A d \in 1 .. MaxDay \ {t} : q[d] = paid[i][d]
      BY <1>2, <3>1, <3>2
    <3>4. paid' = [paid EXCEPT ![i] = q]
      BY <2>1
    <3> HIDE DEF q
    <3> QED
      BY <1>2, <3>1, <3>3, <3>4
  <2>5. Booked'
    BY <1>1, <1>2, <2>3, <2>4 DEF Bonuses, Booked
  <2>6. \A j \in Ids \ irregular' : j \notin irregular /\ (j = i => day = t)
    BY <1>1
  <2>7. i \notin irregular => paid[i][t] = 0
    <3>1. i \notin irregular => ~(paid[i][t] > 0)
      BY <1>1, <1>2 DEF Bonuses, BonusesOK
    <3>2. paid[i][t] \in Nat
      BY <1>2 DEF Bonuses, Booked
    <3> QED
      BY <3>1, <3>2
  <2>8. OneBonusADay'
    <3> SUFFICES ASSUME NEW j \in Ids \ irregular', NEW d \in 1 .. MaxDay
                 PROVE  paid'[j][d] <= 1
      BY DEF OneBonusADay
    <3>1. paid[j][d] <= 1
      BY <2>6 DEF Bonuses, OneBonusADay
    <3>2. CASE j = i /\ d = t
      BY <2>4, <2>6, <2>7, <3>2
    <3>3. CASE ~(j = i /\ d = t)
      BY <2>4, <3>1, <3>3
    <3> QED
      BY <3>2, <3>3
  <2>9. BonusesOK'
    <3>1. \A j \in Ids : bonus'[j].last <= day'
      BY <1>1 DEF Bonuses, BonusesOK
    <3>2. claim'.today \in 1 .. day' /\ bonus'[claim'.id].last < claim'.today
      BY <1>1, <1>2, <2>3
    <3>3. ASSUME NEW j \in Ids \ irregular', NEW d \in 1 .. MaxDay, paid'[j][d] > 0
          PROVE  d <= bonus'[j].last \/ (claim'.id = j /\ claim'.today = d)
      <4>1. CASE j = i /\ d = t
        BY <2>3, <4>1
      <4>2. CASE ~(j = i /\ d = t)
        <5>1. paid[j][d] > 0
          BY <2>4, <3>3, <4>2
        <5>2. d <= bonus[j].last
          BY <1>1, <2>6, <5>1, PaidIsRecorded
        <5> QED
          BY <1>1, <5>2
      <4> QED
        BY <4>1, <4>2
    <3> QED
      BY <2>3, <3>1, <3>2, <3>3 DEF BonusesOK, Ready
  <2>10. StreaksOK'
    <3>1. ASSUME NEW j \in Ids \ (irregular' \cup misdated') PROVE bonus'[j].streak = Run(j)'
      <4>1. bonus[j].streak = Cardinality(InRow(paid[j], bonus[j].last))
        BY <2>1, <2>6, RunIsInRow DEF Bonuses, StreaksOK
      <4>2. Run(j)' = Cardinality(InRow(paid'[j], bonus'[j].last))
        BY DEF Run, InRow
      <4>3. CASE j # i
        BY <1>1, <2>4, <4>1, <4>2, <4>3
      <4>4. CASE j = i
        <5>1. \A e \in 1 .. bonus[i].last : paid'[i][e] = paid[i][e]
          <6>1. \A e \in 1 .. bonus[i].last : e \in 1 .. MaxDay /\ e # t
            BY <1>2
          <6> HIDE DEF i, t
          <6> QED
            BY <2>4, <6>1
        <5>2. InRow(paid'[i], bonus[i].last) = InRow(paid[i], bonus[i].last)
          <6> DEFINE l == bonus[i].last
          <6>1. l \in Nat /\ \A e \in 1 .. l : paid'[i][e] = paid[i][e]
            BY <1>2, <5>1
          <6> HIDE DEF l
          <6> QED
            BY <6>1, InRowSame DEF l
        <5> QED
          BY <1>1, <4>1, <4>2, <4>4, <5>2
      <4> QED
        BY <4>3, <4>4
    <3>2. ASSUME i \notin irregular' \cup misdated'
          PROVE  NewStreak(yesterday) = (IF bonus[i].last = t - 1 THEN bonus[i].streak + 1 ELSE 1)
      BY <1>2, <2>1, <2>6, <3>2 DEF NewStreak
    <3>3. paid'[i][t] > 0
      <4>1. paid[i][t] \in Nat
        BY <1>2 DEF Bonuses, Booked
      <4> QED
        BY <2>4, <4>1
    <3> QED
      BY <1>1, <2>3, <3>1, <3>2, <3>3 DEF StreaksOK
  <2> QED
    BY <2>5, <2>8, <2>9, <2>10 DEF Bonuses
<1> QED
  BY <1>3, <1>4

LEMMA BonusesRecord ==
  ASSUME Bonuses, NEW busy \in BOOLEAN, RecordBonus(busy)
  PROVE  Bonuses'
<1> USE AccountsAssumption
<1> DEFINE i == claim.id
<1> DEFINE t == claim.today
<1>1. /\ claim.step = "paid" /\ claim' = NoClaim /\ UNCHANGED <<paid, day>>
      /\ bonus' = IF busy THEN bonus
                  ELSE [bonus EXCEPT ![i] = [last |-> t, streak |-> claim.streak]]
      /\ irregular' = IF busy THEN irregular \cup {i} ELSE irregular
      /\ misdated' = IF ~busy /\ bonus[i].last # t - 1 /\ claim.streak = 1
                       THEN misdated \ {i} ELSE misdated
  BY DEF RecordBonus
<1>2. /\ i \in Ids /\ t \in 1 .. MaxDay /\ claim.streak \in Nat /\ day \in Nat
      /\ bonus[i].last \in Nat /\ bonus[i].last < t /\ t <= day
  BY <1>1 DEF Bonuses, Booked, BonusesOK, Claim, Ready
<1>3. CASE busy
  <2>1. irregular' \subseteq Ids
    BY <1>1, <1>2 DEF Bonuses, Booked
  <2> QED
    BY <1>1, <1>3, <2>1, BonusesDrop
<1>4. CASE ~busy
  <2>1. /\ irregular' = irregular
        /\ bonus'[i] = [last |-> t, streak |-> claim.streak]
        /\ \A j \in Ids \ {i} : bonus'[j] = bonus[j]
        /\ bonus' \in [Ids -> [last: 0 .. MaxDay, streak: Nat]]
    BY <1>1, <1>2, <1>4 DEF Bonuses, Booked
  <2>2. claim'.step = "idle" /\ claim' \in Claim
    BY <1>1 DEF NoClaim, Claim, Ids
  <2>3. Booked' /\ OneBonusADay'
    BY <1>1, <2>1, <2>2 DEF Bonuses, Booked, OneBonusADay
  <2>4. BonusesOK'
    <3>1. \A j \in Ids : bonus'[j].last <= day'
      BY <1>1, <1>2, <2>1 DEF Bonuses, BonusesOK
    <3>2. ASSUME NEW j \in Ids \ irregular, NEW d \in 1 .. MaxDay, paid[j][d] > 0
          PROVE  d <= bonus'[j].last
      <4>1. d <= bonus[j].last \/ (i = j /\ t = d)
        BY <3>2, PaidIsRecorded
      <4> QED
        BY <1>2, <2>1, <4>1
    <3> QED
      BY <1>1, <2>1, <2>2, <3>1, <3>2 DEF BonusesOK, Ready
  <2>5. ASSUME NEW j \in Ids \ (irregular \cup misdated') PROVE bonus'[j].streak = Run(j)'
    <3>0. j \in misdated => j = i /\ bonus[i].last # t - 1 /\ claim.streak = 1
      BY <1>1
    <3>1. j \notin misdated => bonus[j].streak = Cardinality(InRow(paid[j], bonus[j].last))
      BY RunIsInRow DEF Bonuses, StreaksOK
    <3>2. Run(j)' = Cardinality(InRow(paid'[j], bonus'[j].last))
      BY DEF Run, InRow
    <3>3. CASE j # i
      BY <1>1, <2>1, <3>0, <3>1, <3>2, <3>3
    <3>4. CASE j = i
      <4> DEFINE p == [d \in 1 .. t |-> paid[i][d]]
      <4>1. p \in [1 .. t -> Nat] /\ p[t] > 0
        <5>1. paid[i] \in [1 .. MaxDay -> Nat] /\ paid[i][t] > 0
          BY <1>1, <1>2, <3>4 DEF Bonuses, Booked, StreaksOK
        <5>2. \A d \in 1 .. t : d \in 1 .. MaxDay
          BY <1>2
        <5>3. t \in 1 .. t
          BY <1>2
        <5> HIDE DEF t, i
        <5> QED
          BY <5>1, <5>2, <5>3
      <4>2. InRow(p, t) = InRow(paid[i], t) /\ InRow(p, t - 1) = InRow(paid[i], t - 1)
        <5>1. /\ \A e \in 1 .. t : p[e] = paid[i][e]
              /\ \A e \in 1 .. t - 1 : p[e] = paid[i][e]
              /\ t \in Nat /\ t - 1 \in Nat
          BY <1>2
        <5> HIDE DEF p, t
        <5> QED
          BY <5>1, InRowSame
      <4>3. /\ Cardinality(InRow(p, t)) = Cardinality(InRow(p, t - 1)) + 1
            /\ t > 1 /\ p[t - 1] = 0 => Cardinality(InRow(p, t)) = 1
        <5>1. t \in Nat \ {0}
          BY <1>2
        <5> HIDE DEF p, t
        <5> QED
          BY <4>1, <5>1, OneDayMore
      <4>4. bonus'[i].streak = (IF bonus[i].last = t - 1 THEN bonus[i].streak + 1 ELSE 1)
        BY <1>1, <2>1, <3>0, <3>4 DEF Bonuses, StreaksOK
      <4>5. Run(j)' = Cardinality(InRow(p, t))
        BY <1>1, <2>1, <3>2, <3>4, <4>2
      <4>6. CASE bonus[i].last = t - 1
        BY <3>0, <3>1, <3>4, <4>2, <4>3, <4>4, <4>5, <4>6
      <4>7. CASE bonus[i].last # t - 1
        <5>1. t > 1 /\ t - 1 \in 1 .. MaxDay /\ ~(t - 1 <= bonus[i].last) /\ t - 1 # t
          BY <1>2, <4>7
        <5>2. ~(paid[i][t - 1] > 0)
          BY <3>4, <5>1, PaidIsRecorded
        <5>3. p[t - 1] = paid[i][t - 1] /\ paid[i][t - 1] \in Nat
          <6>1. t - 1 \in 1 .. t
            BY <1>2, <5>1
          <6>2. p[t - 1] = paid[i][t - 1]
            BY <6>1
          <6>3. paid[i] \in [1 .. MaxDay -> Nat]
            BY <1>2 DEF Bonuses, Booked
          <6> QED
            BY <5>1, <6>2, <6>3
        <5>4. p[t - 1] = 0
          BY <5>2, <5>3
        <5> QED
          BY <3>4, <4>3, <4>4, <4>5, <4>7, <5>1, <5>4
      <4> QED
        BY <4>6, <4>7
    <3> QED
      BY <3>3, <3>4
  <2>6. StreaksOK'
    BY <2>1, <2>2, <2>5 DEF StreaksOK
  <2> QED
    BY <2>3, <2>4, <2>6 DEF Bonuses
<1> QED
  BY <1>3, <1>4

-----------------------------------------------------------------------------
LEMMA CoreSame ==
  ASSUME Core, UNCHANGED <<row, byId, byName, nextId, erased, kept>>
  PROVE  Core'
  BY DEF Core, Stored, ById, ByName, Cached, Loaded, RowsOK, IdsOK, ErasedOK

LEMMA InitIInv == Init => IInv
<1> USE AccountsAssumption
<1> SUFFICES ASSUME Init PROVE IInv
  OBVIOUS
<1>1. Core
  BY DEF Init, Core, Stored, ById, ByName, Cached, Loaded, RowsOK, IdsOK, ErasedOK
<1>2. Booked /\ OneBonusADay /\ BonusesOK
  BY DEF Init, Booked, OneBonusADay, BonusesOK, NoClaim, Claim, Ids, Ready
<1>3. StreaksOK
  <2>1. ASSUME NEW i \in Ids PROVE bonus[i].streak = Run(i)
    <3>1. bonus[i].last = 0 /\ bonus[i].streak = 0
      BY DEF Init
    <3>2. InRow(paid[i], 0) = {}
      BY DEF InRow
    <3> QED
      BY <3>1, <3>2, RunIsInRow, FS_EmptySet
  <2> QED
    BY <2>1 DEF Init, StreaksOK, NoClaim
<1>4. Others
  BY DEF Init, Others
<1> QED
  BY <1>1, <1>2, <1>3, <1>4, Parts DEF Bonuses

LEMMA RegisterIInv ==
  ASSUME IInv, NEW n \in Names, NEW saved \in BOOLEAN, Register(n, saved)
  PROVE  IInv'
<1>1. Core /\ Bonuses /\ Others
  BY Parts
<1>2. nextId \in Ids
  BY <1>1 DEF Register, Core, Stored, Ids
<1>3. Core'
  BY <1>1, CoreRegister
<1>4. Bonuses'
  BY <1>1, BonusesSame DEF Register, past
<1>5. Others'
  BY <1>1, <1>2 DEF Register, Others
<1> QED
  BY <1>3, <1>4, <1>5, PartsNext

LEMMA LoginIInv ==
  ASSUME IInv, NEW n \in Names, Login(n) \/ LoginFails(n) \/ LockExpires(n)
  PROVE  IInv'
<1> USE AccountsAssumption
<1>1. Core /\ Bonuses /\ Others
  BY Parts
<1>2. /\ UNCHANGED <<row, byId, byName, nextId, erased, kept>>
      /\ UNCHANGED <<bonus, paid, irregular, misdated, day, claim>>
      /\ table' = table
  BY DEF Login, LoginFails, LockExpires, past
<1>3. Core' /\ Bonuses'
  BY <1>1, <1>2, CoreSame, BonusesSame
<1>4. Others'
  <2>1. CASE Login(n)
    <3>1. byName[n].id \in Ids
      BY <1>1, <2>1 DEF Login, CanLogIn, Core, Stored, Account
    <3> QED
      BY <1>1, <1>2, <2>1, <3>1 DEF Login, Others
  <2>2. CASE LoginFails(n)
    <3> DEFINE f == Min({failed[n] + 1, MaxLoginAttempts})
    <3>1. failed[n] + 1 \in Nat /\ MaxLoginAttempts \in Nat
      BY <1>1 DEF Others
    <3>2. f \in {failed[n] + 1, MaxLoginAttempts} /\ f <= MaxLoginAttempts
      BY <3>1 DEF Min
    <3>3. f \in 0 .. MaxLoginAttempts
      BY <3>1, <3>2
    <3>4. failed' = [failed EXCEPT ![n] = f]
      BY <2>2 DEF LoginFails
    <3> HIDE DEF f
    <3>5. failed' \in [Names -> 0 .. MaxLoginAttempts]
      BY <1>1, <3>3, <3>4 DEF Others
    <3>6. locked' \subseteq Names /\ tokens' = tokens
      BY <1>1, <2>2 DEF LoginFails, Others
    <3> QED
      BY <1>1, <1>2, <3>5, <3>6 DEF Others
  <2>3. CASE LockExpires(n)
    BY <1>1, <1>2, <2>3 DEF LockExpires, Others
  <2> QED
    BY <2>1, <2>2, <2>3
<1> QED
  BY <1>3, <1>4, PartsNext

LEMMA DeleteIInv ==
  ASSUME IInv, NEW i \in Ids, NEW busy \in BOOLEAN, DeleteAccount(i, busy)
  PROVE  IInv'
<1> USE AccountsAssumption
<1>1. Core /\ Bonuses /\ Others
  BY Parts
<1>2. Core'
  BY <1>1, CoreDelete
<1>3. Bonuses'
  BY <1>1, BonusesSame DEF DeleteAccount
<1>4. Others'
  <2>1. EvictPlayer(i) /\ UNCHANGED <<tokens, table>>
    BY DEF DeleteAccount
  <2>2. CASE byId[i] = None
    BY <1>1, <2>1, <2>2 DEF EvictPlayer, Others
  <2>3. CASE byId[i] # None
    <3>1. byId[i].name \in Names
      BY <1>1, <2>3 DEF Core, Stored, Account
    <3> QED
      BY <1>1, <2>1, <2>3, <3>1 DEF EvictPlayer, Others
  <2> QED
    BY <2>2, <2>3
<1> QED
  BY <1>2, <1>3, <1>4, PartsNext

LEMMA ChipsIInv ==
  ASSUME IInv, NEW i \in Ids, BuyIn(i) \/ CashOut(i)
  PROVE  IInv'
<1> USE AccountsAssumption
<1>1. Core /\ Bonuses /\ Others
  BY Parts
<1>2. table[i] \in Int /\ -Stake \in Int
  BY <1>1 DEF Others
<1>3. Core'
  <2>1. UNCHANGED <<nextId, erased, kept>>
    BY DEF BuyIn, CashOut, past
  <2>2. CASE Move(i, -Stake)
    BY <1>1, <1>2, <2>1, <2>2, CoreMove
  <2>3. CASE Move(i, table[i])
    BY <1>1, <1>2, <2>1, <2>3, CoreMove
  <2>4. CASE UNCHANGED <<row, byId, byName>>
    BY <1>1, <2>1, <2>4, CoreSame
  <2> QED
    BY <2>2, <2>3, <2>4 DEF BuyIn, CashOut
<1>4. Bonuses'
  BY <1>1, BonusesSame DEF BuyIn, CashOut, past
<1>5. Others'
  BY <1>1 DEF BuyIn, CashOut, Others
<1> QED
  BY <1>3, <1>4, <1>5, PartsNext

LEMMA ReadIInv ==
  ASSUME IInv, NEW i \in Ids, ReadBonus(i)
  PROVE  IInv'
<1>1. Core /\ Bonuses /\ Others
  BY Parts
<1>2. Core'
  BY <1>1, CoreSame DEF ReadBonus, cache, past
<1>3. Bonuses'
  BY <1>1, BonusesRead
<1>4. Others'
  BY <1>1 DEF ReadBonus, cache, Others
<1> QED
  BY <1>2, <1>3, <1>4, PartsNext

LEMMA PayIInv ==
  ASSUME IInv, NEW yesterday \in Yesterdays, NEW busy \in BOOLEAN,
         PayBonus(yesterday, busy)
  PROVE  IInv'
<1> USE AccountsAssumption
<1>1. Core /\ Bonuses /\ Others
  BY Parts
<1>2. UNCHANGED <<nextId, erased, kept, failed, locked, tokens, table>>
  BY DEF PayBonus
<1>3. Core'
  <2> DEFINE i == claim.id
  <2> DEFINE b == Min({BestReward, NewStreak(yesterday)})
  <2>1. CASE busy \/ row[i] = None
    <3>1. UNCHANGED <<row, byId, byName>>
      BY <2>1 DEF PayBonus
    <3> QED
      BY <1>1, <1>2, <3>1, CoreSame
  <2>2. CASE ~(busy \/ row[i] = None)
    <3>1. Move(i, b)
      BY <2>2 DEF PayBonus
    <3>2. i \in Ids /\ claim.streak \in Nat
      BY <1>1 DEF Bonuses, Booked, Claim
    <3>3. NewStreak(yesterday) \in Nat /\ BestReward \in Nat
      BY <3>2 DEF NewStreak
    <3>4. b \in {BestReward, NewStreak(yesterday)}
      BY <3>3 DEF Min
    <3>5. b \in Int
      BY <3>3, <3>4
    <3> HIDE DEF b, i
    <3> QED
      BY <1>1, <1>2, <3>1, <3>2, <3>5, CoreMove
  <2> QED
    BY <2>1, <2>2
<1>4. Bonuses'
  BY <1>1, BonusesPay
<1>5. Others'
  BY <1>1, <1>2 DEF Others
<1> QED
  BY <1>3, <1>4, <1>5, PartsNext

LEMMA RecordIInv ==
  ASSUME IInv, NEW busy \in BOOLEAN, RecordBonus(busy)
  PROVE  IInv'
<1>1. Core /\ Bonuses /\ Others
  BY Parts
<1>2. Core'
  BY <1>1, CoreSame DEF RecordBonus, cache
<1>3. Bonuses'
  BY <1>1, BonusesRecord
<1>4. Others'
  BY <1>1 DEF RecordBonus, cache, Others
<1> QED
  BY <1>2, <1>3, <1>4, PartsNext

LEMMA NewDayIInv ==
  ASSUME IInv, NewDay
  PROVE  IInv'
<1> USE AccountsAssumption
<1>1. Core /\ Bonuses /\ Others
  BY Parts
<1>2. Core'
  BY <1>1, CoreSame DEF NewDay, cache, past
<1>3. day' \in 1 .. MaxDay /\ day < day' /\ UNCHANGED <<bonus, paid, irregular, misdated, claim>>
  <2>1. /\ day < MaxDay /\ day' = day + 1
        /\ bonus' = bonus /\ past' = past /\ claim' = claim
    BY DEF NewDay
  <2>2. paid' = paid /\ irregular' = irregular /\ misdated' = misdated
    BY <2>1 DEF past
  <2>3. day \in 1 .. MaxDay
    BY <1>1 DEF Bonuses, Booked
  <2>4. MaxDay \in Nat
    OBVIOUS
  <2>5. day' \in 1 .. MaxDay /\ day < day'
    BY ONLY <2>1, <2>3, <2>4
  <2> QED
    BY <2>1, <2>2, <2>5
<1>4. Booked' /\ OneBonusADay' /\ StreaksOK'
  <2>1. Booked'
    BY <1>1, <1>3 DEF Bonuses, Booked
  <2>2. OneBonusADay'
    BY <1>1, <1>3 DEF Bonuses, OneBonusADay
  <2>3. \A i \in Ids \ (irregular' \cup misdated') : bonus'[i].streak = Run(i)'
    BY <1>1, <1>3 DEF Bonuses, StreaksOK, Run
  <2>4. StreaksOK'
    BY <1>1, <1>3, <2>3 DEF Bonuses, StreaksOK
  <2> QED
    BY <2>1, <2>2, <2>4
<1>5. BonusesOK'
  <2>1. \A i \in Ids : bonus'[i].last <= day'
    BY <1>1, <1>3 DEF Bonuses, Booked, BonusesOK
  <2>2. ~Ready => claim.today \in 1 .. day'
    BY <1>1, <1>3 DEF Bonuses, Booked, BonusesOK
  <2> QED
    BY <1>1, <1>3, <2>1, <2>2 DEF Bonuses, BonusesOK, Ready
<1>6. Others'
  BY <1>1 DEF NewDay, cache, Others
<1> QED
  BY <1>2, <1>4, <1>5, <1>6, PartsNext DEF Bonuses

LEMMA CrashIInv ==
  ASSUME IInv, Crash
  PROVE  IInv'
<1> USE AccountsAssumption
<1>1. Core /\ Bonuses /\ Others
  BY Parts
<1>2. Core'
  BY <1>1, CoreCrash
<1>3. Bonuses'
  <2>1. /\ UNCHANGED <<bonus, paid, misdated, day>> /\ claim' = NoClaim
        /\ irregular' = IF claim.step = "paid" THEN irregular \cup {claim.id} ELSE irregular
    BY DEF Crash
  <2>2. claim.id \in Ids /\ irregular \subseteq Ids
    BY <1>1 DEF Bonuses, Booked, Claim
  <2> QED
    BY <1>1, <2>1, <2>2, BonusesDrop
<1>4. Others'
  BY <1>1 DEF Crash, Others
<1> QED
  BY <1>2, <1>3, <1>4, PartsNext

LEMMA NextIInv == IInv /\ [Next]_vars => IInv'
<1> SUFFICES ASSUME IInv, [Next]_vars PROVE IInv'
  OBVIOUS
<1>1. Busy \subseteq BOOLEAN
  BY DEF Busy
<1>2. ASSUME NEW n \in Names, NEW busy \in Busy, Register(n, ~busy) PROVE IInv'
  BY <1>1, <1>2, RegisterIInv
<1>3. ASSUME NEW n \in Names, Login(n) \/ LoginFails(n) \/ LockExpires(n) PROVE IInv'
  BY <1>3, LoginIInv
<1>4. ASSUME NEW i \in Ids, NEW busy \in Busy, DeleteAccount(i, busy) PROVE IInv'
  BY <1>1, <1>4, DeleteIInv
<1>5. ASSUME NEW i \in Ids, BuyIn(i) \/ CashOut(i) PROVE IInv'
  BY <1>5, ChipsIInv
<1>6. ASSUME NEW i \in Ids, ReadBonus(i) PROVE IInv'
  BY <1>6, ReadIInv
<1>7. ASSUME NEW busy \in Busy, NEW yesterday \in Yesterdays, PayBonus(yesterday, busy)
      PROVE  IInv'
  BY <1>1, <1>7, PayIInv
<1>8. ASSUME NEW busy \in Busy, RecordBonus(busy) PROVE IInv'
  BY <1>1, <1>8, RecordIInv
<1>9. CASE NewDay
  BY <1>9, NewDayIInv
<1>10. CASE Crash
  BY <1>10, CrashIInv
<1>11. CASE UNCHANGED vars
  <2>1. Core /\ Bonuses /\ Others
    BY Parts
  <2>2. Core' /\ Bonuses'
    BY <1>11, <2>1, CoreSame, BonusesSame DEF vars, cache, past
  <2>3. Others'
    BY <1>11, <2>1 DEF vars, cache, Others
  <2> QED
    BY <2>2, <2>3, PartsNext
<1> QED
  BY <1>2, <1>3, <1>4, <1>5, <1>6, <1>7, <1>8, <1>9, <1>10, <1>11 DEF Next

(* The inductive invariant holds in every reachable state.                 *)
THEOREM AccountsIInv == Spec => []IInv
<1>1. Init => IInv
  BY InitIInv
<1>2. IInv /\ [Next]_vars => IInv'
  BY NextIInv
<1> QED
  BY <1>1, <1>2, PTL DEF Spec

(* Memory and database agree, whatever crashes and whichever statement     *)
(* fails: the two indices of auth_service.cpp and the rows of              *)
(* account_repository.cpp hold the same accounts.                          *)
THEOREM AccountsCacheIsCurrent == Spec => []CacheIsCurrent
<1>1. IInv => CacheIsCurrent
  BY DEF IInv
<1> QED
  BY <1>1, AccountsIInv, PTL

(* Nobody logs in to an account that was deleted and made anonymous, also  *)
(* after restarts and when others register its names.                      *)
THEOREM AccountsErasedStayOut == Spec => []ErasedStayOut
<1>1. IInv => ErasedStayOut
  BY DEF IInv, CacheIsCurrent, TypeOK, Account, ErasedOK, ErasedStayOut, CanLogIn
<1> QED
  BY <1>1, AccountsIInv, PTL

(* A day's bonus is credited once to an id none of whose claims was cut    *)
(* short between CreditBonus and UpdateDailyBonus.                         *)
THEOREM AccountsOneBonusADay == Spec => []OneBonusADay
<1>1. IInv => OneBonusADay
  BY DEF IInv
<1> QED
  BY <1>1, AccountsIInv, PTL

(* Between claims, the streak in the bonus table is the number of days in  *)
(* a row on which such an id was paid, unless 24 hours before one of the   *)
(* claims was not the day before (cli/poker_ws_server.cpp's yesterdayStr).  *)
THEOREM AccountsStreakIsRun == Spec => []StreakIsRun
<1>1. IInv => StreakIsRun
  BY DEF IInv, StreaksOK, StreakIsRun
<1> QED
  BY <1>1, AccountsIInv, PTL

-----------------------------------------------------------------------------
Fresh ==
  \A i \in Ids : row'[i] # None /\ row'[i].hash =>
    /\ i \notin erased \ kept
    /\ row[i] # None => row[i].hash /\ row[i].name = row'[i].name

LEMMA FreshSame ==
  ASSUME Core, row' = row
  PROVE  Fresh
  BY DEF Core, ErasedOK, Fresh

LEMMA FreshMove ==
  ASSUME Core, NEW i \in Ids, NEW amount \in Int, Move(i, amount)
  PROVE  Fresh
<1> DEFINE n == row[i].chips + amount
<1>1. row[i] \in Account /\ row[i] # None /\ n \in Nat
  BY DEF Core, Stored, Move, Account
<1>2. row' = [row EXCEPT ![i] = [row[i] EXCEPT !.chips = n]]
  BY <1>1 DEF Move, Core, Stored
<1>3. /\ row'[i].hash = row[i].hash /\ row'[i].name = row[i].name
      /\ \A j \in Ids \ {i} : row'[j] = row[j]
  BY <1>1, <1>2, WithChips DEF Core, Stored
<1> QED
  BY <1>1, <1>3 DEF Core, ErasedOK, Fresh

LEMMA FreshRegister ==
  ASSUME Core, NEW n \in Names, NEW saved \in BOOLEAN, Register(n, saved)
  PROVE  Fresh
<1> DEFINE k == nextId
<1> DEFINE a == [id |-> k, name |-> n, hash |-> TRUE, chips |-> OpeningChips]
<1>1. /\ k \in Ids /\ nextId <= k
      /\ row' = IF saved THEN Inserted(a) ELSE row
  BY DEF Register, Core, Stored, Ids
<1>2. row[k] = None /\ k \notin erased \ kept
  BY <1>1, NextIdIsFree
<1>3. a.id = k
  OBVIOUS
<1> HIDE DEF a
<1>4. \A j \in Ids \ {k} : row'[j] # None => row'[j] = row[j]
  BY <1>1, <1>3 DEF Inserted
<1> QED
  BY <1>2, <1>4 DEF Core, ErasedOK, Fresh

LEMMA FreshDelete ==
  ASSUME Core, NEW i \in Ids, NEW busy \in BOOLEAN, DeleteAccount(i, busy)
  PROVE  Fresh
<1>1. CASE row[i] # None /\ row' = Anonymous(i)
  <2>1. row[i] \in Account
    BY <1>1 DEF Core, Stored
  <2>2. row'[i] = [row[i] EXCEPT !.name = AnonName[i], !.hash = FALSE, !.chips = 0]
    BY <1>1 DEF Anonymous, Core, Stored
  <2>3. ~row'[i].hash
    BY <2>1, <2>2 DEF Account
  <2>4. \A j \in Ids \ {i} : row'[j] = row[j]
    BY <1>1 DEF Anonymous, Core, Stored
  <2> QED
    BY <2>3, <2>4 DEF Core, ErasedOK, Fresh
<1>2. CASE row' = row
  BY <1>2, FreshSame
<1> QED
  BY <1>1, <1>2 DEF DeleteAccount

LEMMA FreshChips ==
  ASSUME IInv, NEW i \in Ids, BuyIn(i) \/ CashOut(i)
  PROVE  Fresh
<1> USE AccountsAssumption
<1>1. Core /\ table[i] \in Int /\ -Stake \in Int
  BY Parts DEF Others
<1>2. CASE Move(i, -Stake)
  BY <1>1, <1>2, FreshMove
<1>3. CASE Move(i, table[i])
  BY <1>1, <1>3, FreshMove
<1>4. CASE row' = row
  BY <1>1, <1>4, FreshSame
<1> QED
  BY <1>2, <1>3, <1>4 DEF BuyIn, CashOut

LEMMA FreshPay ==
  ASSUME IInv, NEW yesterday \in Yesterdays, NEW busy \in BOOLEAN,
         PayBonus(yesterday, busy)
  PROVE  Fresh
<1> USE AccountsAssumption
<1> DEFINE b == Min({BestReward, NewStreak(yesterday)})
<1>1. Core /\ claim.id \in Ids /\ claim.streak \in Nat
  BY Parts DEF Bonuses, Booked, Claim
<1>2. NewStreak(yesterday) \in Nat /\ BestReward \in Nat
  BY <1>1 DEF NewStreak
<1>3. b \in {BestReward, NewStreak(yesterday)}
  BY <1>2 DEF Min
<1>4. b \in Int
  BY <1>2, <1>3
<1>5. row' = row \/ Move(claim.id, b)
  BY DEF PayBonus
<1> HIDE DEF b
<1> QED
  BY <1>1, <1>4, <1>5, FreshMove, FreshSame

(* An id that was ever stored stays with its owner and its name, and that  *)
(* of an erased account is not given to anybody.                           *)
THEOREM AccountsIdsFresh == Spec => IdsFresh
<1>1. IInv /\ [Next]_vars => [Fresh]_vars
  <2> SUFFICES ASSUME IInv, Next PROVE Fresh
    OBVIOUS
  <2>1. Core /\ Busy \subseteq BOOLEAN
    BY Parts DEF Busy
  <2>2. ASSUME NEW n \in Names, NEW busy \in Busy, Register(n, ~busy) PROVE Fresh
    BY <2>1, <2>2, FreshRegister
  <2>3. ASSUME NEW n \in Names, Login(n) \/ LoginFails(n) \/ LockExpires(n) PROVE Fresh
    BY <2>1, <2>3, FreshSame DEF Login, LoginFails, LockExpires
  <2>4. ASSUME NEW i \in Ids, NEW busy \in Busy, DeleteAccount(i, busy) PROVE Fresh
    BY <2>1, <2>4, FreshDelete
  <2>5. ASSUME NEW i \in Ids, BuyIn(i) \/ CashOut(i) PROVE Fresh
    BY <2>5, FreshChips
  <2>6. ASSUME NEW i \in Ids, ReadBonus(i) PROVE Fresh
    BY <2>1, <2>6, FreshSame DEF ReadBonus
  <2>7. ASSUME NEW busy \in Busy, NEW yesterday \in Yesterdays, PayBonus(yesterday, busy)
        PROVE  Fresh
    BY <2>1, <2>7, FreshPay
  <2>8. ASSUME NEW busy \in Busy, RecordBonus(busy) PROVE Fresh
    BY <2>1, <2>8, FreshSame DEF RecordBonus
  <2>9. CASE NewDay \/ Crash
    BY <2>1, <2>9, FreshSame DEF NewDay, Crash
  <2> QED
    BY <2>2, <2>3, <2>4, <2>5, <2>6, <2>7, <2>8, <2>9 DEF Next
<1> QED
  BY <1>1, AccountsIInv, PTL DEF Spec, IdsFresh, Fresh

-----------------------------------------------------------------------------
(* The matchmaking queue.                                                  *)

(* Erasing an element of a sequence closes the gap.                        *)
LEMMA RemoveAtIs ==
  ASSUME NEW X, NEW q \in Seq(X), NEW i \in 1 .. Len(q)
  PROVE  /\ RemoveAt(q, i) \in Seq(X)
         /\ Len(RemoveAt(q, i)) = Len(q) - 1
         /\ \A j \in 1 .. Len(q) - 1 : RemoveAt(q, i)[j] = IF j < i THEN q[j] ELSE q[j + 1]
<1> DEFINE a == SubSeq(q, 1, i - 1)
<1> DEFINE b == SubSeq(q, i + 1, Len(q))
<1>0. Len(q) \in Nat /\ \A j \in 1 .. Len(q) : q[j] \in X
  OBVIOUS
<1>1. /\ a \in Seq(X) /\ Len(a) = i - 1
      /\ \A j \in 1 .. i - 1 : a[j] = q[j]
  <2>1. \A j \in 1 .. i - 1 : q[j] \in X
    BY <1>0
  <2>2. 1 \in Int /\ i - 1 \in Int
    OBVIOUS
  <2>3. /\ a \in Seq(X)
        /\ Len(a) = IF 1 <= i - 1 THEN (i - 1) - 1 + 1 ELSE 0
        /\ \A j \in 1 .. (i - 1) - 1 + 1 : a[j] = q[1 + j - 1]
    BY <2>1, <2>2, SubSeqProperties
  <2> HIDE DEF a
  <2> QED
    BY <1>0, <2>3
<1>2. /\ b \in Seq(X) /\ Len(b) = Len(q) - i
      /\ \A j \in 1 .. Len(q) - i : b[j] = q[i + j]
  <2>1. \A j \in i + 1 .. Len(q) : q[j] \in X
    BY <1>0
  <2>2. i + 1 \in Int /\ Len(q) \in Int
    OBVIOUS
  <2>3. /\ b \in Seq(X)
        /\ Len(b) = IF i + 1 <= Len(q) THEN Len(q) - (i + 1) + 1 ELSE 0
        /\ \A j \in 1 .. Len(q) - (i + 1) + 1 : b[j] = q[(i + 1) + j - 1]
    BY <2>1, <2>2, SubSeqProperties
  <2> HIDE DEF b
  <2> QED
    BY <1>0, <2>3
<1>3. RemoveAt(q, i) = a \o b
  BY DEF RemoveAt
<1> HIDE DEF a, b
<1>4. /\ a \o b \in Seq(X)
      /\ Len(a \o b) = Len(a) + Len(b)
      /\ \A j \in 1 .. Len(a) + Len(b) : (a \o b)[j] = IF j <= Len(a) THEN a[j] ELSE b[j - Len(a)]
  BY <1>1, <1>2, ConcatProperties
<1>5. ASSUME NEW j \in 1 .. Len(q) - 1
      PROVE  (a \o b)[j] = IF j < i THEN q[j] ELSE q[j + 1]
  <2>1. CASE j < i
    BY <1>0, <1>1, <1>2, <1>4, <2>1
  <2>2. CASE j >= i
    <3>1. (a \o b)[j] = b[j - (i - 1)] /\ j - (i - 1) \in 1 .. Len(q) - i
      BY <1>0, <1>1, <1>2, <1>4, <2>2
    <3>2. b[j - (i - 1)] = q[i + (j - (i - 1))] /\ i + (j - (i - 1)) = j + 1
      BY <1>0, <1>2, <3>1
    <3>3. ~(j < i)
      BY <1>0, <2>2
    <3> QED
      BY <3>1, <3>2, <3>3
  <2>3. j < i \/ j >= i
    BY <1>0
  <2> QED
    BY <2>1, <2>2, <2>3
<1> QED
  BY <1>0, <1>1, <1>2, <1>3, <1>4, <1>5

(* q is what is left of the entries when those at the indices s have been  *)
(* erased; what is before all of them is where it was.                     *)
Keeps(entries, s, q, c) ==
  /\ c \in [1 .. Len(q) -> (1 .. Len(entries)) \ s]
  /\ \A j, k \in 1 .. Len(q) : c[j] = c[k] => j = k
  /\ \A i \in (1 .. Len(entries)) \ s : \E j \in 1 .. Len(q) : c[j] = i
  /\ \A j \in 1 .. Len(q) : q[j] = entries[c[j]]
  /\ \A i \in 1 .. Len(entries) : (\A r \in s : i < r) => i <= Len(q) /\ c[i] = i

LeftOf(entries, s, q) == q \in Seq(Entry) /\ \E c : Keeps(entries, s, q, c)

(* Before anything is erased.                                              *)
LEMMA NothingErased ==
  ASSUME NEW entries \in Seq(Entry)
  PROVE  LeftOf(entries, {}, entries)
<1> DEFINE c == [j \in 1 .. Len(entries) |-> j]
<1>1. Keeps(entries, {}, entries, c)
  BY DEF Keeps
<1> HIDE DEF c
<1> QED
  BY <1>1 DEF LeftOf

(* One more is erased, in front of all the others.                         *)
LEMMA ErasedOne ==
  ASSUME NEW entries \in Seq(Entry), NEW s \in SUBSET (1 .. Len(entries)), NEW m \in s,
         \A r \in s : m <= r, NEW q, LeftOf(entries, s \ {m}, q)
  PROVE  LeftOf(entries, s, RemoveAt(q, m))
<1> DEFINE N == Len(entries)
<1> DEFINE z == RemoveAt(q, m)
<1>0. N \in Nat /\ s \subseteq Nat /\ m \in 1 .. N
  OBVIOUS
<1>1. PICK c : Keeps(entries, s \ {m}, q, c)
  BY DEF LeftOf
<1>2. q \in Seq(Entry) /\ Len(q) \in Nat
  BY DEF LeftOf
<1>3. m <= Len(q) /\ c[m] = m /\ m \in 1 .. Len(q)
  <2>1. \A r \in s \ {m} : m < r
    BY <1>0
  <2>2. m <= Len(q) /\ c[m] = m
    BY <1>0, <1>1, <2>1 DEF Keeps
  <2> QED
    BY <1>0, <1>2, <2>2
<1>4. /\ z \in Seq(Entry) /\ Len(z) = Len(q) - 1
      /\ \A j \in 1 .. Len(q) - 1 : z[j] = IF j < m THEN q[j] ELSE q[j + 1]
  BY <1>2, <1>3, RemoveAtIs
<1> DEFINE to == [j \in 1 .. Len(q) - 1 |-> IF j < m THEN j ELSE j + 1]
<1> DEFINE d == [j \in 1 .. Len(q) - 1 |-> c[to[j]]]
<1>5. /\ \A j \in 1 .. Len(q) - 1 : to[j] \in 1 .. Len(q) /\ to[j] # m
      /\ \A j, k \in 1 .. Len(q) - 1 : to[j] = to[k] => j = k
      /\ \A k \in 1 .. Len(q) : k # m => \E j \in 1 .. Len(q) - 1 : to[j] = k
      /\ \A j \in 1 .. Len(q) - 1 : j < m => to[j] = j
  <2>1. \A j \in 1 .. Len(q) - 1 : to[j] \in 1 .. Len(q) /\ to[j] # m
    BY <1>2, <1>3
  <2>2. \A j, k \in 1 .. Len(q) - 1 : to[j] = to[k] => j = k
    BY <1>2, <1>3
  <2>3. ASSUME NEW k \in 1 .. Len(q), k # m PROVE \E j \in 1 .. Len(q) - 1 : to[j] = k
    <3>1. CASE k < m
      <4>1. k \in 1 .. Len(q) - 1 /\ to[k] = k
        BY <1>2, <1>3, <3>1
      <4> QED
        BY <4>1
    <3>2. CASE k > m
      <4>1. k - 1 \in 1 .. Len(q) - 1 /\ to[k - 1] = k
        BY <1>2, <1>3, <3>2
      <4> QED
        BY <4>1
    <3> QED
      BY <1>3, <2>3, <3>1, <3>2
  <2> QED
    BY <2>1, <2>2, <2>3
<1>6. \A j \in 1 .. Len(q) - 1 : z[j] = q[to[j]] /\ d[j] = c[to[j]]
  BY <1>4
<1> HIDE DEF z, to, d
<1>7. d \in [1 .. Len(z) -> (1 .. N) \ s]
  <2>1. \A j \in 1 .. Len(q) - 1 : c[to[j]] \in (1 .. N) \ (s \ {m}) /\ c[to[j]] # m
    BY <1>1, <1>3, <1>5 DEF Keeps
  <2> QED
    BY <1>4, <2>1 DEF d
<1>8. \A j, k \in 1 .. Len(z) : d[j] = d[k] => j = k
  <2> SUFFICES ASSUME NEW j \in 1 .. Len(q) - 1, NEW k \in 1 .. Len(q) - 1, d[j] = d[k]
               PROVE  j = k
    BY <1>4
  <2>1. to[j] \in 1 .. Len(q) /\ to[k] \in 1 .. Len(q) /\ c[to[j]] = c[to[k]]
    BY <1>5, <1>6
  <2>2. to[j] = to[k]
    BY <1>1, <2>1 DEF Keeps
  <2> QED
    BY <1>5, <2>2
<1>9. ASSUME NEW i \in (1 .. N) \ s PROVE \E j \in 1 .. Len(z) : d[j] = i
  <2>1. PICK k \in 1 .. Len(q) : c[k] = i
    BY <1>1 DEF Keeps
  <2>2. k # m
    BY <1>3, <2>1
  <2>3. PICK j \in 1 .. Len(q) - 1 : to[j] = k
    BY <1>5, <2>2
  <2> QED
    BY <1>4, <1>6, <2>1, <2>3
<1>10. \A j \in 1 .. Len(z) : z[j] = entries[d[j]]
  <2> SUFFICES ASSUME NEW j \in 1 .. Len(q) - 1 PROVE z[j] = entries[d[j]]
    BY <1>4
  <2>1. to[j] \in 1 .. Len(q) /\ z[j] = q[to[j]] /\ d[j] = c[to[j]]
    BY <1>5, <1>6
  <2> QED
    BY <1>1, <2>1 DEF Keeps
<1>11. ASSUME NEW i \in 1 .. N, \A r \in s : i < r PROVE i <= Len(z) /\ d[i] = i
  <2>1. i < m /\ i <= Len(q) /\ c[i] = i
    BY <1>1, <1>11 DEF Keeps
  <2>2. i \in 1 .. Len(q) - 1
    BY <1>2, <1>3, <2>1
  <2>3. to[i] = i /\ d[i] = c[to[i]]
    BY <1>5, <1>6, <2>1, <2>2
  <2> QED
    BY <1>4, <2>1, <2>2, <2>3
<1>12. Keeps(entries, s, z, d)
  BY <1>7, <1>8, <1>9, <1>10, <1>11 DEF Keeps
<1> QED
  BY <1>4, <1>12 DEF LeftOf, z

(* The fold that Dequeued is.                                              *)
Erases(entries, S, g) ==
  g = [s \in SUBSET S |-> IF s = {} THEN entries ELSE RemoveAt(g[s \ {Min(s)}], Min(s))]

Eraser(entries, S) == CHOOSE g : Erases(entries, S, g)

LEMMA DequeuedIsErased ==
  ASSUME NEW entries, NEW matched
  PROVE  Dequeued(entries, matched) = Eraser(entries, matched)[matched]
BY DEF Dequeued, MapThenFoldSet, Erases, Eraser

(* A finite set of numbers has a least one.                                *)
LEMMA MinOfNats ==
  ASSUME NEW S \in SUBSET Nat, S # {}
  PROVE  Min(S) \in S /\ \A y \in S : Min(S) <= y
<1>0. S \subseteq Nat
  OBVIOUS
<1>1. PICK n \in S : \A k \in S : ~(<<k, n>> \in OpToRel(<, Nat))
  BY NatLessThanWellFounded, WFMin
<1>2. \A k \in S : ~(k < n)
  BY <1>1 DEF OpToRel
<1>3. \A k \in S : n <= k
  <2> SUFFICES ASSUME NEW k \in S PROVE n <= k
    OBVIOUS
  <2>1. n \in Nat /\ k \in Nat
    BY <1>0
  <2> QED
    BY <1>2, <2>1
<1> QED
  BY <1>3 DEF Min

(* What a fold over the indices to erase holds, whether or not it checks   *)
(* that there is something to erase: there always is.                      *)
LEMMA ErasesAll ==
  ASSUME NEW entries \in Seq(Entry), NEW S \in SUBSET (1 .. Len(entries)), NEW g,
         g[{}] = entries,
         \A s \in SUBSET S : s # {} /\ Min(s) \in 1 .. Len(g[s \ {Min(s)}])
                              => g[s] = RemoveAt(g[s \ {Min(s)}], Min(s))
  PROVE  \A s \in SUBSET S : /\ LeftOf(entries, s, g[s])
                             /\ s # {} => Min(s) \in 1 .. Len(g[s \ {Min(s)}])
<1> DEFINE G == {s \in SUBSET S : LeftOf(entries, s, g[s])}
<1>0. IsFiniteSet(S) /\ S \subseteq Nat
  <2>1. IsFiniteSet(1 .. Len(entries)) /\ S \subseteq Nat
    BY FS_Interval
  <2> QED
    BY <2>1, FS_Subset
<1>1. {} \in G
  BY NothingErased
<1>2. ASSUME NEW s \in SUBSET S, s # {}, LeftOf(entries, s \ {Min(s)}, g[s \ {Min(s)}])
      PROVE  /\ LeftOf(entries, s, g[s])
             /\ Min(s) \in 1 .. Len(g[s \ {Min(s)}])
  <2> DEFINE m == Min(s)
  <2> DEFINE q == g[s \ {m}]
  <2>1. m \in s /\ \A r \in s : m <= r
    <3>1. s \in SUBSET Nat
      BY <1>0
    <3> QED
      BY <1>2, <3>1, MinOfNats
  <2>2. LeftOf(entries, s \ {m}, q)
    BY <1>2
  <2>4. m \in 1 .. Len(q) => g[s] = RemoveAt(q, m)
    BY <1>2
  <2> HIDE DEF m, q
  <2>5. s \in SUBSET (1 .. Len(entries))
    OBVIOUS
  <2>6. m \in 1 .. Len(q)
    <3>1. PICK c : Keeps(entries, s \ {m}, q, c)
      BY <2>2 DEF LeftOf
    <3>2. q \in Seq(Entry)
      BY <2>2 DEF LeftOf
    <3>3. m \in 1 .. Len(entries) /\ \A r \in s \ {m} : m < r
      BY <2>1, <2>5
    <3> QED
      BY <3>1, <3>2, <3>3 DEF Keeps
  <2>7. LeftOf(entries, s, RemoveAt(q, m))
    BY <2>1, <2>2, <2>5, ErasedOne
  <2> QED
    BY <2>4, <2>6, <2>7 DEF m, q
<1>3. ASSUME NEW s \in SUBSET S, s # {}, \A x \in s : s \ {x} \in G
      PROVE  s \in G
  <2>1. Min(s) \in s
    <3>1. s \in SUBSET Nat
      BY <1>0
    <3> QED
      BY <1>3, <3>1, MinOfNats
  <2>2. LeftOf(entries, s \ {Min(s)}, g[s \ {Min(s)}])
    BY <1>3, <2>1
  <2> QED
    BY <1>2, <1>3, <2>2
<1>4. \A s \in SUBSET S : LeftOf(entries, s, g[s])
  <2>1. \A s \in SUBSET S : s # {} /\ (\A x \in s : s \ {x} \in G) => s \in G
    BY <1>3
  <2> HIDE DEF G
  <2>2. SUBSET S \subseteq G
    BY <1>0, <1>1, <2>1, SetsReached
  <2> QED
    BY <2>2 DEF G
<1> QED
  BY <1>2, <1>4

(* The fold satisfies its equation.                                        *)
LEMMA EraserErases ==
  ASSUME NEW entries \in Seq(Entry), NEW S \in SUBSET (1 .. Len(entries))
  PROVE  Erases(entries, S, Eraser(entries, S))
<1> DEFINE V == Seq(Entry)
<1> DEFINE without(v, i) == IF i \in 1 .. Len(v) THEN RemoveAt(v, i) ELSE v
<1> DEFINE step == [s \in SUBSET S |-> [v \in V |-> without(v, Min(s))]]
<1> DEFINE pick == [s \in SUBSET S |-> Min(s)]
<1>0. IsFiniteSet(S) /\ S \subseteq Nat
  <2>1. IsFiniteSet(1 .. Len(entries)) /\ S \subseteq Nat
    BY FS_Interval
  <2> QED
    BY <2>1, FS_Subset
<1>1. \A s \in SUBSET S : s # {} => pick[s] \in s
  <2> SUFFICES ASSUME NEW s \in SUBSET S, s # {} PROVE Min(s) \in s
    OBVIOUS
  <2>1. s \in SUBSET Nat
    BY <1>0
  <2> QED
    BY <2>1, MinOfNats
<1>2. \A v \in V : \A i : without(v, i) \in V
  BY RemoveAtIs
<1> HIDE DEF without
<1>3. step \in [SUBSET S -> [V -> V]]
  BY <1>2
<1>4. /\ \A s \in SUBSET S, v \in V : step[s][v] = without(v, Min(s))
      /\ \A s \in SUBSET S : pick[s] = Min(s)
  OBVIOUS
<1> HIDE DEF step, pick
<1>5. PICK g \in [SUBSET S -> V] : FoldsTo(g, S, entries, step, pick)
  BY <1>0, <1>1, <1>3, FoldExists
<1>6. g[{}] = entries
  BY <1>5 DEF FoldsTo
<1>7. ASSUME NEW s \in SUBSET S, s # {} PROVE g[s] = without(g[s \ {Min(s)}], Min(s))
  <2>1. g[s] = step[s][g[s \ {Min(s)}]]
    BY <1>4, <1>5, <1>7 DEF FoldsTo
  <2>2. g[s \ {Min(s)}] \in V
    BY <1>5
  <2> QED
    BY <1>4, <2>1, <2>2
<1>8. \A s \in SUBSET S : s # {} /\ Min(s) \in 1 .. Len(g[s \ {Min(s)}])
                           => g[s] = RemoveAt(g[s \ {Min(s)}], Min(s))
  BY <1>7 DEF without
<1>9. \A s \in SUBSET S : s # {} => Min(s) \in 1 .. Len(g[s \ {Min(s)}])
  <2>1. \A s \in SUBSET S : /\ LeftOf(entries, s, g[s])
                            /\ s # {} => Min(s) \in 1 .. Len(g[s \ {Min(s)}])
    BY <1>6, <1>8, ErasesAll
  <2> QED
    BY <2>1
<1>10. \A s \in SUBSET S :
         g[s] = IF s = {} THEN entries ELSE RemoveAt(g[s \ {Min(s)}], Min(s))
  BY <1>6, <1>8, <1>9
<1>11. Erases(entries, S, g)
  BY <1>10 DEF Erases
<1> QED
  BY <1>11 DEF Eraser

(* The matched entries leave the queue, and only they.                     *)
LEMMA DequeuedRight ==
  ASSUME NEW entries \in Seq(Entry), NEW matched \in SUBSET (1 .. Len(entries))
  PROVE  LeftOf(entries, matched, Dequeued(entries, matched))
<1> DEFINE g == Eraser(entries, matched)
<1>1. Erases(entries, matched, g)
  BY EraserErases
<1>2. Dequeued(entries, matched) = g[matched]
  BY DequeuedIsErased
<1> HIDE DEF g
<1>3. \A s \in SUBSET matched :
        g[s] = IF s = {} THEN entries ELSE RemoveAt(g[s \ {Min(s)}], Min(s))
  BY <1>1 DEF Erases
<1>4. g[{}] = entries
  BY <1>3
<1>5. \A s \in SUBSET matched : s # {} /\ Min(s) \in 1 .. Len(g[s \ {Min(s)}])
                                 => g[s] = RemoveAt(g[s \ {Min(s)}], Min(s))
  BY <1>3
<1>6. \A s \in SUBSET matched : /\ LeftOf(entries, s, g[s])
                                /\ s # {} => Min(s) \in 1 .. Len(g[s \ {Min(s)}])
  BY <1>4, <1>5, ErasesAll
<1>7. LeftOf(entries, matched, g[matched])
  BY <1>6
<1> QED
  BY <1>2, <1>7

-----------------------------------------------------------------------------
(* No player is in the queue twice.                                        *)
Distinct(q) == \A i, j \in DOMAIN q : q[i].player = q[j].player => i = j

PlayersOf(q) == {q[i].player : i \in DOMAIN q}

(* Those who ask for the same.                                             *)
Alike(q, g, n) == {i \in DOMAIN q : q[i].game = g /\ q[i].buyIn = n}

(* Who is at a table sits at one of those opened.                          *)
SeatsOK == IsFiniteSet(seats) /\ \A s \in seats : s.table <= tables

MatchInv == MatchTypeOK /\ Distinct(queue) /\ SeatsOK /\ StakesPaid /\ EnoughAreMatched

Entries(new) == Append(queue, new)

NewMatch(new) == Matched(Entries(new))

NewTable(new) == Seated(Entries(new), NewMatch(new), Chips(new.buyIn))

SeatFor(new, e) ==
  [player |-> e.player, table |-> tables + 1, chips |-> Chips(new.buyIn), asked |-> e.buyIn]

SeatsFor(new) == {SeatFor(new, e) : e \in NewTable(new)}

(* The newcomer is matched, or waits.                                      *)
Opens(new) ==
  /\ CanOpen(NewMatch(new))
  /\ tables' = tables + 1
  /\ seats' = seats \cup SeatsFor(new)
  /\ wallet' = Debited(NewTable(new), Chips(new.buyIn))
  /\ queue' = Dequeued(Entries(new), NewMatch(new))

Waits(new) ==
  /\ ~CanOpen(NewMatch(new))
  /\ queue' = Entries(new)
  /\ wallet' = wallet /\ tables' = tables /\ seats' = seats

LEMMA JoinIs ==
  ASSUME NEW new
  PROVE  Join(new) <=> new.player \notin Queued /\ (Opens(new) \/ Waits(new))
BY DEF Join, Opens, Waits, Entries, NewMatch, NewTable, SeatsFor, SeatFor

(* What is left of a queue is a queue.                                     *)
LEMMA LeftKeeps ==
  ASSUME NEW entries \in Seq(Entry), NEW s \in SUBSET (1 .. Len(entries)), NEW q,
         LeftOf(entries, s, q), Distinct(entries)
  PROVE  /\ q \in Seq(Entry) /\ Distinct(q)
         /\ PlayersOf(q) = {entries[i].player : i \in DOMAIN entries \ s}
         /\ \A g, n : /\ Cardinality(Alike(q, g, n)) \in Nat
                      /\ Cardinality(Alike(entries, g, n)) \in Nat
                      /\ Cardinality(Alike(q, g, n)) <= Cardinality(Alike(entries, g, n))
<1>1. q \in Seq(Entry) /\ DOMAIN q = 1 .. Len(q) /\ Len(q) \in Nat
      /\ DOMAIN entries = 1 .. Len(entries) /\ Len(entries) \in Nat
  BY DEF LeftOf
<1>2. PICK c : Keeps(entries, s, q, c)
  BY DEF LeftOf
<1>3. /\ \A j \in DOMAIN q : c[j] \in DOMAIN entries \ s /\ q[j] = entries[c[j]]
      /\ \A j, k \in DOMAIN q : c[j] = c[k] => j = k
      /\ \A i \in DOMAIN entries \ s : \E j \in DOMAIN q : c[j] = i
  BY <1>1, <1>2 DEF Keeps
<1>4. Distinct(q)
  BY <1>3 DEF Distinct
<1>5. PlayersOf(q) = {entries[i].player : i \in DOMAIN entries \ s}
  BY <1>3 DEF PlayersOf
<1>6. ASSUME NEW g, NEW n
      PROVE  /\ Cardinality(Alike(q, g, n)) \in Nat
             /\ Cardinality(Alike(entries, g, n)) \in Nat
             /\ Cardinality(Alike(q, g, n)) <= Cardinality(Alike(entries, g, n))
  <2> DEFINE A == Alike(q, g, n)
  <2> DEFINE B == Alike(entries, g, n)
  <2> DEFINE f == [j \in A |-> c[j]]
  <2>1. IsFiniteSet(1 .. Len(q)) /\ IsFiniteSet(1 .. Len(entries))
    BY <1>1, FS_Interval
  <2>2. A \in SUBSET (1 .. Len(q)) /\ B \in SUBSET (1 .. Len(entries))
    BY <1>1 DEF Alike
  <2>3. IsFiniteSet(A) /\ IsFiniteSet(B)
    BY <2>1, <2>2, FS_Subset
  <2>4. \A j \in A : j \in DOMAIN q /\ c[j] \in B
    BY <1>3 DEF Alike
  <2> HIDE DEF A, B
  <2>5. f \in Injection(A, B)
    BY <1>3, <2>4 DEF Injection, IsInjective
  <2>6. Cardinality(A) <= Cardinality(B)
    BY <2>3, <2>5, FS_Injection
  <2>7. Cardinality(A) \in Nat /\ Cardinality(B) \in Nat
    BY <2>3, FS_CardinalityType
  <2> QED
    BY <2>6, <2>7 DEF A, B
<1> QED
  BY <1>1, <1>4, <1>5, <1>6

(* The newcomer's entry is the last.                                       *)
LEMMA EntriesAre ==
  ASSUME queue \in Seq(Entry), Distinct(queue), NEW new \in Entry, new.player \notin Queued
  PROVE  /\ Entries(new) \in Seq(Entry)
         /\ Len(queue) \in Nat
         /\ DOMAIN queue = 1 .. Len(queue)
         /\ Len(Entries(new)) = Len(queue) + 1
         /\ DOMAIN Entries(new) = 1 .. Len(queue) + 1
         /\ \A i \in DOMAIN queue : Entries(new)[i] = queue[i]
         /\ Entries(new)[Len(queue) + 1] = new
         /\ Last(Entries(new)) = new
         /\ Distinct(Entries(new))
         /\ NewMatch(new) = {i \in DOMAIN Entries(new) : Compatible(Entries(new)[i], new)}
<1> DEFINE e == Entries(new)
<1>1. /\ e \in Seq(Entry) /\ Len(e) = Len(queue) + 1 /\ Len(queue) \in Nat
      /\ \A i \in 1 .. Len(queue) : e[i] = queue[i]
      /\ e[Len(queue) + 1] = new
  BY AppendProperties DEF Entries
<1>2. Queued = PlayersOf(queue)
  BY DEF Queued, PlayersOf
<1> SUFFICES /\ e \in Seq(Entry)
             /\ Len(queue) \in Nat
             /\ DOMAIN queue = 1 .. Len(queue)
             /\ Len(e) = Len(queue) + 1
             /\ DOMAIN e = 1 .. Len(queue) + 1
             /\ \A i \in DOMAIN queue : e[i] = queue[i]
             /\ e[Len(queue) + 1] = new
             /\ Last(e) = new
             /\ Distinct(e)
             /\ NewMatch(new) = {i \in DOMAIN e : Compatible(e[i], new)}
  OBVIOUS
<1>3. NewMatch(new) = Matched(e)
  BY DEF NewMatch
<1> HIDE DEF e
<1>4. DOMAIN e = 1 .. Len(queue) + 1 /\ DOMAIN queue = 1 .. Len(queue)
  BY <1>1
<1>5. Last(e) = new
  BY <1>1 DEF Last
<1>6. Distinct(e)
  <2> SUFFICES ASSUME NEW i \in DOMAIN e, NEW j \in DOMAIN e, e[i].player = e[j].player
               PROVE  i = j
    BY DEF Distinct
  <2>1. \A k \in DOMAIN e : k \in DOMAIN queue \/ k = Len(queue) + 1
    BY <1>1, <1>4
  <2>2. \A k \in DOMAIN queue : e[k] = queue[k] /\ queue[k].player # new.player
    BY <1>1, <1>2, <1>4 DEF PlayersOf
  <2> QED
    BY <1>1, <2>1, <2>2 DEF Distinct
<1>7. NewMatch(new) = {i \in DOMAIN e : Compatible(e[i], new)}
  BY <1>3, <1>5 DEF Matched
<1> QED
  BY <1>1, <1>4, <1>5, <1>6, <1>7

(* Who is seated was matched, and can pay.                                 *)
LEMMA NewTableIs ==
  ASSUME MatchTypeOK, Distinct(queue), NEW new \in Entry, new.player \notin Queued
  PROVE  /\ NewMatch(new) \in SUBSET (1 .. Len(Entries(new)))
         /\ IsFiniteSet(NewTable(new))
         /\ \A e \in NewTable(new) :
              /\ e \in Entry /\ Compatible(e, new)
              /\ Chips(new.buyIn) <= wallet[e.player]
              /\ \E i \in NewMatch(new) : e = Entries(new)[i]
         /\ \A e, f \in NewTable(new) : e.player = f.player => e = f
<1> DEFINE q == Entries(new)
<1> DEFINE M == NewMatch(new)
<1> DEFINE P == Paying(q, M, Chips(new.buyIn))
<1> DEFINE J == {j \in P : Cardinality({k \in P : k > j}) < MatchSize}
<1>1. queue \in Seq(Entry)
  BY DEF MatchTypeOK
<1>2. /\ q \in Seq(Entry) /\ DOMAIN q = 1 .. Len(q) /\ Len(q) \in Nat /\ Distinct(q)
      /\ M = {i \in DOMAIN q : Compatible(q[i], new)}
  BY <1>1, EntriesAre
<1>3. NewTable(new) = {q[i] : i \in J}
  BY DEF NewTable, Seated
<1> HIDE DEF q, M
<1>4. P = {i \in M : /\ Chips(new.buyIn) \in MinBuyIn .. MaxBuyIn
                  /\ Chips(new.buyIn) <= wallet[q[i].player]}
  BY DEF Paying
<1> HIDE DEF P
<1>5. J \subseteq P /\ P \subseteq M /\ M \in SUBSET (1 .. Len(q))
  BY <1>2, <1>4
<1> HIDE DEF J
<1>6. IsFiniteSet(NewTable(new))
  <2>1. IsFiniteSet(J)
    <3>1. IsFiniteSet(1 .. Len(q)) /\ J \in SUBSET (1 .. Len(q))
      BY <1>2, <1>5, FS_Interval
    <3> QED
      BY <3>1, FS_Subset
  <2> DEFINE f == [i \in J |-> q[i]]
  <2>2. f \in Surjection(J, NewTable(new))
    BY <1>3 DEF Surjection
  <2> QED
    BY <2>1, <2>2, FS_Surjection
<1>7. \A i \in J : /\ i \in DOMAIN q /\ i \in M /\ q[i] \in Entry /\ Compatible(q[i], new)
                   /\ Chips(new.buyIn) <= wallet[q[i].player]
  BY <1>2, <1>4, <1>5
<1>8. ASSUME NEW e \in NewTable(new)
      PROVE  /\ e \in Entry /\ Compatible(e, new)
             /\ Chips(new.buyIn) <= wallet[e.player]
             /\ \E i \in M : e = q[i]
  BY <1>3, <1>7
<1>9. \A e, f \in NewTable(new) : e.player = f.player => e = f
  BY <1>2, <1>3, <1>7 DEF Distinct
<1> QED
  BY <1>5, <1>6, <1>8, <1>9 DEF q, M

(* Less than a chip is cut off.                                            *)
LEMMA ChipsIs ==
  ASSUME NEW n \in Nat
  PROVE  /\ Unit \in Nat \ {0} /\ Chips(n) \in Nat
         /\ Chips(n) * Unit <= n
         /\ 3 * (Chips(n) + 1) * Unit > 3 * n
<1>1. Unit \in Nat /\ Unit > 0
  BY MatchmakingAssumption
<1>2. n \div Unit \in Int /\ 0 <= n \div Unit
  BY <1>1
<1>3. (n \div Unit) * Unit <= n
  BY <1>1
<1>4. n < (n \div Unit) * Unit + Unit
  BY <1>1
<1> DEFINE c == n \div Unit
<1> HIDE DEF c
<1>5. /\ c \in Nat /\ c * Unit \in Int /\ c * Unit <= n
      /\ 3 * (c + 1) * Unit = 3 * (c * Unit + Unit)
  BY <1>1, <1>2, <1>3 DEF c
<1>6. 3 * (c * Unit + Unit) > 3 * n
  BY <1>1, <1>4, <1>5 DEF c
<1> QED
  BY <1>1, <1>5, <1>6 DEF Chips, c

(* Nobody sits there yet.                                                  *)
LEMMA SeatsForAre ==
  ASSUME MatchTypeOK, Distinct(queue), SeatsOK, NEW new \in Entry, new.player \notin Queued
  PROVE  /\ IsFiniteSet(SeatsFor(new))
         /\ SeatsFor(new) \subseteq Seat
         /\ SeatsFor(new) \cap seats = {}
         /\ \A s \in SeatsFor(new) :
              /\ s.table = tables + 1 /\ s.chips = Chips(new.buyIn)
              /\ AsAsked(s)
              /\ \E e \in NewTable(new) : s.player = e.player
         /\ \A e \in NewTable(new) : \E s \in SeatsFor(new) : s.player = e.player
         /\ \A s, t \in SeatsFor(new) : s.player = t.player => s = t
<1>1. /\ IsFiniteSet(NewTable(new))
      /\ \A e \in NewTable(new) : e \in Entry /\ Compatible(e, new)
      /\ \A e, f \in NewTable(new) : e.player = f.player => e = f
  BY NewTableIs
<1>2. tables \in Nat /\ BuyIns \subseteq Nat
  BY MatchmakingAssumption DEF MatchTypeOK
<1>3. \A e \in Entry : e.player \in Players /\ e.buyIn \in BuyIns
  BY DEF Entry
<1>4. ASSUME NEW e \in NewTable(new)
      PROVE  /\ SeatFor(new, e) \in Seat
             /\ SeatFor(new, e).table = tables + 1
             /\ SeatFor(new, e).chips = Chips(new.buyIn)
             /\ SeatFor(new, e).player = e.player
             /\ AsAsked(SeatFor(new, e))
  <2>1. e.player \in Players /\ e.buyIn \in BuyIns /\ new.buyIn \in BuyIns
    BY <1>1, <1>3
  <2>2. /\ e.buyIn \in Nat /\ new.buyIn \in Nat /\ tables + 1 \in Nat
        /\ Unit \in Nat \ {0} /\ Chips(new.buyIn) \in Nat
        /\ Chips(new.buyIn) * Unit <= new.buyIn
        /\ 3 * (Chips(new.buyIn) + 1) * Unit > 3 * new.buyIn
    <3>1. e.buyIn \in Nat /\ new.buyIn \in Nat
      BY <1>2, <2>1
    <3>2. tables + 1 \in Nat
      BY <1>2
    <3> QED
      BY <3>1, <3>2, ChipsIs
  <2>3. /\ SeatFor(new, e) \in Seat
        /\ SeatFor(new, e).chips = Chips(new.buyIn) /\ SeatFor(new, e).asked = e.buyIn
        /\ SeatFor(new, e).table = tables + 1 /\ SeatFor(new, e).player = e.player
    BY <2>1, <2>2 DEF Seat, SeatFor
  <2>4. 2 * (e.buyIn - new.buyIn) <= new.buyIn /\ 2 * (new.buyIn - e.buyIn) <= new.buyIn
    BY <1>1 DEF Compatible
  <2>5. new.buyIn <= 2 * e.buyIn /\ 3 * new.buyIn >= 2 * e.buyIn
    BY <2>2, <2>4
  <2>6. Chips(new.buyIn) * Unit <= 2 * e.buyIn /\ 3 * (Chips(new.buyIn) + 1) * Unit > 2 * e.buyIn
    <3> DEFINE low == Chips(new.buyIn) * Unit
    <3> DEFINE high == 3 * (Chips(new.buyIn) + 1) * Unit
    <3>1. low \in Int /\ high \in Int
      BY <2>2
    <3>2. low <= new.buyIn /\ high > 3 * new.buyIn
      BY <2>2
    <3> HIDE DEF low, high
    <3>3. low <= 2 * e.buyIn /\ high > 2 * e.buyIn
      BY <2>2, <2>5, <3>1, <3>2
    <3> QED
      BY <3>3 DEF low, high
  <2>7. AsAsked(SeatFor(new, e))
    BY <2>3, <2>6 DEF AsAsked
  <2> QED
    BY <2>3, <2>7
<1>5. IsFiniteSet(SeatsFor(new))
  <2> DEFINE f == [e \in NewTable(new) |-> SeatFor(new, e)]
  <2>1. f \in Surjection(NewTable(new), SeatsFor(new))
    BY DEF SeatsFor, Surjection
  <2> QED
    BY <1>1, <2>1, FS_Surjection
<1>6. ASSUME NEW s \in SeatsFor(new)
      PROVE  /\ s \in Seat
             /\ s.table = tables + 1 /\ s.chips = Chips(new.buyIn)
             /\ AsAsked(s)
             /\ \E e \in NewTable(new) : s.player = e.player /\ s = SeatFor(new, e)
  <2>1. PICK e \in NewTable(new) : s = SeatFor(new, e)
    BY DEF SeatsFor
  <2> QED
    BY <1>4, <2>1
<1>7. \A e \in NewTable(new) : \E s \in SeatsFor(new) : s.player = e.player
  BY <1>4 DEF SeatsFor
<1>8. \A s, t \in SeatsFor(new) : s.player = t.player => s = t
  BY <1>1, <1>6
<1>9. SeatsFor(new) \cap seats = {}
  <2>1. \A s \in seats : s.table <= tables
    BY DEF SeatsOK
  <2>2. ~(tables + 1 <= tables)
    BY <1>2
  <2> QED
    BY <1>6, <2>1, <2>2
<1> QED
  BY <1>5, <1>6, <1>7, <1>8, <1>9

LEMMA SumFunctionIs ==
  ASSUME NEW f, NEW S, DOMAIN f = S
  PROVE  SumFunction(f) = Sum(f, S)
BY DEF SumFunction, Sum

Stacks(S) == [s \in S |-> s.chips]

(* The chips are those of the wallets and of the seats.                    *)
AllChips(w, S) == Sum(w, Players) + Sum(Stacks(S), S)

LEMMA AllChipsIs ==
  ASSUME NEW w \in [Players -> Nat], NEW S
  PROVE  SumFunction(w) + SumFunction([s \in S |-> s.chips]) = AllChips(w, S)
<1>1. SumFunction(w) = Sum(w, Players)
  BY SumFunctionIs
<1>2. Stacks(S) = [s \in S |-> s.chips] /\ DOMAIN Stacks(S) = S
  BY DEF Stacks
<1>3. SumFunction(Stacks(S)) = Sum(Stacks(S), S)
  BY <1>2, SumFunctionIs
<1> QED
  BY <1>1, <1>2, <1>3 DEF AllChips

(* Who is seated pays what he brings to the table.                         *)
LEMMA MatchMovesChips ==
  ASSUME MatchTypeOK, Distinct(queue), SeatsOK, NEW new \in Entry, new.player \notin Queued,
         Opens(new)
  PROVE  /\ wallet' \in [Players -> Nat]
         /\ IsFiniteSet(seats')
         /\ AllChips(wallet', seats') = AllChips(wallet, seats)
<1> DEFINE n == Chips(new.buyIn)
<1> DEFINE T == NewTable(new)
<1> DEFINE A == SeatsFor(new)
<1> DEFINE debit == [p \in Players |-> IF \E e \in T : e.player = p THEN n ELSE 0]
<1>1. /\ wallet' = Debited(T, n)
      /\ seats' = seats \cup A
  BY DEF Opens
<1>2. /\ n \in Nat /\ IsFiniteSet(Players) /\ wallet \in [Players -> Nat]
      /\ IsFiniteSet(seats) /\ \A s \in seats : s.chips \in Nat
  <2>1. new.buyIn \in Nat
    BY MatchmakingAssumption DEF Entry
  <2> QED
    BY <2>1, ChipsIs, MatchmakingAssumption DEF MatchTypeOK, SeatsOK, Seat
<1>3. \A e \in T : n <= wallet[e.player] /\ e \in Entry
  BY NewTableIs
<1>4. /\ IsFiniteSet(A) /\ A \subseteq Seat /\ A \cap seats = {}
      /\ \A s \in A : s.chips = n /\ \E e \in T : s.player = e.player
      /\ \A e \in T : \E s \in A : s.player = e.player
      /\ \A s, t \in A : s.player = t.player => s = t
  BY SeatsForAre
<1> HIDE DEF n, T, A
<1>5. ASSUME NEW p \in Players
      PROVE  /\ debit[p] \in Nat /\ wallet'[p] = wallet[p] - debit[p]
             /\ wallet'[p] \in Nat
  <2>1. wallet'[p] = IF \E e \in T : e.player = p THEN wallet[p] - n ELSE wallet[p]
    BY <1>1 DEF Debited
  <2>2. wallet[p] \in Nat
    BY <1>2
  <2>3. CASE \E e \in T : e.player = p
    <3>1. n <= wallet[p]
      BY <1>3, <2>3
    <3>2. debit[p] = n /\ wallet'[p] = wallet[p] - n
      BY <2>1, <2>3
    <3> QED
      BY <1>2, <2>2, <3>1, <3>2
  <2>4. CASE ~\E e \in T : e.player = p
    <3>1. debit[p] = 0 /\ wallet'[p] = wallet[p]
      BY <2>1, <2>4
    <3> QED
      BY <2>2, <3>1
  <2> QED
    BY <2>3, <2>4
<1>6. wallet' \in [Players -> Nat]
  BY <1>1, <1>5 DEF Debited
<1>7. Sum(wallet, Players) = Sum(wallet', Players) + Sum(debit, Players)
  <2>1. \A p \in Players : /\ wallet'[p] \in Int /\ debit[p] \in Int
                           /\ wallet[p] = wallet'[p] + debit[p]
    BY <1>2, <1>5
  <2> HIDE DEF debit
  <2> QED
    BY <1>2, <2>1, SumPlus
<1>8. Sum(debit, Players) = Sum(Stacks(A), A)
  <2> DEFINE b == [s \in A |-> s.player]
  <2>1. b \in [A -> Players] /\ \A x, y \in A : b[x] = b[y] => x = y
    BY <1>4 DEF Seat
  <2>2. \A x \in A : Stacks(A)[x] \in Int /\ debit[b[x]] = Stacks(A)[x]
    <3> SUFFICES ASSUME NEW x \in A PROVE Stacks(A)[x] \in Int /\ debit[x.player] = Stacks(A)[x]
      OBVIOUS
    <3>1. Stacks(A)[x] = n
      BY <1>4 DEF Stacks
    <3>2. x.player \in Players /\ \E e \in T : e.player = x.player
      BY <1>4 DEF Seat
    <3> QED
      BY <1>2, <3>1, <3>2
  <2>3. \A z \in Players : (\A x \in A : b[x] # z) => debit[z] = 0
    BY <1>4
  <2> DEFINE f == Stacks(A)
  <2> HIDE DEF b, f, debit
  <2>4. \A x \in A : f[x] \in Int /\ debit[b[x]] = f[x]
    BY <2>2 DEF f
  <2>5. IsFiniteSet(A) /\ IsFiniteSet(Players)
    BY <1>2, <1>4
  <2>6. Sum(debit, Players) = Sum(f, A)
    BY <2>1, <2>3, <2>4, <2>5, SumReindex
  <2> QED
    BY <2>6 DEF f
<1>9. IsFiniteSet(seats')
  BY <1>1, <1>2, <1>4, FS_Union
<1>10. Sum(Stacks(seats'), seats') = Sum(Stacks(seats), seats) + Sum(Stacks(A), A)
  <2> DEFINE f == Stacks(seats')
  <2>0. seats' = A \cup seats
    BY <1>1
  <2>1. \A s \in A \cup seats : f[s] \in Int /\ f[s] = s.chips
    BY <1>1, <1>2, <1>4 DEF Stacks
  <2>2. /\ \A s \in seats : f[s] \in Int /\ Stacks(seats)[s] = f[s]
        /\ \A s \in A : f[s] \in Int /\ Stacks(A)[s] = f[s]
    BY <2>1 DEF Stacks
  <2> HIDE DEF f
  <2>3. Sum(f, A \cup seats) = Sum(f, A) + Sum(f, seats)
    BY <1>2, <1>4, <2>1, SumUnion
  <2>4. Sum(Stacks(A), A) = Sum(f, A) /\ Sum(Stacks(seats), seats) = Sum(f, seats)
    BY <1>2, <1>4, <2>2, SumEqual
  <2>5. Sum(f, A) \in Int /\ Sum(f, seats) \in Int
    BY <1>2, <1>4, <2>2, SumInt
  <2>6. Sum(f, A \cup seats) = Sum(Stacks(seats), seats) + Sum(Stacks(A), A)
    BY <2>3, <2>4, <2>5
  <2> QED
    BY <2>0, <2>6 DEF f
<1>11. /\ Sum(wallet, Players) \in Int /\ Sum(wallet', Players) \in Int
       /\ Sum(Stacks(A), A) \in Int /\ Sum(Stacks(seats), seats) \in Int
  <2>1. /\ \A p \in Players : wallet[p] \in Int /\ wallet'[p] \in Int
        /\ \A s \in A : Stacks(A)[s] \in Int
        /\ \A s \in seats : Stacks(seats)[s] \in Int
    BY <1>2, <1>4, <1>6 DEF Stacks
  <2> QED
    BY <1>2, <1>4, <2>1, SumInt
<1>12. AllChips(wallet', seats') = AllChips(wallet, seats)
  BY <1>7, <1>8, <1>10, <1>11 DEF AllChips
<1> QED
  BY <1>6, <1>9, <1>12

(* A stack goes back to the wallet of its player.                          *)
LEMMA GiveUpMovesChips ==
  ASSUME MatchTypeOK, SeatsOK, NEW s \in seats, GiveUpSeat(s)
  PROVE  /\ wallet' \in [Players -> Nat]
         /\ IsFiniteSet(seats')
         /\ AllChips(wallet', seats') = AllChips(wallet, seats)
<1>1. /\ seats' = seats \ {s}
      /\ wallet' = [wallet EXCEPT ![s.player] = @ + s.chips]
  BY DEF GiveUpSeat
<1>2. /\ IsFiniteSet(Players) /\ wallet \in [Players -> Nat]
      /\ IsFiniteSet(seats) /\ \A t \in seats : t.chips \in Nat
      /\ s.player \in Players
  BY MatchmakingAssumption DEF MatchTypeOK, SeatsOK, Seat
<1>3. wallet' \in [Players -> Nat]
  BY <1>1, <1>2
<1>4. IsFiniteSet(seats')
  BY <1>1, <1>2, FS_Subset
<1>5. Sum(wallet', Players) = Sum(wallet, Players) - wallet[s.player] + wallet'[s.player]
  <2>1. \A p \in Players : wallet[p] \in Int /\ wallet'[p] \in Int
    BY <1>2, <1>3
  <2>2. \A p \in Players \ {s.player} : wallet'[p] = wallet[p]
    BY <1>1, <1>2
  <2> DEFINE w == wallet'
  <2> DEFINE e == s.player
  <2> HIDE DEF w, e
  <2>3. /\ e \in Players
        /\ \A p \in Players : wallet[p] \in Int /\ w[p] \in Int
        /\ \A p \in Players \ {e} : w[p] = wallet[p]
    BY <1>2, <2>1, <2>2 DEF w, e
  <2>4. Sum(w, Players) = Sum(wallet, Players) - wallet[e] + w[e]
    BY <1>2, <2>3, SumChanged
  <2> QED
    BY <2>4 DEF w, e
<1>6. wallet'[s.player] = wallet[s.player] + s.chips
  BY <1>1, <1>2
<1>7. Sum(Stacks(seats), seats) = s.chips + Sum(Stacks(seats'), seats')
  <2>1. /\ \A t \in seats : Stacks(seats)[t] \in Int
        /\ \A t \in seats \ {s} : /\ Stacks(seats)[t] \in Int
                                  /\ Stacks(seats \ {s})[t] = Stacks(seats)[t]
        /\ Stacks(seats)[s] = s.chips
    BY <1>2 DEF Stacks
  <2>2. Sum(Stacks(seats), seats) = Stacks(seats)[s] + Sum(Stacks(seats), seats \ {s})
    BY <1>2, <2>1, SumRemove
  <2>3. Sum(Stacks(seats \ {s}), seats \ {s}) = Sum(Stacks(seats), seats \ {s})
    BY <1>1, <1>4, <2>1, SumEqual
  <2> QED
    BY <1>1, <2>1, <2>2, <2>3
<1>8. /\ Sum(wallet, Players) \in Int /\ Sum(Stacks(seats'), seats') \in Int
      /\ wallet[s.player] \in Int /\ s.chips \in Int
  <2>1. /\ \A p \in Players : wallet[p] \in Int
        /\ \A t \in seats' : Stacks(seats')[t] \in Int
    BY <1>1, <1>2 DEF Stacks
  <2> QED
    BY <1>2, <1>4, <2>1, SumInt
<1>9. AllChips(wallet', seats') = AllChips(wallet, seats)
  BY <1>5, <1>6, <1>7, <1>8 DEF AllChips
<1> QED
  BY <1>3, <1>4, <1>9

LEMMA MinOfTwo ==
  ASSUME NEW a \in Nat, NEW b \in Nat
  PROVE  Min({a, b}) \in {a, b} /\ Min({a, b}) <= a /\ Min({a, b}) <= b
BY {a, b} \in SUBSET Nat, MinOfNats

(* No MatchSize players in the queue ask for the same.                     *)
FewAlike(q) == \A g \in Games, n \in BuyIns : Cardinality(Alike(q, g, n)) < MatchSize

LEMMA RoomIs ==
  ASSUME NEW t \in Nat
  PROVE  t < Min({MaxTables, ServerTables}) <=> t < MaxTables /\ t < ServerTables
<1>1. MaxTables \in Nat /\ ServerTables \in Nat
  BY MatchmakingAssumption
<1> DEFINE m == Min({MaxTables, ServerTables})
<1>2. m \in {MaxTables, ServerTables} /\ m <= MaxTables /\ m <= ServerTables
  BY <1>1, MinOfTwo
<1> HIDE DEF m
<1>3. t < m <=> t < MaxTables /\ t < ServerTables
  BY <1>1, <1>2
<1> QED
  BY <1>3 DEF m

(* A step of the queue keeps that few players agree.                       *)
LEMMA EnoughStep ==
  ASSUME MatchTypeOK, EnoughAreMatched, tables' \in Nat, tables' >= tables,
         tables' < MaxTables /\ tables' < ServerTables /\ FewAlike(queue) => FewAlike(queue')
  PROVE  EnoughAreMatched'
<1>1. tables \in Nat /\ MaxTables \in Nat /\ ServerTables \in Nat
  BY MatchmakingAssumption DEF MatchTypeOK
<1>2. /\ tables < Min({MaxTables, ServerTables}) <=> tables < MaxTables /\ tables < ServerTables
      /\ tables' < Min({MaxTables, ServerTables}) <=> tables' < MaxTables /\ tables' < ServerTables
  BY <1>1, RoomIs
<1>3. tables < MaxTables /\ tables < ServerTables => FewAlike(queue)
  BY <1>2 DEF EnoughAreMatched, FewAlike, Alike
<1>4. tables' < MaxTables /\ tables' < ServerTables => FewAlike(queue')
  BY <1>1, <1>3
<1> QED
  BY <1>2, <1>4 DEF EnoughAreMatched, FewAlike, Alike

(* What is left of a queue of which few agree.                             *)
LEMMA FewLeft ==
  ASSUME NEW entries \in Seq(Entry), NEW s \in SUBSET (1 .. Len(entries)), NEW q,
         LeftOf(entries, s, q), Distinct(entries), FewAlike(entries)
  PROVE  FewAlike(q)
<1> SUFFICES ASSUME NEW g \in Games, NEW n \in BuyIns
             PROVE  Cardinality(Alike(q, g, n)) < MatchSize
  BY DEF FewAlike
<1>1. /\ Cardinality(Alike(q, g, n)) \in Nat
      /\ Cardinality(Alike(entries, g, n)) \in Nat
      /\ Cardinality(Alike(q, g, n)) <= Cardinality(Alike(entries, g, n))
  BY LeftKeeps
<1>2. Cardinality(Alike(entries, g, n)) < MatchSize
  BY DEF FewAlike
<1> QED
  BY <1>1, <1>2, MatchmakingAssumption

(* A newcomer who waits: those who agree with him are too few.             *)
LEMMA FewWait ==
  ASSUME MatchTypeOK, Distinct(queue), FewAlike(queue), NEW new \in Entry,
         new.player \notin Queued, ~CanOpen(NewMatch(new)), tables < MaxTables,
         tables < ServerTables
  PROVE  FewAlike(Entries(new))
<1> DEFINE e == Entries(new)
<1> DEFINE M == NewMatch(new)
<1>1. queue \in Seq(Entry)
  BY DEF MatchTypeOK
<1>2. /\ e \in Seq(Entry) /\ Len(queue) \in Nat
      /\ DOMAIN queue = 1 .. Len(queue) /\ DOMAIN e = 1 .. Len(queue) + 1
      /\ \A i \in DOMAIN queue : e[i] = queue[i]
      /\ e[Len(queue) + 1] = new
      /\ M = {i \in DOMAIN e : Compatible(e[i], new)}
  BY <1>1, EntriesAre
<1>3. ~(Cardinality(M) >= MatchSize)
  BY DEF CanOpen
<1> HIDE DEF e, M
<1>4. IsFiniteSet(M) /\ Cardinality(M) \in Nat /\ MatchSize \in Nat
  <2>1. IsFiniteSet(DOMAIN e) /\ M \in SUBSET DOMAIN e
    BY <1>2, FS_Interval
  <2>2. IsFiniteSet(M)
    BY <2>1, FS_Subset
  <2> QED
    BY <2>2, FS_CardinalityType, MatchmakingAssumption
<1> SUFFICES ASSUME NEW g \in Games, NEW n \in BuyIns
             PROVE  Cardinality(Alike(e, g, n)) < MatchSize
  BY DEF FewAlike, e
<1>5. CASE new.game = g /\ new.buyIn = n
  <2>1. n \in Nat
    BY MatchmakingAssumption
  <2>2. Alike(e, g, n) \in SUBSET M
    BY <1>2, <1>5, <2>1 DEF Alike, Compatible
  <2>3. Cardinality(Alike(e, g, n)) <= Cardinality(M) /\ IsFiniteSet(Alike(e, g, n))
    BY <1>4, <2>2, FS_Subset
  <2>4. Cardinality(Alike(e, g, n)) \in Nat
    BY <2>3, FS_CardinalityType
  <2> QED
    BY <1>3, <1>4, <2>3, <2>4
<1>6. CASE ~(new.game = g /\ new.buyIn = n)
  <2>1. Alike(e, g, n) = Alike(queue, g, n)
    <3>1. \A i \in DOMAIN e : i \in DOMAIN queue \/ i = Len(queue) + 1
      BY <1>2
    <3>2. DOMAIN queue \subseteq DOMAIN e
      BY <1>2
    <3> QED
      BY <1>2, <1>6, <3>1, <3>2 DEF Alike
  <2> QED
    BY <2>1 DEF FewAlike
<1> QED
  BY <1>5, <1>6

-----------------------------------------------------------------------------
(* A match.                                                                *)
LEMMA OpensInv ==
  ASSUME MatchInv, NEW new \in Entry, new.player \notin Queued, Opens(new)
  PROVE  MatchInv'
<1>1. /\ MatchTypeOK /\ Distinct(queue) /\ SeatsOK /\ StakesPaid /\ EnoughAreMatched
      /\ queue \in Seq(Entry) /\ wallet \in [Players -> Nat] /\ seats \subseteq Seat
  BY DEF MatchInv, MatchTypeOK
<1>2. /\ Entries(new) \in Seq(Entry) /\ Distinct(Entries(new))
      /\ NewMatch(new) \in SUBSET (1 .. Len(Entries(new)))
  BY <1>1, EntriesAre, NewTableIs
<1>3. LeftOf(Entries(new), NewMatch(new), queue')
  BY <1>2, DequeuedRight DEF Opens
<1>4. queue' \in Seq(Entry) /\ Distinct(queue')
  BY <1>2, <1>3, LeftKeeps
<1>5. /\ wallet' \in [Players -> Nat] /\ IsFiniteSet(seats')
      /\ AllChips(wallet', seats') = AllChips(wallet, seats)
  BY <1>1, MatchMovesChips
<1>6. /\ seats' = seats \cup SeatsFor(new) /\ tables' = tables + 1
      /\ tables < MaxTables /\ tables < ServerTables
  BY DEF Opens, CanOpen
<1>7. /\ tables \in Nat /\ tables' \in Nat /\ tables' \in StartTables .. ServerTables
      /\ StartTables \in Nat /\ ServerTables \in Nat
  BY <1>1, <1>6, MatchmakingAssumption DEF MatchTypeOK
<1>8. /\ SeatsFor(new) \subseteq Seat
      /\ \A s \in SeatsFor(new) : s.table = tables + 1 /\ AsAsked(s)
  BY <1>1, SeatsForAre
<1>9. MatchTypeOK'
  BY <1>1, <1>4, <1>5, <1>6, <1>7, <1>8 DEF MatchTypeOK
<1>10. SeatsOK'
  <2>1. \A s \in seats : s.table \in Nat /\ s.table <= tables
    BY <1>1 DEF SeatsOK, Seat
  <2>2. \A s \in seats' : s.table <= tables'
    BY <1>6, <1>7, <1>8, <2>1
  <2> QED
    BY <1>5, <2>2 DEF SeatsOK
<1>11. StakesPaid'
  <2>1. ChipsKept'
    <3>1. AllChips(wallet, seats) = Purse * Cardinality(Players)
      BY <1>1, AllChipsIs DEF StakesPaid, ChipsKept
    <3>2. SumFunction(wallet') + SumFunction([s \in seats' |-> s.chips]) = AllChips(wallet', seats')
      BY <1>5, AllChipsIs
    <3> QED
      BY <1>5, <3>1, <3>2 DEF ChipsKept
  <2>2. \A s \in seats' : AsAsked(s)
    BY <1>1, <1>6, <1>8 DEF StakesPaid
  <2> QED
    BY <1>9, <2>1, <2>2 DEF StakesPaid
<1>12. EnoughAreMatched'
  <2>1. ASSUME FewAlike(queue) PROVE FewAlike(queue')
    <3> SUFFICES ASSUME NEW g \in Games, NEW n \in BuyIns
                 PROVE  Cardinality(Alike(queue', g, n)) < MatchSize
      BY DEF FewAlike
    <3> DEFINE e == Entries(new)
    <3> DEFINE q == queue'
    <3>1. /\ Cardinality(Alike(q, g, n)) \in Nat
          /\ Cardinality(Alike(e, g, n)) \in Nat
          /\ Cardinality(Alike(q, g, n)) <= Cardinality(Alike(e, g, n))
      BY <1>2, <1>3, LeftKeeps
    <3>2. /\ DOMAIN queue = 1 .. Len(queue) /\ DOMAIN e = 1 .. Len(queue) + 1
          /\ Len(queue) \in Nat
          /\ \A i \in DOMAIN queue : e[i] = queue[i]
          /\ e[Len(queue) + 1] = new
          /\ NewMatch(new) = {i \in DOMAIN e : Compatible(e[i], new)}
      BY <1>1, EntriesAre
    <3>3. CASE new.game = g /\ new.buyIn = n
      <4>1. n \in Nat
        BY MatchmakingAssumption
      <4>2. \A i \in DOMAIN e : e[i].game = g /\ e[i].buyIn = n => i \in NewMatch(new)
        BY <3>2, <3>3, <4>1 DEF Compatible
      <4>3. PICK c : Keeps(e, NewMatch(new), q, c)
        BY <1>3 DEF LeftOf
      <4>4. Alike(q, g, n) = {}
        <5> SUFFICES ASSUME NEW j \in DOMAIN q, q[j].game = g, q[j].buyIn = n PROVE FALSE
          BY DEF Alike
        <5>1. DOMAIN q = 1 .. Len(q)
          BY <1>4
        <5>2. c[j] \in (1 .. Len(e)) \ NewMatch(new) /\ q[j] = e[c[j]]
          BY <4>3, <5>1 DEF Keeps
        <5>3. DOMAIN e = 1 .. Len(e)
          BY <1>2
        <5> QED
          BY <4>2, <5>2, <5>3
      <4>5. Cardinality(Alike(q, g, n)) = 0
        BY <4>4, FS_EmptySet
      <4> QED
        BY <4>5, MatchmakingAssumption
    <3>4. CASE ~(new.game = g /\ new.buyIn = n)
      <4>1. \A i \in DOMAIN e : i \in DOMAIN queue \/ i = Len(queue) + 1
        BY <3>2
      <4>2. DOMAIN queue \subseteq DOMAIN e
        BY <3>2
      <4> HIDE DEF e
      <4>3. Alike(e, g, n) = Alike(queue, g, n)
        BY <3>2, <3>4, <4>1, <4>2 DEF Alike
      <4>4. Cardinality(Alike(queue, g, n)) < MatchSize
        BY <2>1 DEF FewAlike
      <4> QED
        BY <3>1, <4>3, <4>4, MatchmakingAssumption
    <3> QED
      BY <3>3, <3>4
  <2> QED
    BY <1>1, <1>6, <1>7, <2>1, EnoughStep
<1> QED
  BY <1>4, <1>9, <1>10, <1>11, <1>12 DEF MatchInv

(* A newcomer who waits.                                                   *)
LEMMA WaitsInv ==
  ASSUME MatchInv, NEW new \in Entry, new.player \notin Queued, Waits(new)
  PROVE  MatchInv'
<1>1. /\ MatchTypeOK /\ Distinct(queue) /\ SeatsOK /\ StakesPaid /\ EnoughAreMatched
      /\ queue \in Seq(Entry)
  BY DEF MatchInv, MatchTypeOK
<1>2. queue' = Entries(new) /\ wallet' = wallet /\ tables' = tables /\ seats' = seats
  BY DEF Waits
<1>3. queue' \in Seq(Entry) /\ Distinct(queue')
  BY <1>1, <1>2, EntriesAre
<1>4. MatchTypeOK'
  BY <1>1, <1>2, <1>3 DEF MatchTypeOK
<1>5. SeatsOK' /\ StakesPaid'
  BY <1>1, <1>2, <1>4 DEF SeatsOK, StakesPaid, ChipsKept
<1>6. EnoughAreMatched'
  <2>1. tables \in Nat
    BY <1>1, MatchmakingAssumption DEF MatchTypeOK
  <2>2. ASSUME tables < MaxTables, tables < ServerTables, FewAlike(queue)
        PROVE  FewAlike(queue')
    <3>1. ~CanOpen(NewMatch(new))
      BY DEF Waits
    <3> QED
      BY <1>1, <1>2, <2>2, <3>1, FewWait
  <2> QED
    BY <1>1, <1>2, <2>1, <2>2, EnoughStep
<1> QED
  BY <1>3, <1>4, <1>5, <1>6 DEF MatchInv

(* Who leaves the queue leaves the others in it.                           *)
LEMMA LeaveIs ==
  ASSUME queue \in Seq(Entry), NEW p, Leave(p)
  PROVE  \E i \in 1 .. Len(queue) : /\ queue[i].player = p
                                    /\ LeftOf(queue, {i}, queue')
<1>1. PICK i \in DOMAIN queue : queue[i].player = p /\ queue' = RemoveAt(queue, i)
  BY DEF Leave
<1>2. i \in 1 .. Len(queue) /\ {i} \in SUBSET (1 .. Len(queue))
  OBVIOUS
<1>3. LeftOf(queue, {i} \ {i}, queue)
  BY NothingErased, {i} \ {i} = {}
<1>4. \A r \in {i} : i <= r
  BY <1>2
<1>5. i \in {i}
  OBVIOUS
<1>6. LeftOf(queue, {i}, RemoveAt(queue, i))
  BY <1>2, <1>3, <1>4, <1>5, ErasedOne
<1> QED
  BY <1>1, <1>2, <1>6

LEMMA LeaveInv ==
  ASSUME MatchInv, NEW p, Leave(p)
  PROVE  MatchInv'
<1>1. /\ MatchTypeOK /\ Distinct(queue) /\ SeatsOK /\ StakesPaid /\ EnoughAreMatched
      /\ queue \in Seq(Entry)
  BY DEF MatchInv, MatchTypeOK
<1>2. wallet' = wallet /\ tables' = tables /\ seats' = seats
  BY DEF Leave
<1>3. PICK i \in 1 .. Len(queue) : queue[i].player = p /\ LeftOf(queue, {i}, queue')
  BY <1>1, LeaveIs
<1>4. {i} \in SUBSET (1 .. Len(queue))
  OBVIOUS
<1>5. queue' \in Seq(Entry) /\ Distinct(queue')
  BY <1>1, <1>3, <1>4, LeftKeeps
<1>6. MatchTypeOK'
  BY <1>1, <1>2, <1>5 DEF MatchTypeOK
<1>7. SeatsOK' /\ StakesPaid'
  BY <1>1, <1>2, <1>6 DEF SeatsOK, StakesPaid, ChipsKept
<1>8. FewAlike(queue) => FewAlike(queue')
  BY <1>1, <1>3, <1>4, FewLeft
<1>9. tables \in Nat
  BY <1>1, MatchmakingAssumption DEF MatchTypeOK
<1>10. EnoughAreMatched'
  BY <1>1, <1>2, <1>8, <1>9, EnoughStep
<1> QED
  BY <1>5, <1>6, <1>7, <1>10 DEF MatchInv

LEMMA GiveUpInv ==
  ASSUME MatchInv, NEW s \in seats, GiveUpSeat(s)
  PROVE  MatchInv'
<1>1. /\ MatchTypeOK /\ Distinct(queue) /\ SeatsOK /\ StakesPaid /\ EnoughAreMatched
      /\ wallet \in [Players -> Nat]
  BY DEF MatchInv, MatchTypeOK
<1>2. queue' = queue /\ tables' = tables /\ seats' = seats \ {s}
  BY DEF GiveUpSeat
<1>3. /\ wallet' \in [Players -> Nat] /\ IsFiniteSet(seats')
      /\ AllChips(wallet', seats') = AllChips(wallet, seats)
  BY <1>1, GiveUpMovesChips
<1>4. MatchTypeOK'
  BY <1>1, <1>2, <1>3 DEF MatchTypeOK
<1>5. SeatsOK'
  BY <1>1, <1>2, <1>3 DEF SeatsOK
<1>6. ChipsKept'
  <2>1. AllChips(wallet, seats) = Purse * Cardinality(Players)
    BY <1>1, AllChipsIs DEF StakesPaid, ChipsKept
  <2>2. SumFunction(wallet') + SumFunction([t \in seats' |-> t.chips]) = AllChips(wallet', seats')
    BY <1>3, AllChipsIs
  <2> QED
    BY <1>3, <2>1, <2>2 DEF ChipsKept
<1>7. StakesPaid'
  BY <1>1, <1>2, <1>4, <1>6 DEF StakesPaid
<1>8. EnoughAreMatched'
  BY <1>1, <1>2 DEF EnoughAreMatched
<1> QED
  BY <1>1, <1>2, <1>4, <1>5, <1>7, <1>8 DEF MatchInv

(* Nobody has come yet.                                                    *)
LEMMA MatchInitInv == MatchInit => MatchInv
<1> SUFFICES ASSUME MatchInit PROVE MatchInv
  OBVIOUS
<1>1. /\ wallet = [p \in Players |-> Purse] /\ queue = << >>
      /\ tables = StartTables /\ seats = {}
  BY DEF MatchInit
<1>2. /\ Purse \in Nat /\ IsFiniteSet(Players) /\ MatchSize \in Nat \ {0}
      /\ StartTables \in Nat /\ ServerTables \in Nat /\ StartTables <= ServerTables
  BY MatchmakingAssumption
<1>3. MatchTypeOK
  BY <1>1, <1>2 DEF MatchTypeOK
<1>4. Distinct(queue) /\ SeatsOK
  BY <1>1, FS_EmptySet DEF Distinct, SeatsOK
<1>5. StakesPaid
  <2>1. Sum(wallet, Players) = Purse * Cardinality(Players)
    BY <1>1, <1>2, SumConst
  <2>2. Sum(Stacks(seats), seats) = 0
    BY <1>1, SumEmpty
  <2>3. Cardinality(Players) \in Nat
    BY <1>2, FS_CardinalityType
  <2>4. Purse * Cardinality(Players) \in Int
    BY <1>2, <2>3
  <2>5. AllChips(wallet, seats) = Purse * Cardinality(Players)
    BY <2>1, <2>2, <2>4 DEF AllChips
  <2>6. wallet \in [Players -> Nat]
    BY <1>1, <1>2
  <2>7. ChipsKept
    BY <2>5, <2>6, AllChipsIs DEF ChipsKept
  <2> QED
    BY <1>1, <1>3, <2>7 DEF StakesPaid
<1>6. EnoughAreMatched
  <2>1. \A g, n : {i \in DOMAIN queue : queue[i].game = g /\ queue[i].buyIn = n} = {}
    BY <1>1
  <2> QED
    BY <1>2, <2>1, FS_EmptySet DEF EnoughAreMatched
<1> QED
  BY <1>3, <1>4, <1>5, <1>6 DEF MatchInv

LEMMA MatchStepInv == MatchInv /\ [MatchNext]_lobby => MatchInv'
<1> SUFFICES ASSUME MatchInv, [MatchNext]_lobby PROVE MatchInv'
  OBVIOUS
<1>1. ASSUME NEW new \in Entry, Join(new) PROVE MatchInv'
  BY <1>1, JoinIs, OpensInv, WaitsInv
<1>2. ASSUME NEW p \in Players, Leave(p) PROVE MatchInv'
  BY <1>2, LeaveInv
<1>3. ASSUME NEW s \in seats, GiveUpSeat(s) PROVE MatchInv'
  BY <1>3, GiveUpInv
<1>4. CASE UNCHANGED lobby
  BY <1>4 DEF lobby, MatchInv, MatchTypeOK, Distinct, SeatsOK, StakesPaid, ChipsKept,
              EnoughAreMatched
<1> QED
  BY <1>1, <1>2, <1>3, <1>4 DEF MatchNext

-----------------------------------------------------------------------------
(* The inductive invariant: nobody queues twice, and who is at a table     *)
(* sits at one that has been opened (JoinMatchmaking of                    *)
(* cli/poker_ws_server.cpp), with what EnoughAreMatched and StakesPaid say. *)
THEOREM MatchmakingInvariant == MatchSpec => []MatchInv
<1>1. MatchInit => MatchInv
  BY MatchInitInv
<1>2. MatchInv /\ [MatchNext]_lobby => MatchInv'
  BY MatchStepInv
<1> QED
  BY <1>1, <1>2, PTL DEF MatchSpec

(* For any players, amounts and table size: as long as a table can be      *)
(* opened, players who agree on game and buy-in do not wait for each       *)
(* other, although others are matched, leave and come in between (the      *)
(* matching loop of JoinMatchmaking).                                      *)
THEOREM MatchmakingEnoughAreMatched == MatchSpec => []EnoughAreMatched
<1>1. MatchInv => EnoughAreMatched
  BY DEF MatchInv
<1> QED
  BY <1>1, MatchmakingInvariant, PTL

(* For any players and amounts, fractions of a chip included: what is in   *)
(* the wallets and at the tables is what was there first, and nobody plays *)
(* for more than twice what he asked for, or for a whole chip less than    *)
(* two thirds of it (JoinMatchmaking and seatPlayerWithBuyIn of            *)
(* cli/poker_ws_server.cpp).                                               *)
THEOREM MatchmakingStakesPaid == MatchSpec => []StakesPaid
<1>1. MatchInv => StakesPaid
  BY DEF MatchInv
<1> QED
  BY <1>1, MatchmakingInvariant, PTL

-----------------------------------------------------------------------------
(* The players of a match: who leaves the queue, and who gets a seat.      *)
LEMMA MatchPlayers ==
  ASSUME MatchInv, NEW new \in Entry, new.player \notin Queued, Opens(new)
  PROVE  /\ NewSeats = {e.player : e \in NewTable(new)}
         /\ Queued' = {Entries(new)[i].player : i \in DOMAIN Entries(new) \ NewMatch(new)}
         /\ Queued = {Entries(new)[i].player : i \in DOMAIN queue}
<1>1. /\ MatchTypeOK /\ Distinct(queue) /\ SeatsOK /\ queue \in Seq(Entry)
  BY DEF MatchInv, MatchTypeOK
<1>2. /\ Entries(new) \in Seq(Entry) /\ Distinct(Entries(new))
      /\ NewMatch(new) \in SUBSET (1 .. Len(Entries(new)))
      /\ \A i \in DOMAIN queue : Entries(new)[i] = queue[i]
  BY <1>1, EntriesAre, NewTableIs
<1>3. LeftOf(Entries(new), NewMatch(new), queue')
  BY <1>2, DequeuedRight DEF Opens
<1>4. Queued' = {Entries(new)[i].player : i \in DOMAIN Entries(new) \ NewMatch(new)}
  <2> DEFINE q == queue'
  <2>1. PlayersOf(q) = {Entries(new)[i].player : i \in DOMAIN Entries(new) \ NewMatch(new)}
    BY <1>2, <1>3, LeftKeeps
  <2>2. Queued' = PlayersOf(q)
    BY DEF Queued, PlayersOf
  <2> QED
    BY <2>1, <2>2
<1>5. Queued = {Entries(new)[i].player : i \in DOMAIN queue}
  BY <1>2 DEF Queued
<1>6. /\ SeatsFor(new) \cap seats = {}
      /\ \A s \in SeatsFor(new) : \E e \in NewTable(new) : s.player = e.player
      /\ \A e \in NewTable(new) : \E s \in SeatsFor(new) : s.player = e.player
  BY <1>1, SeatsForAre
<1>7. seats' \ seats = SeatsFor(new)
  BY <1>6 DEF Opens
<1>8. NewSeats = {e.player : e \in NewTable(new)}
  BY <1>6, <1>7 DEF NewSeats
<1> QED
  BY <1>4, <1>5, <1>8

(* Who is seated is not queued any more.                                   *)
LEMMA SeatedAreNotQueued ==
  ASSUME MatchInv, NEW new \in Entry, new.player \notin Queued, Opens(new)
  PROVE  NewSeats \cap Queued' = {}
<1>1. /\ MatchTypeOK /\ Distinct(queue) /\ queue \in Seq(Entry)
  BY DEF MatchInv, MatchTypeOK
<1>2. /\ DOMAIN Entries(new) = 1 .. Len(Entries(new)) /\ Distinct(Entries(new))
      /\ NewMatch(new) \in SUBSET (1 .. Len(Entries(new)))
      /\ \A e \in NewTable(new) : \E i \in NewMatch(new) : e = Entries(new)[i]
  BY <1>1, EntriesAre, NewTableIs
<1>3. /\ NewSeats = {e.player : e \in NewTable(new)}
      /\ Queued' = {Entries(new)[i].player : i \in DOMAIN Entries(new) \ NewMatch(new)}
  BY MatchPlayers
<1>4. \A e \in NewTable(new), i \in DOMAIN Entries(new) \ NewMatch(new) :
        e.player # Entries(new)[i].player
  BY <1>2 DEF Distinct
<1> QED
  BY <1>3, <1>4

(* Who could pay and got no seat: the table is full of later players.      *)
LEMMA UnseatedWereTooMany ==
  ASSUME MatchInv, NEW new \in Entry, new.player \notin Queued, Opens(new),
         NEW p \in (Queued \ Queued') \ NewSeats,
         Chips(new.buyIn) \in MinBuyIn .. MaxBuyIn, Chips(new.buyIn) <= wallet[p]
  PROVE  Cardinality(Queued \ Queued') >= MatchSize
<1> DEFINE q == Entries(new)
<1> DEFINE M == NewMatch(new)
<1> DEFINE P == Paying(q, M, Chips(new.buyIn))
<1>1. /\ MatchTypeOK /\ Distinct(queue) /\ queue \in Seq(Entry)
  BY DEF MatchInv, MatchTypeOK
<1>2. /\ q \in Seq(Entry) /\ Len(queue) \in Nat
      /\ DOMAIN queue = 1 .. Len(queue) /\ DOMAIN q = 1 .. Len(queue) + 1
      /\ Distinct(q) /\ M \in SUBSET DOMAIN q
  BY <1>1, EntriesAre
<1>3. /\ NewSeats = {e.player : e \in NewTable(new)}
      /\ Queued' = {q[i].player : i \in DOMAIN q \ M}
      /\ Queued = {q[i].player : i \in DOMAIN queue}
  BY MatchPlayers
<1>4. NewTable(new) = {q[i] : i \in {j \in P : Cardinality({k \in P : k > j}) < MatchSize}}
  BY DEF NewTable, Seated
<1>5. P = {i \in M : /\ Chips(new.buyIn) \in MinBuyIn .. MaxBuyIn
                  /\ Chips(new.buyIn) <= wallet[q[i].player]}
  BY DEF Paying
<1> HIDE DEF q, M, P
<1>6. PICK i \in DOMAIN queue : q[i].player = p
  BY <1>3
<1>7. i \in P /\ i \in DOMAIN q /\ i \in Nat
  <2>1. i \in DOMAIN q /\ i \in Nat
    BY <1>2
  <2>2. i \in M
    BY <1>3, <1>6, <2>1
  <2> QED
    BY <1>5, <1>6, <2>1, <2>2
<1> DEFINE K == {k \in P : k > i}
<1> DEFINE z == Len(queue) + 1
<1> DEFINE B == ({i} \cup K) \ {z}
<1> DEFINE G == Queued \ Queued'
<1>8. ~(Cardinality(K) < MatchSize)
  <2>1. Cardinality(K) < MatchSize => q[i] \in NewTable(new)
    BY <1>4, <1>7
  <2>2. q[i] \in NewTable(new) => p \in NewSeats
    BY <1>3, <1>6
  <2> QED
    BY <2>1, <2>2
<1>9. /\ IsFiniteSet(K) /\ i \notin K /\ z # i /\ z \in Nat
      /\ K \subseteq DOMAIN q
  <2>1. K \in SUBSET (1 .. Len(queue) + 1)
    BY <1>2, <1>5
  <2>2. IsFiniteSet(1 .. Len(queue) + 1)
    BY <1>2, FS_Interval
  <2>3. IsFiniteSet(K)
    BY <2>1, <2>2, FS_Subset
  <2> QED
    BY <1>2, <1>7, <2>1, <2>3
<1> HIDE DEF K, z
<1>10. Cardinality({i} \cup K) = Cardinality(K) + 1 /\ IsFiniteSet({i} \cup K)
  <2>1. {i} \cup K = K \cup {i}
    OBVIOUS
  <2> QED
    BY <1>9, <2>1, FS_AddElement
<1>11. IsFiniteSet(B) /\ Cardinality(B) >= Cardinality(K) /\ Cardinality(B) \in Nat
  <2>1. Cardinality(K) \in Nat
    BY <1>9, FS_CardinalityType
  <2>2. /\ IsFiniteSet(B)
        /\ Cardinality(B) = IF z \in {i} \cup K THEN Cardinality({i} \cup K) - 1
                                                ELSE Cardinality({i} \cup K)
    BY <1>10, FS_RemoveElement
  <2> QED
    BY <1>10, <2>1, <2>2
<1>12. \A k \in B : k \in DOMAIN queue /\ k \in M /\ k \in DOMAIN q
  <2>1. \A k \in DOMAIN q : k # z => k \in DOMAIN queue
    BY <1>2 DEF z
  <2>2. \A k \in B : k \in P /\ k \in DOMAIN q /\ k # z
    BY <1>7, <1>9 DEF K
  <2> QED
    BY <1>5, <2>1, <2>2
<1> HIDE DEF B
<1>13. \A k \in B : q[k].player \in G
  <2> SUFFICES ASSUME NEW k \in B PROVE q[k].player \in G
    OBVIOUS
  <2>1. q[k].player \in Queued
    BY <1>3, <1>12
  <2>2. \A j \in DOMAIN q \ M : q[j].player # q[k].player
    BY <1>2, <1>12 DEF Distinct
  <2> QED
    BY <1>3, <2>1, <2>2
<1>14. IsFiniteSet(G)
  <2>1. \A k \in DOMAIN queue : queue[k] \in Entry
    BY <1>1
  <2>2. Queued \subseteq Players
    BY <2>1 DEF Queued, Entry
  <2>3. G \in SUBSET Players /\ IsFiniteSet(Players)
    BY <2>2, MatchmakingAssumption
  <2> QED
    BY <2>3, FS_Subset
<1> HIDE DEF G
<1> DEFINE f == [k \in B |-> q[k].player]
<1>15. f \in Injection(B, G)
  <2>1. \A j, k \in B : q[j].player = q[k].player => j = k
    BY <1>2, <1>12 DEF Distinct
  <2> QED
    BY <1>13, <2>1 DEF Injection, IsInjective
<1>16. Cardinality(B) <= Cardinality(G)
  BY <1>11, <1>14, <1>15, FS_Injection
<1>17. Cardinality(G) >= MatchSize
  <2>1. /\ Cardinality(G) \in Nat /\ Cardinality(K) \in Nat /\ MatchSize \in Nat
    BY <1>9, <1>14, FS_CardinalityType, MatchmakingAssumption
  <2> QED
    BY <1>8, <1>11, <1>16, <2>1
<1> QED
  BY <1>17 DEF G

(* What EntriesServedOnce says of a step.                                  *)
ServedOnce ==
  /\ NewSeats \cap Queued' = {}
  /\ \A p \in (Queued \ Queued') \ NewSeats :
       \/ Leave(p)
       \/ \E new \in Entry : /\ Join(new)
                             /\ \/ Chips(new.buyIn) \notin MinBuyIn .. Min({MaxBuyIn, wallet[p]})
                                \/ Cardinality(Queued \ Queued') >= MatchSize

LEMMA MinIs ==
  ASSUME NEW a \in Nat, NEW b \in Nat, NEW c \in Nat, NEW n \in Nat
  PROVE  n \notin c .. Min({a, b}) <=> n \notin c .. a \/ n > b
<1> DEFINE m == Min({a, b})
<1>1. m \in {a, b} /\ \A y \in {a, b} : m <= y
  BY MinOfNats
<1> HIDE DEF m
<1>2. (m = a \/ m = b) /\ m <= a /\ m <= b
  BY <1>1
<1>3. n \notin c .. m <=> n \notin c .. a \/ n > b
  BY <1>2
<1> QED
  BY <1>3 DEF m

LEMMA OpensServes ==
  ASSUME MatchInv, NEW new \in Entry, Join(new), Opens(new)
  PROVE  ServedOnce
<1>1. new.player \notin Queued
  BY JoinIs
<1>2. NewSeats \cap Queued' = {}
  BY <1>1, SeatedAreNotQueued
<1>3. ASSUME NEW p \in (Queued \ Queued') \ NewSeats
      PROVE  \/ Chips(new.buyIn) \notin MinBuyIn .. Min({MaxBuyIn, wallet[p]})
             \/ Cardinality(Queued \ Queued') >= MatchSize
  <2>1. /\ queue \in Seq(Entry) /\ wallet \in [Players -> Nat]
    BY DEF MatchInv, MatchTypeOK
  <2>2. p \in Players
    <3>1. \A k \in DOMAIN queue : queue[k] \in Entry
      BY <2>1
    <3> QED
      BY <3>1 DEF Queued, Entry
  <2>3. /\ wallet[p] \in Nat /\ MinBuyIn \in Nat /\ MaxBuyIn \in Nat
        /\ Chips(new.buyIn) \in Nat
    <3>1. new.buyIn \in Nat
      BY MatchmakingAssumption DEF Entry
    <3> QED
      BY <2>1, <2>2, <3>1, ChipsIs, MatchmakingAssumption
  <2>4. CASE Chips(new.buyIn) \in MinBuyIn .. MaxBuyIn /\ Chips(new.buyIn) <= wallet[p]
    BY <1>1, <2>4, UnseatedWereTooMany
  <2>5. CASE Chips(new.buyIn) \notin MinBuyIn .. MaxBuyIn \/ Chips(new.buyIn) > wallet[p]
    BY <2>3, <2>5, MinIs
  <2> QED
    BY <2>3, <2>4, <2>5
<1> QED
  BY <1>2, <1>3 DEF ServedOnce

(* Nobody gets a seat and nobody leaves the queue.                         *)
LEMMA NobodyServed ==
  ASSUME seats' \subseteq seats, Queued \subseteq Queued'
  PROVE  ServedOnce
<1>1. NewSeats = {}
  BY DEF NewSeats
<1> QED
  BY <1>1 DEF ServedOnce

LEMMA StepServes == MatchInv /\ [MatchNext]_lobby => [ServedOnce]_lobby
<1> SUFFICES ASSUME MatchInv, MatchNext PROVE ServedOnce
  OBVIOUS
<1>0. Distinct(queue) /\ queue \in Seq(Entry)
  BY DEF MatchInv, MatchTypeOK
<1>1. ASSUME NEW new \in Entry, Join(new) PROVE ServedOnce
  <2>1. CASE Opens(new)
    BY <1>1, <2>1, OpensServes
  <2>2. CASE Waits(new)
    <3>1. new.player \notin Queued
      BY <1>1, JoinIs
    <3>2. /\ \A i \in DOMAIN queue : Entries(new)[i] = queue[i]
          /\ DOMAIN queue \subseteq DOMAIN Entries(new)
      BY <1>0, <3>1, EntriesAre
    <3>3. queue' = Entries(new) /\ seats' = seats
      BY <2>2 DEF Waits
    <3>4. Queued \subseteq Queued'
      BY <3>2, <3>3 DEF Queued
    <3> QED
      BY <3>3, <3>4, NobodyServed
  <2> QED
    BY <1>1, <2>1, <2>2, JoinIs
<1>2. ASSUME NEW p \in Players, Leave(p) PROVE ServedOnce
  <2>1. seats' = seats
    BY <1>2 DEF Leave
  <2>2. PICK i \in 1 .. Len(queue) : queue[i].player = p /\ LeftOf(queue, {i}, queue')
    BY <1>0, <1>2, LeaveIs
  <2>3. {i} \in SUBSET (1 .. Len(queue))
    OBVIOUS
  <2>4. Queued' = {queue[k].player : k \in DOMAIN queue \ {i}}
    <3> DEFINE q == queue'
    <3>1. PlayersOf(q) = {queue[k].player : k \in DOMAIN queue \ {i}}
      BY <1>0, <2>2, <2>3, LeftKeeps
    <3>2. Queued' = PlayersOf(q)
      BY DEF Queued, PlayersOf
    <3> QED
      BY <3>1, <3>2
  <2>5. Queued \ Queued' \subseteq {p}
    BY <2>2, <2>4 DEF Queued
  <2>6. NewSeats = {}
    BY <2>1 DEF NewSeats
  <2> QED
    BY <1>2, <2>5, <2>6 DEF ServedOnce
<1>3. ASSUME NEW s \in seats, GiveUpSeat(s) PROVE ServedOnce
  <2>1. seats' \subseteq seats /\ queue' = queue
    BY <1>3 DEF GiveUpSeat
  <2>2. Queued' = Queued
    BY <2>1 DEF Queued
  <2> QED
    BY <2>1, <2>2, NobodyServed
<1> QED
  BY <1>1, <1>2, <1>3 DEF MatchNext

(* For any players, amounts and table size: a match seats nobody who is    *)
(* still queued, and drops nobody who could pay unless the table is full   *)
(* of others (the seating and erasing loops of JoinMatchmaking).           *)
THEOREM MatchmakingEntriesServedOnce == MatchSpec => EntriesServedOnce
<1>1. MatchInv /\ [MatchNext]_lobby => [ServedOnce]_lobby
  BY StepServes
<1> QED
  BY <1>1, MatchmakingInvariant, PTL DEF MatchSpec, EntriesServedOnce, ServedOnce
=============================================================================
