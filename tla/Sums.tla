-------------------------------- MODULE Sums --------------------------------
(***************************************************************************)
(* Facts about sums over finite sets, SumFunctionOnSet of Functions: the   *)
(* promises about chips are equations between such sums.  A sum is a fold, *)
(* defined by recursion; induction is done on sets of numbers or of sets   *)
(* that have a property, with a least counterexample (WFMin), which also   *)
(* gives the greatest element of a finite set its meaning.                 *)
(***************************************************************************)
EXTENDS Integers, FiniteSets, FiniteSetsExt, FiniteSetTheorems, WellFoundedInduction,
        TLAPS

Sum(f, S) == SumFunctionOnSet(f, S)

-----------------------------------------------------------------------------
(* Induction.                                                              *)
LEMMA NatsReached ==
  ASSUME NEW G, 0 \in G, \A n \in Nat : n \in G => n + 1 \in G
  PROVE  Nat \subseteq G
<1> DEFINE Bad == Nat \ G
<1> SUFFICES ASSUME Bad # {} PROVE FALSE
  OBVIOUS
<1>1. PICK n \in Bad : \A k \in Bad : ~(<<k, n>> \in OpToRel(<, Nat))
  BY WFMin, NatLessThanWellFounded
<1>2. \A k \in Nat : k < n => k \in G
  BY <1>1 DEF OpToRel
<1>3. n # 0 /\ n - 1 \in Nat /\ n - 1 < n
  OBVIOUS
<1> QED
  BY <1>2, <1>3

(* What the empty set has, and every set if all that are one smaller have  *)
(* it, all subsets have.                                                   *)
LEMMA SetsReached ==
  ASSUME NEW S, IsFiniteSet(S), NEW G, {} \in G,
         \A s \in SUBSET S : s # {} /\ (\A x \in s : s \ {x} \in G) => s \in G
  PROVE  SUBSET S \subseteq G
<1> DEFINE H == {n \in Nat : \A s \in SUBSET S : Cardinality(s) = n => s \in G}
<1>1. 0 \in H
  BY FS_EmptySet, FS_Subset
<1>2. ASSUME NEW n \in Nat, n \in H PROVE n + 1 \in H
  <2> SUFFICES ASSUME NEW s \in SUBSET S, Cardinality(s) = n + 1 PROVE s \in G
    OBVIOUS
  <2>1. IsFiniteSet(s)
    BY FS_Subset
  <2>2. s # {}
    BY FS_EmptySet
  <2>3. ASSUME NEW x \in s PROVE s \ {x} \in G
    <3>1. Cardinality(s \ {x}) = Cardinality(s) - 1
      BY <2>1, FS_RemoveElement
    <3>2. Cardinality(s \ {x}) = n
      BY <3>1
    <3> QED
      BY <1>2, <3>2
  <2> QED
    BY <2>2, <2>3
<1> HIDE DEF H
<1>3. Nat \subseteq H
  BY <1>1, <1>2, NatsReached
<1>4. \A s \in SUBSET S : Cardinality(s) \in Nat
  BY FS_CardinalityType, FS_Subset
<1> QED
  BY <1>3, <1>4 DEF H

(* A finite set of numbers has a greatest one.                             *)
LEMMA MaxOfFinite ==
  ASSUME NEW S, IsFiniteSet(S), S \subseteq Int, S # {}
  PROVE  Max(S) \in S /\ \A y \in S : y <= Max(S)
<1> DEFINE G == {s \in SUBSET S : s # {} => \E x \in s : \A y \in s : x >= y}
<1>1. ASSUME NEW s \in SUBSET S, s # {}, \A x \in s : s \ {x} \in G
      PROVE  s \in G
  <2>1. PICK x \in s : TRUE
    BY <1>1
  <2>2. CASE s = {x}
    <3>1. \A y \in s : x >= y
      BY <2>1, <2>2
    <3> QED
      BY <2>1, <3>1
  <2>3. CASE s # {x}
    <3>1. PICK z \in s \ {x} : \A y \in s \ {x} : z >= y
      BY <1>1, <2>1, <2>3
    <3>2. x \in Int /\ z \in Int /\ s \subseteq Int
      BY <2>1, <3>1
    <3>3. \E w \in s : \A y \in s : w >= y
      <4>1. CASE z >= x
        BY <2>1, <3>1, <3>2, <4>1
      <4>2. CASE x >= z
        BY <2>1, <3>1, <3>2, <4>2
      <4> QED
        BY <3>2, <4>1, <4>2
    <3> QED
      BY <3>3
  <2> QED
    BY <2>2, <2>3
<1>2. SUBSET S \subseteq G
  <2>1. {} \in G
    OBVIOUS
  <2> HIDE DEF G
  <2> QED
    BY <1>1, <2>1, SetsReached
<1>3. \E x \in S : \A y \in S : x >= y
  BY <1>2
<1>4. Max(S) \in S /\ \A y \in S : Max(S) >= y
  BY <1>3 DEF Max
<1> QED
  BY <1>4

(* A fold over the subsets of S: step[s][v] is what it makes of s when v   *)
(* is its value without the element picked.                                *)
FoldsTo(g, S, base, step, pick) ==
  \A s \in SUBSET S : g[s] = IF s = {} THEN base ELSE step[s][g[s \ {pick[s]}]]

FoldsUpTo(n, g, S, base, step, pick) ==
  \A s \in SUBSET S : Cardinality(s) <= n =>
    g[s] = IF s = {} THEN base ELSE step[s][g[s \ {pick[s]}]]

LEMMA FoldExists ==
  ASSUME NEW S, IsFiniteSet(S), NEW V, NEW base \in V,
         NEW step \in [SUBSET S -> [V -> V]],
         NEW pick, \A s \in SUBSET S : s # {} => pick[s] \in s
  PROVE  \E g \in [SUBSET S -> V] : FoldsTo(g, S, base, step, pick)
<1> DEFINE H == {n \in Nat : \E g \in [SUBSET S -> V] : FoldsUpTo(n, g, S, base, step, pick)}
<1>0. \A s \in SUBSET S : /\ IsFiniteSet(s) /\ Cardinality(s) \in Nat
                          /\ Cardinality(s) = 0 <=> s = {}
                          /\ \A x \in s : Cardinality(s \ {x}) = Cardinality(s) - 1
  BY FS_CardinalityType, FS_Subset, FS_EmptySet, FS_RemoveElement
<1>1. 0 \in H
  <2> DEFINE g == [s \in SUBSET S |-> base]
  <2>1. \A s \in SUBSET S : Cardinality(s) <= 0 => s = {}
    BY <1>0
  <2>2. g \in [SUBSET S -> V] /\ FoldsUpTo(0, g, S, base, step, pick)
    BY <2>1 DEF FoldsUpTo
  <2> HIDE DEF g
  <2> QED
    BY <2>2
<1>2. ASSUME NEW n \in Nat, n \in H PROVE n + 1 \in H
  <2>1. PICK g \in [SUBSET S -> V] : FoldsUpTo(n, g, S, base, step, pick)
    BY <1>2
  <2> DEFINE h == [s \in SUBSET S |-> IF s = {} THEN base ELSE step[s][g[s \ {pick[s]}]]]
  <2>2. h \in [SUBSET S -> V]
    OBVIOUS
  <2>3. \A s \in SUBSET S : Cardinality(s) <= n => h[s] = g[s]
    BY <2>1 DEF FoldsUpTo
  <2>4. ASSUME NEW s \in SUBSET S, Cardinality(s) <= n + 1
        PROVE  h[s] = IF s = {} THEN base ELSE step[s][h[s \ {pick[s]}]]
    <3>1. CASE s = {}
      BY <3>1
    <3>2. CASE s # {}
      <4>1. s \ {pick[s]} \in SUBSET S /\ Cardinality(s \ {pick[s]}) <= n
        BY <1>0, <2>4, <3>2
      <4>2. h[s \ {pick[s]}] = g[s \ {pick[s]}]
        BY <2>3, <4>1
      <4> QED
        BY <3>2, <4>2
    <3> QED
      BY <3>1, <3>2
  <2> HIDE DEF h
  <2>5. FoldsUpTo(n + 1, h, S, base, step, pick)
    BY <2>4 DEF FoldsUpTo
  <2> QED
    BY <2>2, <2>5
<1>3. Nat \subseteq H
  <2> HIDE DEF H
  <2> QED
    BY <1>1, <1>2, NatsReached
<1>4. Cardinality(S) \in H /\ \A s \in SUBSET S : Cardinality(s) <= Cardinality(S)
  BY <1>3, FS_CardinalityType, FS_Subset
<1>5. PICK g \in [SUBSET S -> V] : FoldsUpTo(Cardinality(S), g, S, base, step, pick)
  BY <1>4
<1> QED
  BY <1>4, <1>5 DEF FoldsTo, FoldsUpTo

-----------------------------------------------------------------------------
Some(s) == CHOOSE x \in s : TRUE

Adds(f, S, g) ==
  g = [s \in SUBSET S |-> IF s = {} THEN 0 ELSE f[Some(s)] + g[s \ {Some(s)}]]

Adder(f, S) == CHOOSE g : Adds(f, S, g)

LEMMA SumIsAdder ==
  ASSUME NEW f, NEW S
  PROVE  Sum(f, S) = Adder(f, S)[S]
  BY DEF Sum, SumFunctionOnSet, FoldFunctionOnSet, MapThenFoldSet, Adds, Some, Adder

LEMMA AdderAdds ==
  ASSUME NEW S, IsFiniteSet(S), NEW f, \A x \in S : f[x] \in Int
  PROVE  Adds(f, S, Adder(f, S)) /\ Adder(f, S) \in [SUBSET S -> Int]
<1> DEFINE step == [s \in SUBSET S |-> [v \in Int |-> IF s = {} THEN 0 ELSE f[Some(s)] + v]]
<1> DEFINE pick == [s \in SUBSET S |-> Some(s)]
<1>1. \A s \in SUBSET S : s # {} => Some(s) \in s
  BY DEF Some
<1>2. step \in [SUBSET S -> [Int -> Int]]
  <2> SUFFICES ASSUME NEW s \in SUBSET S, NEW v \in Int
               PROVE  (IF s = {} THEN 0 ELSE f[Some(s)] + v) \in Int
    OBVIOUS
  <2> QED
    BY <1>1
<1>3. \A s \in SUBSET S : s # {} => pick[s] \in s
  BY <1>1
<1>4. \A s \in SUBSET S, v \in Int : s # {} => step[s][v] = f[Some(s)] + v
  OBVIOUS
<1>5. \A s \in SUBSET S : pick[s] = Some(s)
  OBVIOUS
<1> HIDE DEF step, pick
<1>6. PICK g \in [SUBSET S -> Int] : FoldsTo(g, S, 0, step, pick)
  BY <1>2, <1>3, 0 \in Int, FoldExists
<1>7. \A s \in SUBSET S : g[s] = IF s = {} THEN 0 ELSE f[Some(s)] + g[s \ {Some(s)}]
  <2> SUFFICES ASSUME NEW s \in SUBSET S, s # {}
               PROVE  g[s] = f[Some(s)] + g[s \ {Some(s)}]
    BY <1>6 DEF FoldsTo
  <2>1. g[s] = step[s][g[s \ {Some(s)}]]
    BY <1>5, <1>6 DEF FoldsTo
  <2>2. g[s \ {Some(s)}] \in Int
    BY <1>6
  <2> QED
    BY <1>4, <2>1, <2>2
<1>8. Adds(f, S, g)
  BY <1>7 DEF Adds
<1>9. Adds(f, S, Adder(f, S))
  BY <1>8 DEF Adder
<1> DEFINE a == Adder(f, S)
<1> DEFINE G == {s \in SUBSET S : a[s] \in Int}
<1> HIDE DEF a
<1>10. \A s \in SUBSET S : a[s] = IF s = {} THEN 0 ELSE f[Some(s)] + a[s \ {Some(s)}]
  BY <1>9 DEF Adds, a
<1>11. a[{}] = 0
  BY <1>10
<1>12. ASSUME NEW s \in SUBSET S, s # {}, \A x \in s : s \ {x} \in G
       PROVE  s \in G
  <2>1. Some(s) \in s
    BY <1>1, <1>12
  <2>2. a[s \ {Some(s)}] \in Int /\ f[Some(s)] \in Int
    BY <1>12, <2>1
  <2>3. a[s] = f[Some(s)] + a[s \ {Some(s)}]
    BY <1>10, <1>12
  <2>4. a[s] \in Int
    BY <2>2, <2>3
  <2> QED
    BY <2>4
<1>13. SUBSET S \subseteq G
  <2>1. {} \in G
    BY <1>11
  <2> HIDE DEF G
  <2> QED
    BY <1>12, <2>1, SetsReached
<1>14. a \in [SUBSET S -> Int]
  BY <1>9, <1>13 DEF Adds, a
<1> QED
  BY <1>9, <1>14 DEF a

(* A sum without its chosen element.                                       *)
LEMMA SumPicked ==
  ASSUME NEW S, IsFiniteSet(S), NEW f, \A x \in S : f[x] \in Int, S # {}
  PROVE  Sum(f, S) = f[Some(S)] + Sum(f, S \ {Some(S)})
<1> DEFINE T == S \ {Some(S)}
<1> DEFINE a == Adder(f, S)
<1> DEFINE b == Adder(f, T)
<1>0. IsFiniteSet(T) /\ Some(S) \in S
  BY FS_Subset DEF Some
<1> HIDE DEF a, b
<1>1. \A s \in SUBSET S : a[s] = IF s = {} THEN 0 ELSE f[Some(s)] + a[s \ {Some(s)}]
  <2>1. Adds(f, S, a)
    BY AdderAdds DEF a
  <2> QED
    BY <2>1 DEF Adds
<1>2. \A s \in SUBSET T : b[s] = IF s = {} THEN 0 ELSE f[Some(s)] + b[s \ {Some(s)}]
  <2>1. Adds(f, T, b)
    BY <1>0, AdderAdds DEF b
  <2> QED
    BY <2>1 DEF Adds
<1> DEFINE G == {s \in SUBSET T : a[s] = b[s]}
<1>3. {} \in G
  BY <1>1, <1>2
<1>4. ASSUME NEW s \in SUBSET T, s # {}, \A x \in s : s \ {x} \in G
      PROVE  s \in G
  <2>1. Some(s) \in s
    BY <1>4 DEF Some
  <2>2. a[s \ {Some(s)}] = b[s \ {Some(s)}]
    BY <1>4, <2>1
  <2>3. s \in SUBSET S
    OBVIOUS
  <2> QED
    BY <1>1, <1>2, <1>4, <2>2, <2>3
<1>5. SUBSET T \subseteq G
  <2> HIDE DEF G, T
  <2> QED
    BY <1>0, <1>3, <1>4, SetsReached
<1>6. a[T] = b[T]
  BY <1>5
<1> QED
  BY <1>1, <1>6, SumIsAdder DEF a, b

LEMMA SumEmpty ==
  ASSUME NEW f
  PROVE  Sum(f, {}) = 0
<1>1. Adds(f, {}, Adder(f, {}))
  BY FS_EmptySet, AdderAdds
<1> QED
  BY <1>1, SumIsAdder DEF Adds

LEMMA SumInt ==
  ASSUME NEW S, IsFiniteSet(S), NEW f, \A x \in S : f[x] \in Int
  PROVE  Sum(f, S) \in Int
BY AdderAdds, SumIsAdder

(* Any element may be the first: addition commutes.                        *)
LEMMA SumRemove ==
  ASSUME NEW S, IsFiniteSet(S), NEW f, \A x \in S : f[x] \in Int, NEW e \in S
  PROVE  Sum(f, S) = f[e] + Sum(f, S \ {e})
<1> DEFINE G == {s \in SUBSET S : \A x \in s : Sum(f, s) = f[x] + Sum(f, s \ {x})}
<1>1. {} \in G
  OBVIOUS
<1>2. ASSUME NEW s \in SUBSET S, s # {}, \A x \in s : s \ {x} \in G
      PROVE  s \in G
  <2> SUFFICES ASSUME NEW x \in s PROVE Sum(f, s) = f[x] + Sum(f, s \ {x})
    OBVIOUS
  <2> DEFINE c == Some(s)
  <2>1. c \in s /\ IsFiniteSet(s) /\ \A y \in s : IsFiniteSet(s \ {y})
    BY <1>2, FS_Subset DEF Some
  <2> HIDE DEF c
  <2>2. Sum(f, s) = f[c] + Sum(f, s \ {c})
    BY <1>2, <2>1, SumPicked DEF c
  <2>3. CASE x = c
    BY <2>2, <2>3
  <2>4. CASE x # c
    <3>1. Sum(f, s \ {c}) = f[x] + Sum(f, (s \ {c}) \ {x})
      BY <1>2, <2>1, <2>4
    <3>2. Sum(f, s \ {x}) = f[c] + Sum(f, (s \ {x}) \ {c})
      BY <1>2, <2>1, <2>4
    <3>3. (s \ {x}) \ {c} = (s \ {c}) \ {x}
      OBVIOUS
    <3>4. IsFiniteSet((s \ {c}) \ {x})
      BY <2>1, FS_Subset
    <3>5. Sum(f, (s \ {c}) \ {x}) \in Int
      BY <3>4, SumInt
    <3>6. f[x] \in Int /\ f[c] \in Int
      BY <2>1
    <3> DEFINE r == Sum(f, (s \ {c}) \ {x})
    <3>7. /\ Sum(f, s) = f[c] + (f[x] + r)
          /\ Sum(f, s \ {x}) = f[c] + r
      BY <2>2, <3>1, <3>2, <3>3
    <3>8. r \in Int
      BY <3>5
    <3> HIDE DEF G, r
    <3> QED
      BY <3>6, <3>7, <3>8
  <2> QED
    BY <2>3, <2>4
<1>3. SUBSET S \subseteq G
  <2> HIDE DEF G
  <2> QED
    BY <1>1, <1>2, SetsReached
<1> QED
  BY <1>3

LEMMA SumAdd ==
  ASSUME NEW S, IsFiniteSet(S), NEW e, e \notin S, NEW f, \A x \in S \cup {e} : f[x] \in Int
  PROVE  Sum(f, S \cup {e}) = f[e] + Sum(f, S)
<1>1. IsFiniteSet(S \cup {e}) /\ (S \cup {e}) \ {e} = S
  BY FS_AddElement
<1> QED
  BY <1>1, SumRemove

(* Equal terms have equal sums.                                            *)
LEMMA SumEqual ==
  ASSUME NEW S, IsFiniteSet(S), NEW f, NEW g,
         \A x \in S : f[x] \in Int /\ g[x] = f[x]
  PROVE  Sum(g, S) = Sum(f, S)
<1> DEFINE G == {s \in SUBSET S : Sum(g, s) = Sum(f, s)}
<1>1. {} \in G
  BY SumEmpty
<1>2. ASSUME NEW s \in SUBSET S, s # {}, \A x \in s : s \ {x} \in G
      PROVE  s \in G
  <2>1. PICK x \in s : TRUE
    BY <1>2
  <2>2. IsFiniteSet(s)
    BY FS_Subset
  <2>3. Sum(f, s) = f[x] + Sum(f, s \ {x}) /\ Sum(g, s) = g[x] + Sum(g, s \ {x})
    BY <2>2, SumRemove
  <2> QED
    BY <1>2, <2>3
<1>3. SUBSET S \subseteq G
  <2> HIDE DEF G
  <2> QED
    BY <1>1, <1>2, SetsReached
<1> QED
  BY <1>3

LEMMA SumMonotone ==
  ASSUME NEW S, IsFiniteSet(S), NEW f, NEW g,
         \A x \in S : f[x] \in Int /\ g[x] \in Int /\ f[x] <= g[x]
  PROVE  Sum(f, S) <= Sum(g, S)
<1> DEFINE G == {s \in SUBSET S : Sum(f, s) <= Sum(g, s)}
<1>1. {} \in G
  BY SumEmpty
<1>2. ASSUME NEW s \in SUBSET S, s # {}, \A x \in s : s \ {x} \in G
      PROVE  s \in G
  <2>1. PICK x \in s : TRUE
    BY <1>2
  <2>2. IsFiniteSet(s) /\ IsFiniteSet(s \ {x})
    BY FS_Subset
  <2>3. Sum(f, s) = f[x] + Sum(f, s \ {x}) /\ Sum(g, s) = g[x] + Sum(g, s \ {x})
    BY <2>2, SumRemove
  <2>4. Sum(f, s \ {x}) \in Int /\ Sum(g, s \ {x}) \in Int
    BY <2>2, SumInt
  <2>5. Sum(f, s \ {x}) <= Sum(g, s \ {x})
    BY <1>2
  <2>6. f[x] \in Int /\ g[x] \in Int /\ f[x] <= g[x]
    OBVIOUS
  <2>7. Sum(f, s) <= Sum(g, s)
    BY <2>3, <2>4, <2>5, <2>6
  <2> QED
    BY <2>7
<1>3. SUBSET S \subseteq G
  <2> HIDE DEF G
  <2> QED
    BY <1>1, <1>2, SetsReached
<1> QED
  BY <1>3

(* A sum of sums, term by term.                                            *)
LEMMA SumPlus ==
  ASSUME NEW S, IsFiniteSet(S), NEW f, NEW g, NEW h,
         \A x \in S : f[x] \in Int /\ g[x] \in Int /\ h[x] = f[x] + g[x]
  PROVE  Sum(h, S) = Sum(f, S) + Sum(g, S)
<1> DEFINE G == {s \in SUBSET S : Sum(h, s) = Sum(f, s) + Sum(g, s)}
<1>1. {} \in G
  BY SumEmpty
<1>2. ASSUME NEW s \in SUBSET S, s # {}, \A x \in s : s \ {x} \in G
      PROVE  s \in G
  <2>1. PICK x \in s : TRUE
    BY <1>2
  <2>2. IsFiniteSet(s) /\ IsFiniteSet(s \ {x})
    BY FS_Subset
  <2>3. /\ Sum(f, s) = f[x] + Sum(f, s \ {x}) /\ Sum(g, s) = g[x] + Sum(g, s \ {x})
        /\ Sum(h, s) = h[x] + Sum(h, s \ {x})
    BY <2>2, SumRemove
  <2>4. Sum(f, s \ {x}) \in Int /\ Sum(g, s \ {x}) \in Int
    BY <2>2, SumInt
  <2>5. Sum(h, s \ {x}) = Sum(f, s \ {x}) + Sum(g, s \ {x})
    BY <1>2
  <2>6. f[x] \in Int /\ g[x] \in Int /\ h[x] = f[x] + g[x]
    OBVIOUS
  <2>7. Sum(h, s) = Sum(f, s) + Sum(g, s)
    BY <2>3, <2>4, <2>5, <2>6
  <2> QED
    BY <2>7
<1>3. SUBSET S \subseteq G
  <2> HIDE DEF G
  <2> QED
    BY <1>1, <1>2, SetsReached
<1> QED
  BY <1>3

(* The sum of a set and of another without common elements.                *)
LEMMA SumUnion ==
  ASSUME NEW S, IsFiniteSet(S), NEW T, IsFiniteSet(T), S \cap T = {},
         NEW f, \A x \in S \cup T : f[x] \in Int
  PROVE  Sum(f, S \cup T) = Sum(f, S) + Sum(f, T)
<1> DEFINE G == {s \in SUBSET S : Sum(f, s \cup T) = Sum(f, s) + Sum(f, T)}
<1>0. Sum(f, T) \in Int
  BY SumInt
<1>1. {} \in G
  BY <1>0, SumEmpty, {} \cup T = T
<1>2. ASSUME NEW s \in SUBSET S, s # {}, \A x \in s : s \ {x} \in G
      PROVE  s \in G
  <2>1. PICK x \in s : TRUE
    BY <1>2
  <2>2. IsFiniteSet(s) /\ IsFiniteSet(s \ {x}) /\ IsFiniteSet(s \cup T)
    BY FS_Subset, FS_Union
  <2>3. x \in s \cup T /\ (s \cup T) \ {x} = (s \ {x}) \cup T
    OBVIOUS
  <2>4. \A y \in s \cup T : f[y] \in Int
    OBVIOUS
  <2>5. Sum(f, s) = f[x] + Sum(f, s \ {x})
    BY <2>2, <2>4, SumRemove
  <2>6. Sum(f, s \cup T) = f[x] + Sum(f, (s \ {x}) \cup T)
    BY <2>2, <2>3, <2>4, SumRemove
  <2>7. Sum(f, (s \ {x}) \cup T) = Sum(f, s \ {x}) + Sum(f, T)
    BY <1>2
  <2>8. Sum(f, s \ {x}) \in Int /\ f[x] \in Int
    BY <2>2, SumInt
  <2>9. Sum(f, s \cup T) = Sum(f, s) + Sum(f, T)
    BY <1>0, <2>5, <2>6, <2>7, <2>8
  <2> QED
    BY <2>9
<1>3. SUBSET S \subseteq G
  <2> HIDE DEF G
  <2> QED
    BY <1>1, <1>2, SetsReached
<1> QED
  BY <1>3

LEMMA SumConst ==
  ASSUME NEW S, IsFiniteSet(S), NEW c \in Int, NEW f, \A x \in S : f[x] = c
  PROVE  Sum(f, S) = c * Cardinality(S)
<1> DEFINE G == {s \in SUBSET S : Sum(f, s) = c * Cardinality(s)}
<1>1. {} \in G
  BY SumEmpty, FS_EmptySet
<1>2. ASSUME NEW s \in SUBSET S, s # {}, \A x \in s : s \ {x} \in G
      PROVE  s \in G
  <2>1. PICK x \in s : TRUE
    BY <1>2
  <2>2. IsFiniteSet(s)
    BY FS_Subset
  <2>3. Sum(f, s) = c + Sum(f, s \ {x})
    BY <2>2, SumRemove
  <2>4. Cardinality(s \ {x}) = Cardinality(s) - 1 /\ Cardinality(s) \in Nat
    BY <2>2, FS_RemoveElement, FS_CardinalityType
  <2>5. Sum(f, s \ {x}) = c * Cardinality(s \ {x})
    BY <1>2
  <2> DEFINE n == Cardinality(s)
  <2>6. n \in Int /\ Sum(f, s) = c + c * (n - 1)
    BY <2>3, <2>4, <2>5
  <2> HIDE DEF n
  <2>7. c + c * (n - 1) = c * n
    BY <2>6
  <2>8. Sum(f, s) = c * Cardinality(s)
    BY <2>6, <2>7 DEF n
  <2> QED
    BY <2>8
<1>3. SUBSET S \subseteq G
  <2> HIDE DEF G
  <2> QED
    BY <1>1, <1>2, SetsReached
<1> QED
  BY <1>3

(* Consequences.                                                           *)
LEMMA SumZero ==
  ASSUME NEW S, IsFiniteSet(S), NEW f, \A x \in S : f[x] = 0
  PROVE  Sum(f, S) = 0
<1>1. Cardinality(S) \in Nat
  BY FS_CardinalityType
<1>2. Sum(f, S) = 0 * Cardinality(S)
  BY SumConst
<1> QED
  BY <1>1, <1>2

LEMMA SumNat ==
  ASSUME NEW S, IsFiniteSet(S), NEW f, \A x \in S : f[x] \in Nat
  PROVE  Sum(f, S) \in Nat
<1> DEFINE z == [x \in S |-> 0]
<1>1. \A x \in S : z[x] \in Int /\ f[x] \in Int /\ z[x] <= f[x]
  OBVIOUS
<1>2. Sum(z, S) = 0
  BY SumZero
<1> HIDE DEF z
<1>3. Sum(z, S) <= Sum(f, S) /\ Sum(f, S) \in Int
  BY <1>1, SumMonotone, SumInt
<1> QED
  BY <1>2, <1>3

LEMMA SumSubset ==
  ASSUME NEW S, IsFiniteSet(S), NEW f, \A x \in S : f[x] \in Nat, NEW T \in SUBSET S
  PROVE  Sum(f, T) <= Sum(f, S)
<1>1. IsFiniteSet(T) /\ IsFiniteSet(S \ T) /\ T \cap (S \ T) = {} /\ T \cup (S \ T) = S
  BY FS_Subset
<1>2. Sum(f, S) = Sum(f, T) + Sum(f, S \ T)
  BY <1>1, SumUnion
<1>3. Sum(f, T) \in Nat /\ Sum(f, S \ T) \in Nat
  BY <1>1, SumNat
<1> QED
  BY <1>2, <1>3

(* One term changes.                                                       *)
LEMMA SumChanged ==
  ASSUME NEW S, IsFiniteSet(S), NEW e \in S, NEW f, NEW g,
         \A x \in S : f[x] \in Int /\ g[x] \in Int,
         \A x \in S \ {e} : g[x] = f[x]
  PROVE  Sum(g, S) = Sum(f, S) - f[e] + g[e]
<1>1. IsFiniteSet(S \ {e})
  BY FS_Subset
<1>2. Sum(f, S) = f[e] + Sum(f, S \ {e}) /\ Sum(g, S) = g[e] + Sum(g, S \ {e})
  BY SumRemove
<1>3. Sum(g, S \ {e}) = Sum(f, S \ {e})
  BY <1>1, SumEqual
<1>4. Sum(f, S \ {e}) \in Int
  BY <1>1, SumInt
<1>5. f[e] \in Int /\ g[e] \in Int
  OBVIOUS
<1> QED
  BY <1>2, <1>3, <1>4, <1>5

(* The terms are summed under other indices; what g has besides is zero.   *)
LEMMA SumReindex ==
  ASSUME NEW S, IsFiniteSet(S), NEW T, IsFiniteSet(T),
         NEW b \in [S -> T], \A x, y \in S : b[x] = b[y] => x = y,
         NEW f, NEW g,
         \A x \in S : f[x] \in Int /\ g[b[x]] = f[x],
         \A z \in T : (\A x \in S : b[x] # z) => g[z] = 0
  PROVE  Sum(g, T) = Sum(f, S)
<1> DEFINE At(s) == {z \in T : \E x \in s : b[x] = z}
<1> DEFINE G == {s \in SUBSET S : Sum(g, At(s)) = Sum(f, s)}
<1>0. \A s \in SUBSET S : /\ At(s) \in SUBSET T /\ IsFiniteSet(At(s)) /\ IsFiniteSet(s)
                          /\ \A z \in At(s) : g[z] \in Int
  BY FS_Subset
<1>1. {} \in G
  <2>1. At({}) = {}
    OBVIOUS
  <2> QED
    BY <2>1, SumEmpty
<1>2. ASSUME NEW s \in SUBSET S, s # {}, \A x \in s : s \ {x} \in G
      PROVE  s \in G
  <2>1. PICK x \in s : TRUE
    BY <1>2
  <2>2. At(s \ {x}) = At(s) \ {b[x]} /\ b[x] \in At(s)
    OBVIOUS
  <2>3. IsFiniteSet(At(s)) /\ IsFiniteSet(s) /\ \A z \in At(s) : g[z] \in Int
    BY <1>0
  <2>4. Sum(g, At(s \ {x})) = Sum(f, s \ {x})
    BY <1>2
  <2> HIDE DEF At
  <2>5. Sum(g, At(s)) = g[b[x]] + Sum(g, At(s) \ {b[x]})
    BY <2>2, <2>3, SumRemove
  <2>6. Sum(f, s) = f[x] + Sum(f, s \ {x})
    BY <2>3, SumRemove
  <2> QED
    BY <2>2, <2>4, <2>5, <2>6
<1>3. S \in G
  <2> HIDE DEF G
  <2> QED
    BY <1>1, <1>2, SetsReached
<1>4. At(S) \in SUBSET T /\ IsFiniteSet(At(S)) /\ IsFiniteSet(T \ At(S))
  BY <1>0, FS_Subset
<1>5. \A z \in T \ At(S) : g[z] = 0
  OBVIOUS
<1>6. \A z \in T : g[z] \in Int
  OBVIOUS
<1>7. Sum(g, At(S)) = Sum(f, S)
  BY <1>3
<1> HIDE DEF At
<1>8. Sum(g, T \ At(S)) = 0
  BY <1>4, <1>5, SumZero
<1>9. Sum(g, T) = Sum(g, At(S)) + Sum(g, T \ At(S))
  <2>1. At(S) \cup (T \ At(S)) = T /\ At(S) \cap (T \ At(S)) = {}
    BY <1>4
  <2> QED
    BY <1>4, <1>6, <2>1, SumUnion
<1>10. Sum(f, S) \in Int
  BY SumInt
<1> QED
  BY <1>7, <1>8, <1>9, <1>10
=============================================================================
