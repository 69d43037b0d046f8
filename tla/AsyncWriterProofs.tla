------------------------- MODULE AsyncWriterProofs --------------------------
(***************************************************************************)
(* Proofs about AsyncWriter for any number of tasks, starts and calls of   *)
(* FlushNow and any threshold: tasks are kept and written in order, and    *)
(* what was enqueued before a Stop is written when it returns.             *)
(***************************************************************************)
EXTENDS AsyncWriter, TLAPS

Shapes ==
  /\ queue \in Seq(Nat) /\ done \in Seq(Nat)
  /\ local \in [Writers -> Seq(Nat)]
  /\ {added, before, starts, flushes} \subseteq Nat

(* Who may have a batch under way.                                         *)
BatchesOK ==
  /\ owner \in {"off", "flushing"} => worker \in {"none", "done"}
  /\ local["owner"] # << >> => owner = "flushing"
  /\ local["caller"] # << >> => caller = "flushing"

(* A name for Len, so that sums of lengths are numbers to the provers.      *)
Size(s) == Len(s)

(* Kept, said of the places one by one.                                    *)
Places ==
  /\ Size(done) + Size(local["worker"]) + Size(local["owner"]) + Size(local["caller"]) + Size(queue) = added
  /\ ToSet(done) \cup ToSet(local["worker"]) \cup ToSet(local["owner"])
       \cup ToSet(local["caller"]) \cup ToSet(queue) = 1 .. added

(* Without FlushNow the places continue one another.                       *)
From(s, n) == \A i \in 1 .. Size(s) : s[i] = n + i

OrderOK ==
  flushes = 0 =>
    /\ caller = "out"
    /\ From(done, 0)
    /\ From(local["worker"], Size(done))
    /\ From(local["owner"], Size(done))
    /\ From(queue, Size(done) + Size(local["worker"]) + Size(local["owner"]))

(* What was enqueued before Stop has left the queue when Stop flushes.     *)
StopOK ==
  owner = "flushing" =>
    1 .. before \subseteq ToSet(done) \cup ToSet(local["owner"]) \cup ToSet(local["caller"])

(* The inductive invariant.                                                *)
IInv == TypeOK /\ Shapes /\ BatchesOK /\ Places /\ OrderOK /\ StopOK

-----------------------------------------------------------------------------
LEMMA ToSetAppend ==
  ASSUME NEW s \in Seq(Nat), NEW x \in Nat
  PROVE  /\ ToSet(Append(s, x)) = ToSet(s) \cup {x}
         /\ Append(s, x) \in Seq(Nat) /\ Size(Append(s, x)) = Size(s) + 1
         /\ \A i \in 1 .. Size(s) : Append(s, x)[i] = s[i]
         /\ Append(s, x)[Size(s) + 1] = x
<1> DEFINE t == Append(s, x)
<1>1. /\ Len(s) \in Nat /\ DOMAIN s = 1 .. Len(s) /\ DOMAIN t = 1 .. Len(s) + 1
      /\ t \in Seq(Nat) /\ Len(t) = Len(s) + 1
      /\ \A i \in 1 .. Len(s) : t[i] = s[i]
      /\ t[Len(s) + 1] = x
  OBVIOUS
<1>2. 1 .. Len(s) + 1 = (1 .. Len(s)) \cup {Len(s) + 1}
  BY <1>1
<1> HIDE DEF t
<1>3. ToSet(t) = {t[i] : i \in 1 .. Len(s)} \cup {t[Len(s) + 1]}
  BY <1>1, <1>2 DEF ToSet
<1>4. {t[i] : i \in 1 .. Len(s)} = ToSet(s)
  BY <1>1 DEF ToSet
<1> QED
  BY <1>1, <1>3, <1>4 DEF t, Size

LEMMA ToSetTail ==
  ASSUME NEW s \in Seq(Nat), s # << >>
  PROVE  /\ Head(s) \in Nat /\ Tail(s) \in Seq(Nat) /\ Size(Tail(s)) = Size(s) - 1
         /\ \A i \in 1 .. Size(Tail(s)) : Tail(s)[i] = s[i + 1]
         /\ Head(s) = s[1] /\ Size(s) \in Nat \ {0}
         /\ ToSet(s) = {Head(s)} \cup ToSet(Tail(s))
<1> DEFINE t == Tail(s)
<1>1. /\ Len(s) \in Nat \ {0} /\ DOMAIN s = 1 .. Len(s)
      /\ t \in Seq(Nat) /\ Len(t) = Len(s) - 1 /\ DOMAIN t = 1 .. Len(s) - 1
      /\ \A i \in 1 .. Len(t) : t[i] = s[i + 1]
      /\ Head(s) = s[1] /\ Head(s) \in Nat
  OBVIOUS
<1> HIDE DEF t
<1>2. ASSUME NEW x \in ToSet(s) PROVE x = Head(s) \/ x \in ToSet(t)
  <2>1. PICK i \in 1 .. Len(s) : x = s[i]
    BY <1>1 DEF ToSet
  <2>2. CASE i # 1
    <3>1. i - 1 \in 1 .. Len(t) /\ t[i - 1] = s[(i - 1) + 1] /\ (i - 1) + 1 = i
      BY <1>1, <2>2
    <3> QED
      BY <1>1, <2>1, <3>1 DEF ToSet
  <2> QED
    BY <1>1, <2>1, <2>2
<1>3. ASSUME NEW x \in ToSet(t) PROVE x \in ToSet(s)
  <2>1. PICK i \in 1 .. Len(t) : x = t[i]
    BY <1>1 DEF ToSet
  <2>2. i + 1 \in 1 .. Len(s) /\ x = s[i + 1]
    BY <1>1, <2>1
  <2> QED
    BY <1>1, <2>2 DEF ToSet
<1>4. Head(s) \in ToSet(s)
  BY <1>1 DEF ToSet
<1>5. ToSet(s) = {Head(s)} \cup ToSet(t)
  BY <1>2, <1>3, <1>4
<1> QED
  BY <1>1, <1>5 DEF t, Size

LEMMA ToSetConcat ==
  ASSUME NEW s \in Seq(Nat), NEW t \in Seq(Nat)
  PROVE  /\ s \o t \in Seq(Nat)
         /\ Len(s \o t) = Len(s) + Len(t)
         /\ ToSet(s \o t) = ToSet(s) \cup ToSet(t)
<1> DEFINE c == s \o t
<1>1. /\ Len(s) \in Nat /\ Len(t) \in Nat
      /\ DOMAIN s = 1 .. Len(s) /\ DOMAIN t = 1 .. Len(t)
      /\ c \in Seq(Nat) /\ Len(c) = Len(s) + Len(t) /\ DOMAIN c = 1 .. Len(s) + Len(t)
      /\ \A i \in 1 .. Len(s) : c[i] = s[i]
      /\ \A i \in Len(s) + 1 .. Len(s) + Len(t) : c[i] = t[i - Len(s)]
  OBVIOUS
<1> HIDE DEF c
<1>2. ASSUME NEW x \in ToSet(c) PROVE x \in ToSet(s) \cup ToSet(t)
  <2>1. PICK i \in 1 .. Len(s) + Len(t) : x = c[i]
    BY <1>1 DEF ToSet
  <2>2. CASE i \in 1 .. Len(s)
    BY <1>1, <2>1, <2>2 DEF ToSet
  <2>3. CASE i \in Len(s) + 1 .. Len(s) + Len(t)
    <3>1. i - Len(s) \in 1 .. Len(t)
      BY <1>1, <2>3
    <3> QED
      BY <1>1, <2>1, <2>3, <3>1 DEF ToSet
  <2> QED
    BY <1>1, <2>1, <2>2, <2>3
<1>3. ASSUME NEW x \in ToSet(s) PROVE x \in ToSet(c)
  <2>1. PICK i \in 1 .. Len(s) : x = s[i]
    BY <1>1 DEF ToSet
  <2>2. i \in 1 .. Len(s) + Len(t) /\ x = c[i]
    BY <1>1, <2>1
  <2> QED
    BY <1>1, <2>2 DEF ToSet
<1>4. ASSUME NEW x \in ToSet(t) PROVE x \in ToSet(c)
  <2>1. PICK i \in 1 .. Len(t) : x = t[i]
    BY <1>1 DEF ToSet
  <2>2. Len(s) + i \in Len(s) + 1 .. Len(s) + Len(t) /\ (Len(s) + i) - Len(s) = i
    BY <1>1, <2>1
  <2>3. Len(s) + i \in 1 .. Len(s) + Len(t)
    BY <1>1, <2>2
  <2>4. c[Len(s) + i] = t[(Len(s) + i) - Len(s)]
    BY <1>1, <2>2
  <2>5. x = c[Len(s) + i]
    BY <2>1, <2>2, <2>4
  <2> QED
    BY <1>1, <2>3, <2>5 DEF ToSet
<1>5. ToSet(c) = ToSet(s) \cup ToSet(t)
  BY <1>2, <1>3, <1>4
<1> QED
  BY <1>1, <1>5 DEF c

LEMMA ToSetEmpty == ToSet(<< >>) = {} /\ Size(<< >>) = 0
  BY DEF ToSet, Size

(* Places says the same as Kept.                                           *)
LEMMA PlacesAreKept == Shapes /\ Places => Kept
<1> SUFFICES ASSUME Shapes, Places PROVE Kept
  OBVIOUS
<1> DEFINE a == done \o local["worker"]
           b == a \o local["owner"]
           c == b \o local["caller"]
<1>1. /\ done \in Seq(Nat) /\ queue \in Seq(Nat)
      /\ local["worker"] \in Seq(Nat) /\ local["owner"] \in Seq(Nat) /\ local["caller"] \in Seq(Nat)
  BY DEF Shapes, Writers
<1>2. /\ a \in Seq(Nat) /\ Len(a) = Len(done) + Len(local["worker"])
      /\ ToSet(a) = ToSet(done) \cup ToSet(local["worker"])
  BY <1>1, ToSetConcat
<1> HIDE DEF a
<1>3. /\ b \in Seq(Nat) /\ Len(b) = Len(a) + Len(local["owner"])
      /\ ToSet(b) = ToSet(a) \cup ToSet(local["owner"])
  BY <1>1, <1>2, ToSetConcat
<1> HIDE DEF b
<1>4. /\ c \in Seq(Nat) /\ Len(c) = Len(b) + Len(local["caller"])
      /\ ToSet(c) = ToSet(b) \cup ToSet(local["caller"])
  BY <1>1, <1>3, ToSetConcat
<1> HIDE DEF c
<1>5. /\ Len(c \o queue) = Len(c) + Len(queue)
      /\ ToSet(c \o queue) = ToSet(c) \cup ToSet(queue)
  BY <1>1, <1>4, ToSetConcat
<1>6. Everywhere = c \o queue
  BY DEF Everywhere, a, b, c
<1> QED
  BY <1>2, <1>3, <1>4, <1>5, <1>6 DEF Kept, Places, Size

-----------------------------------------------------------------------------
(* Thread t has no batch.                                                  *)
Free(t) == local[t] = << >>

LEMMA Lengths ==
  ASSUME Shapes
  PROVE  /\ Size(done) \in Nat /\ Size(queue) \in Nat /\ added \in Nat
         /\ \A t \in Writers : Size(local[t]) \in Nat
  BY DEF Shapes, Size

(* A thread that has no batch takes the queue.                             *)
LEMMA TakeKeeps ==
  ASSUME IInv, NEW t \in Writers, Free(t), Take(t),
         UNCHANGED <<done, added>>
  PROVE  /\ queue' = << >> /\ queue' \in Seq(Nat)
         /\ local' \in [Writers -> Seq(Nat)]
         /\ local'[t] = queue
         /\ \A u \in Writers \ {t} : local'[u] = local[u]
         /\ Places'
         /\ \A u \in Writers : ToSet(local[u]) \subseteq ToSet(local'[u])
<1>1. /\ queue' = << >> /\ queue' \in Seq(Nat)
      /\ local' \in [Writers -> Seq(Nat)]
      /\ local'[t] = queue
      /\ \A u \in Writers \ {t} : local'[u] = local[u]
  BY DEF IInv, Shapes, Take
<1>2. Size(queue') = 0 /\ Size(local[t]) = 0 /\ ToSet(queue') = {} /\ ToSet(local[t]) = {}
  BY <1>1, ToSetEmpty DEF Free
<1>3. Size(local'[t]) = Size(queue) /\ ToSet(local'[t]) = ToSet(queue)
  BY <1>1
<1>4. Places'
  <2>1. /\ Size(local["worker"]) \in Nat /\ Size(local["owner"]) \in Nat
        /\ Size(local["caller"]) \in Nat /\ Size(done) \in Nat /\ Size(queue) \in Nat
    BY Lengths DEF IInv, Writers
  <2>2. /\ Size(done) + Size(local'["worker"]) + Size(local'["owner"]) + Size(local'["caller"]) + Size(queue')
             = Size(done) + Size(local["worker"]) + Size(local["owner"]) + Size(local["caller"]) + Size(queue)
        /\ ToSet(local'["worker"]) \cup ToSet(local'["owner"]) \cup ToSet(local'["caller"]) \cup ToSet(queue')
             = ToSet(local["worker"]) \cup ToSet(local["owner"]) \cup ToSet(local["caller"]) \cup ToSet(queue)
    <3>1. CASE t = "worker"
      <4>1. local'["owner"] = local["owner"] /\ local'["caller"] = local["caller"]
        BY <1>1, <3>1 DEF Writers
      <4> QED
        BY <1>2, <1>3, <2>1, <3>1, <4>1
    <3>2. CASE t = "owner"
      <4>1. local'["worker"] = local["worker"] /\ local'["caller"] = local["caller"]
        BY <1>1, <3>2 DEF Writers
      <4> QED
        BY <1>2, <1>3, <2>1, <3>2, <4>1
    <3>3. CASE t = "caller"
      <4>1. local'["worker"] = local["worker"] /\ local'["owner"] = local["owner"]
        BY <1>1, <3>3 DEF Writers
      <4> QED
        BY <1>2, <1>3, <2>1, <3>3, <4>1
    <3> QED
      BY <3>1, <3>2, <3>3 DEF Writers
  <2> QED
    BY <2>2 DEF IInv, Places
<1>5. \A u \in Writers : ToSet(local[u]) \subseteq ToSet(local'[u])
  BY <1>1, <1>2
<1> QED
  BY <1>1, <1>4, <1>5

(* Taken in order when no batch is under way.                              *)
LEMMA TakeInOrder ==
  ASSUME IInv, NEW t \in {"worker", "owner"}, Free("worker"), Free("owner"),
         Take(t), UNCHANGED <<done, added, flushes, caller>>
  PROVE  OrderOK'
<1> SUFFICES ASSUME flushes = 0 PROVE OrderOK'
  BY DEF OrderOK
<1>1. /\ queue' = << >> /\ local'[t] = queue
      /\ \A u \in {"worker", "owner"} \ {t} : local'[u] = << >>
  BY TakeKeeps DEF Free, Writers
<1>2. From(done, 0) /\ caller = "out"
  BY DEF IInv, OrderOK
<1>3. From(queue, Size(done))
  <2>1. Size(local["worker"]) = 0 /\ Size(local["owner"]) = 0 /\ Size(done) \in Nat
    BY Lengths, ToSetEmpty DEF IInv, Free
  <2>2. Size(done) + Size(local["worker"]) + Size(local["owner"]) = Size(done)
    BY <2>1
  <2> QED
    BY <2>2 DEF IInv, OrderOK
<1>4. \A n : From(<< >>, n)
  BY ToSetEmpty DEF From
<1>5. \A u \in {"worker", "owner"} : local'[u] = queue \/ local'[u] = << >>
  BY <1>1
<1>6. \A u \in {"worker", "owner"} : From(local'[u], Size(done))
  BY <1>3, <1>4, <1>5
<1> QED
  BY <1>1, <1>2, <1>4, <1>6 DEF OrderOK

(* A task of a batch is run.                                               *)
LEMMA RunKeeps ==
  ASSUME IInv, NEW t \in Writers, Run(t)
  PROVE  /\ done' \in Seq(Nat)
         /\ local' \in [Writers -> Seq(Nat)]
         /\ \A u \in Writers \ {t} : local'[u] = local[u]
         /\ local'[t] = Tail(local[t])
         /\ Size(done') = Size(done) + 1 /\ Size(local'[t]) = Size(local[t]) - 1
         /\ ToSet(done') = ToSet(done) \cup {Head(local[t])}
         /\ ToSet(local[t]) = ToSet(local'[t]) \cup {Head(local[t])}
         /\ Places'
<1>1. /\ local \in [Writers -> Seq(Nat)] /\ local[t] \in Seq(Nat) /\ local[t] # << >>
      /\ done \in Seq(Nat)
      /\ done' = Append(done, Head(local[t]))
      /\ local' = [local EXCEPT ![t] = Tail(local[t])]
      /\ UNCHANGED <<queue, added>>
  BY DEF Run, IInv, Shapes
<1>2. /\ Head(local[t]) \in Nat /\ Tail(local[t]) \in Seq(Nat) /\ Size(local[t]) \in Nat
      /\ Size(Tail(local[t])) = Size(local[t]) - 1
      /\ ToSet(local[t]) = {Head(local[t])} \cup ToSet(Tail(local[t]))
  BY <1>1, ToSetTail
<1>3. /\ done' \in Seq(Nat) /\ Size(done') = Size(done) + 1
      /\ ToSet(done') = ToSet(done) \cup {Head(local[t])}
  BY <1>1, <1>2, ToSetAppend
<1>4. /\ local' \in [Writers -> Seq(Nat)] /\ local'[t] = Tail(local[t])
      /\ \A u \in Writers \ {t} : local'[u] = local[u]
  BY <1>1, <1>2
<1>5. Places'
  <2>1. /\ Size(local'[t]) = Size(local[t]) - 1
        /\ ToSet(local[t]) = ToSet(local'[t]) \cup {Head(local[t])}
    BY <1>2, <1>4
  <2>2. /\ Size(local["worker"]) \in Nat /\ Size(local["owner"]) \in Nat
        /\ Size(local["caller"]) \in Nat /\ Size(done) \in Nat /\ Size(queue) \in Nat
    BY Lengths DEF IInv, Writers
  <2>3. Size(done') + Size(local'["worker"]) + Size(local'["owner"]) + Size(local'["caller"])
          = Size(done) + Size(local["worker"]) + Size(local["owner"]) + Size(local["caller"])
    <3>1. CASE t = "worker"
      <4>1. local'["owner"] = local["owner"] /\ local'["caller"] = local["caller"]
        BY <1>4, <3>1 DEF Writers
      <4> QED
        BY <1>3, <2>1, <2>2, <3>1, <4>1
    <3>2. CASE t = "owner"
      <4>1. local'["worker"] = local["worker"] /\ local'["caller"] = local["caller"]
        BY <1>4, <3>2 DEF Writers
      <4> QED
        BY <1>3, <2>1, <2>2, <3>2, <4>1
    <3>3. CASE t = "caller"
      <4>1. local'["worker"] = local["worker"] /\ local'["owner"] = local["owner"]
        BY <1>4, <3>3 DEF Writers
      <4> QED
        BY <1>3, <2>1, <2>2, <3>3, <4>1
    <3> QED
      BY <3>1, <3>2, <3>3 DEF Writers
  <2>4. ToSet(done') \cup ToSet(local'["worker"]) \cup ToSet(local'["owner"]) \cup ToSet(local'["caller"])
          = ToSet(done) \cup ToSet(local["worker"]) \cup ToSet(local["owner"]) \cup ToSet(local["caller"])
    <3>1. CASE t = "worker"
      <4>1. local'["owner"] = local["owner"] /\ local'["caller"] = local["caller"]
        BY <1>4, <3>1 DEF Writers
      <4> QED
        BY <1>3, <2>1, <3>1, <4>1
    <3>2. CASE t = "owner"
      <4>1. local'["worker"] = local["worker"] /\ local'["caller"] = local["caller"]
        BY <1>4, <3>2 DEF Writers
      <4> QED
        BY <1>3, <2>1, <3>2, <4>1
    <3>3. CASE t = "caller"
      <4>1. local'["worker"] = local["worker"] /\ local'["owner"] = local["owner"]
        BY <1>4, <3>3 DEF Writers
      <4> QED
        BY <1>3, <2>1, <3>3, <4>1
    <3> QED
      BY <3>1, <3>2, <3>3 DEF Writers
  <2> QED
    BY <1>1, <2>3, <2>4 DEF IInv, Places
<1> QED
  BY <1>2, <1>3, <1>4, <1>5

LEMMA RunInOrder ==
  ASSUME IInv, NEW t \in {"worker", "owner"}, NEW u \in {"worker", "owner"} \ {t},
         Free(u), Run(t)
  PROVE  OrderOK'
<1> SUFFICES ASSUME flushes = 0 PROVE OrderOK'
  BY DEF OrderOK, Run
<1> DEFINE n == Size(done)
           l == Size(local[t])
<1>1. /\ local[t] \in Seq(Nat) /\ local[t] # << >> /\ done \in Seq(Nat)
      /\ done' = Append(done, Head(local[t]))
      /\ UNCHANGED <<queue, flushes, caller>>
  BY DEF Run, IInv, Shapes, Writers
<1>2. /\ Head(local[t]) = local[t][1] /\ l \in Nat \ {0} /\ n \in Nat
      /\ \A i \in 1 .. Size(Tail(local[t])) : Tail(local[t])[i] = local[t][i + 1]
      /\ Head(local[t]) \in Nat
  BY <1>1, ToSetTail, Lengths DEF IInv
<1>3. /\ local'[t] = Tail(local[t]) /\ local'[u] = << >>
      /\ Size(done') = n + 1 /\ Size(local'[t]) = l - 1
  BY RunKeeps DEF Free, Writers
<1>4. n \in Nat /\ l \in Nat \ {0} /\ Size(local[u]) = 0 /\ Size(local'[u]) = 0
  BY <1>2, <1>3, ToSetEmpty DEF Free
<1>5. From(done, 0) /\ From(local[t], n) /\ caller = "out"
  BY DEF IInv, OrderOK
<1>6. From(done', 0)
  <2>1. Head(local[t]) = n + 1
    BY <1>2, <1>5 DEF From
  <2>2. \A i \in 1 .. n : done'[i] = done[i]
    BY <1>1, <1>2, ToSetAppend
  <2>3. done'[n + 1] = n + 1
    BY <1>1, <1>2, <2>1, ToSetAppend
  <2> QED
    BY <1>2, <1>3, <1>5, <2>2, <2>3 DEF From
<1>7. From(local'[t], n + 1)
  <2> SUFFICES ASSUME NEW i \in 1 .. l - 1 PROVE local'[t][i] = (n + 1) + i
    BY <1>3 DEF From
  <2>1. i + 1 \in 1 .. l
    BY <1>2
  <2>2. local'[t][i] = local[t][i + 1]
    BY <1>2, <1>3
  <2>3. local[t][i + 1] = n + (i + 1)
    BY <1>5, <2>1 DEF From
  <2> QED
    BY <1>2, <2>2, <2>3
<1>8. From(queue, n + 1 + (l - 1))
  <2>2. Size(done) + Size(local["worker"]) + Size(local["owner"]) = n + l
    <3>1. CASE t = "worker"
      <4>1. u = "owner"
        BY <3>1
      <4> QED
        BY <1>4, <3>1, <4>1
    <3>2. CASE t = "owner"
      <4>1. u = "worker"
        BY <3>2
      <4> QED
        BY <1>4, <3>2, <4>1
    <3> QED
      BY <3>1, <3>2
  <2>3. n + 1 + (l - 1) = n + l
    BY <1>4
  <2>4. From(queue, Size(done) + Size(local["worker"]) + Size(local["owner"]))
    BY DEF IInv, OrderOK
  <2> QED
    BY <2>2, <2>3, <2>4
<1>9. From(local'[u], n + 1)
  BY <1>4 DEF From
<1>10. Size(done') + Size(local'["worker"]) + Size(local'["owner"]) = n + 1 + (l - 1)
  <2>1. CASE t = "worker"
    <3>1. u = "owner"
      BY <2>1
    <3> QED
      BY <1>3, <1>4, <2>1, <3>1
  <2>2. CASE t = "owner"
    <3>1. u = "worker"
      BY <2>2
    <3> QED
      BY <1>3, <1>4, <2>2, <3>1
  <2> QED
    BY <2>1, <2>2
<1> HIDE DEF n, l
<1>11. From(local'["worker"], n + 1) /\ From(local'["owner"], n + 1)
  BY <1>7, <1>9
<1> QED
  BY <1>1, <1>3, <1>5, <1>6, <1>8, <1>10, <1>11 DEF OrderOK

-----------------------------------------------------------------------------
LEMMA InitIInv == Init => IInv
<1> SUFFICES ASSUME Init PROVE IInv
  OBVIOUS
<1>1. /\ queue = << >> /\ done = << >> /\ added = 0
      /\ \A t \in Writers : local[t] = << >>
      /\ local["worker"] = << >> /\ local["owner"] = << >> /\ local["caller"] = << >>
  BY DEF Init, Writers
<1>2. Shapes
  BY DEF Init, Shapes
<1>3. TypeOK /\ BatchesOK /\ StopOK
  <2>1. starts <= MaxStarts /\ flushes <= MaxFlushes /\ before <= added
    BY WriterAssumption DEF Init
  <2>2. /\ running = FALSE /\ flush_pending = FALSE
        /\ worker = "none" /\ owner = "off" /\ caller = "out"
        /\ added = 0 /\ before = 0 /\ starts = 0 /\ flushes = 0
    BY DEF Init
  <2>3. ~(local["worker"] # << >>)
    BY <1>1
  <2>4. TypeOK
    BY <2>1, <2>2, <2>3 DEF TypeOK
  <2> QED
    BY <1>1, <2>2, <2>4 DEF BatchesOK, StopOK
<1>4. Places
  BY <1>1, ToSetEmpty DEF Places
<1>5. OrderOK
  BY <1>1, ToSetEmpty DEF Init, OrderOK, From
<1> QED
  BY <1>2, <1>3, <1>4, <1>5 DEF IInv

LEMMA EnqueueIInv == IInv /\ Enqueue => IInv'
<1> SUFFICES ASSUME IInv, Enqueue PROVE IInv'
  OBVIOUS
<1>1. /\ queue \in Seq(Nat) /\ added \in Nat /\ added + 1 \in Nat /\ before \in Nat
      /\ queue' = Append(queue, added + 1) /\ added' = added + 1
      /\ UNCHANGED <<running, flush_pending, worker, owner, caller, local, done, before,
                     starts, flushes>>
  BY DEF Enqueue, IInv, Shapes
<1>2. /\ queue' \in Seq(Nat)
      /\ Size(queue') = Size(queue) + 1
      /\ ToSet(queue') = ToSet(queue) \cup {added + 1}
      /\ \A i \in 1 .. Size(queue) : queue'[i] = queue[i]
      /\ queue'[Size(queue) + 1] = added + 1
  BY <1>1, ToSetAppend
<1>3. /\ Size(local["worker"]) \in Nat /\ Size(local["owner"]) \in Nat
      /\ Size(local["caller"]) \in Nat /\ Size(done) \in Nat /\ Size(queue) \in Nat
  BY Lengths DEF IInv, Writers
<1>4. TypeOK' /\ Shapes' /\ BatchesOK' /\ StopOK'
  BY <1>1, <1>2 DEF IInv, TypeOK, Shapes, BatchesOK, StopOK
<1>5. Places'
  <2>1. 1 .. added + 1 = (1 .. added) \cup {added + 1}
    BY <1>1
  <2>2. Size(done) + Size(local["worker"]) + Size(local["owner"]) + Size(local["caller"]) + Size(queue')
          = added + 1
    BY <1>2, <1>3 DEF IInv, Places
  <2>3. ToSet(done) \cup ToSet(local["worker"]) \cup ToSet(local["owner"])
          \cup ToSet(local["caller"]) \cup ToSet(queue') = 1 .. added + 1
    BY <1>2, <2>1 DEF IInv, Places
  <2> QED
    BY <1>1, <2>2, <2>3 DEF Places
<1>6. OrderOK'
  <2> SUFFICES ASSUME flushes = 0 PROVE OrderOK'
    BY <1>1 DEF OrderOK
  <2> DEFINE n == Size(done) + Size(local["worker"]) + Size(local["owner"])
  <2>1. Size(local["caller"]) = 0
    <3>1. local["caller"] = << >>
      BY DEF IInv, OrderOK, BatchesOK
    <3> QED
      BY <3>1, ToSetEmpty
  <2>2. n \in Nat /\ added = n + Size(queue)
    BY <1>3, <2>1 DEF IInv, Places
  <2>3. From(queue, n)
    BY DEF IInv, OrderOK
  <2> HIDE DEF n
  <2>4. ASSUME NEW i \in 1 .. Size(queue') PROVE queue'[i] = n + i
    <3>1. CASE i = Size(queue) + 1
      BY <1>2, <1>3, <2>2, <3>1
    <3>2. CASE i \in 1 .. Size(queue)
      BY <1>2, <2>3, <3>2 DEF From
    <3> QED
      BY <1>2, <1>3, <3>1, <3>2
  <2>5. From(queue', n)
    BY <2>4 DEF From
  <2> QED
    BY <1>1, <2>5 DEF IInv, OrderOK, n
<1> QED
  BY <1>4, <1>5, <1>6 DEF IInv

(* The steps that move no task.                                            *)
LEMMA StaysIInv ==
  ASSUME IInv, UNCHANGED <<queue, local, done, added>>, TypeOK', BatchesOK',
         {before', starts', flushes'} \subseteq Nat,
         flushes' = flushes, caller' = "out" \/ caller' = caller,
         owner' = "flushing" => owner = "flushing" /\ before' = before
  PROVE  IInv'
<1>1. Shapes' /\ Places'
  BY DEF IInv, Shapes, Places
<1>2. OrderOK'
  BY DEF IInv, OrderOK
<1>3. StopOK'
  BY DEF IInv, StopOK
<1> QED
  BY <1>1, <1>2, <1>3 DEF IInv

LEMMA RunIInv ==
  ASSUME IInv, NEW t \in Writers, Run(t)
  PROVE  IInv'
<1>1. /\ done' \in Seq(Nat)
      /\ local' \in [Writers -> Seq(Nat)]
      /\ \A u \in Writers \ {t} : local'[u] = local[u]
      /\ local[t] # << >>
      /\ ToSet(done') = ToSet(done) \cup {Head(local[t])}
      /\ ToSet(local[t]) = ToSet(local'[t]) \cup {Head(local[t])}
      /\ Places'
      /\ UNCHANGED <<queue, running, flush_pending, worker, owner, caller, added, before,
                     starts, flushes>>
  BY RunKeeps DEF Run
<1>2. Shapes'
  BY <1>1 DEF IInv, Shapes
<1>3. ASSUME NEW u \in Writers, local'[u] # << >> PROVE local[u] # << >>
  BY <1>1, <1>3
<1>4. TypeOK' /\ BatchesOK'
  BY <1>1, <1>3 DEF IInv, TypeOK, BatchesOK, Writers
<1>5. StopOK'
  <2>1. \A u \in Writers : ToSet(local[u]) \subseteq ToSet(done') \cup ToSet(local'[u])
    BY <1>1
  <2>2. ToSet(done) \subseteq ToSet(done')
    BY <1>1
  <2> QED
    BY <1>1, <2>1, <2>2 DEF IInv, StopOK, Writers
<1>6. OrderOK'
  <2>1. CASE t = "caller"
    <3>1. flushes # 0
      BY <1>1, <2>1 DEF IInv, OrderOK, BatchesOK
    <3> QED
      BY <1>1, <3>1 DEF OrderOK
  <2>2. CASE t = "worker"
    <3>1. Free("owner")
      BY <1>1, <2>2 DEF IInv, TypeOK, BatchesOK, Free
    <3> QED
      BY <2>2, <3>1, RunInOrder
  <2>3. CASE t = "owner"
    <3>1. Free("worker")
      BY <1>1, <2>3 DEF IInv, TypeOK, BatchesOK, Free
    <3> QED
      BY <2>3, <3>1, RunInOrder
  <2> QED
    BY <2>1, <2>2, <2>3 DEF Writers
<1> QED
  BY <1>1, <1>2, <1>4, <1>5, <1>6 DEF IInv

LEMMA StopJoinIInv == IInv /\ StopJoin => IInv'
<1> SUFFICES ASSUME IInv, StopJoin PROVE IInv'
  OBVIOUS
<1>1. /\ owner = "joining" /\ worker = "done" /\ owner' = "flushing" /\ Take("owner")
      /\ UNCHANGED <<running, flush_pending, worker, caller, done, added, before, starts, flushes>>
  BY DEF StopJoin
<1>2. Free("owner") /\ Free("worker")
  BY <1>1 DEF IInv, TypeOK, BatchesOK, Free
<1>3. /\ queue' = << >> /\ queue' \in Seq(Nat)
      /\ local' \in [Writers -> Seq(Nat)]
      /\ \A u \in Writers \ {"owner"} : local'[u] = local[u]
      /\ Places'
  BY <1>1, <1>2, TakeKeeps DEF Writers
<1>4. TypeOK' /\ Shapes' /\ BatchesOK'
  BY <1>1, <1>3 DEF IInv, TypeOK, Shapes, BatchesOK, Writers
<1>5. OrderOK'
  BY <1>1, <1>2, TakeInOrder
<1>6. StopOK'
  <2>1. ToSet(queue') = {} /\ ToSet(local'["worker"]) = {}
    BY <1>2, <1>3, ToSetEmpty DEF Free, Writers
  <2>2. 1 .. added \subseteq ToSet(done') \cup ToSet(local'["owner"]) \cup ToSet(local'["caller"])
    BY <1>1, <1>3, <2>1 DEF Places
  <2>3. 1 .. before \subseteq 1 .. added
    BY DEF IInv, TypeOK, Shapes
  <2> QED
    BY <1>1, <2>2, <2>3 DEF StopOK
<1> QED
  BY <1>3, <1>4, <1>5, <1>6 DEF IInv

(* The worker takes a batch, in its loop or when it leaves.                *)
LEMMA WorkerTakesIInv ==
  ASSUME IInv, worker \in {"waiting", "leaving"}, worker' \in {"writing", "flushing"},
         Take("worker"), flush_pending' \in BOOLEAN,
         UNCHANGED <<running, owner, caller, done, added, before, starts, flushes>>
  PROVE  IInv'
<1>1. Free("owner") /\ Free("worker") /\ owner \notin {"off", "flushing"}
  BY DEF IInv, TypeOK, BatchesOK, Free
<1>2. /\ queue' = << >> /\ queue' \in Seq(Nat)
      /\ local' \in [Writers -> Seq(Nat)]
      /\ \A u \in Writers \ {"worker"} : local'[u] = local[u]
      /\ Places'
  BY <1>1, TakeKeeps DEF Writers
<1>3. TypeOK' /\ Shapes' /\ BatchesOK'
  BY <1>1, <1>2 DEF IInv, TypeOK, Shapes, BatchesOK, Writers
<1>4. OrderOK'
  BY <1>1, TakeInOrder
<1>5. StopOK'
  BY <1>1 DEF StopOK
<1> QED
  BY <1>2, <1>3, <1>4, <1>5 DEF IInv

LEMMA FlushNowIInv == IInv /\ FlushNow => IInv'
<1> SUFFICES ASSUME IInv, FlushNow PROVE IInv'
  OBVIOUS
<1>1. /\ caller = "out" /\ flushes < MaxFlushes /\ caller' = "flushing" /\ Take("caller")
      /\ flushes' = flushes + 1
      /\ UNCHANGED <<running, flush_pending, worker, owner, done, added, before, starts>>
  BY DEF FlushNow
<1>2. Free("caller")
  BY <1>1 DEF IInv, BatchesOK, Free
<1>3. /\ queue' = << >> /\ queue' \in Seq(Nat)
      /\ local' \in [Writers -> Seq(Nat)]
      /\ \A u \in Writers \ {"caller"} : local'[u] = local[u]
      /\ Places'
      /\ \A u \in Writers : ToSet(local[u]) \subseteq ToSet(local'[u])
  BY <1>1, <1>2, TakeKeeps DEF Writers
<1>4. /\ flushes \in Nat /\ flushes' \in Nat /\ flushes' # 0 /\ flushes' <= MaxFlushes
  BY <1>1, WriterAssumption DEF IInv, Shapes
<1>5. TypeOK' /\ Shapes' /\ BatchesOK'
  BY <1>1, <1>3, <1>4 DEF IInv, TypeOK, Shapes, BatchesOK, Writers
<1>6. OrderOK'
  BY <1>4 DEF OrderOK
<1>7. StopOK'
  BY <1>1, <1>3 DEF IInv, StopOK, Writers
<1> QED
  BY <1>3, <1>5, <1>6, <1>7 DEF IInv

LEMMA StepIInv == IInv /\ [Next]_vars => IInv'
<1> SUFFICES ASSUME IInv, [Next]_vars PROVE IInv'
  OBVIOUS
<1>1. {before, starts, flushes, added} \subseteq Nat /\ MaxStarts \in Nat
  BY WriterAssumption DEF IInv, Shapes
<1>2. CASE Enqueue
  BY <1>2, EnqueueIInv
<1>3. CASE Start
  <2>1. starts' \in Nat /\ starts' <= MaxStarts
    BY <1>1, <1>3 DEF Start
  <2>2. TypeOK' /\ BatchesOK'
    BY <1>3, <2>1 DEF Start, IInv, TypeOK, BatchesOK
  <2> QED
    BY <1>1, <1>3, <2>1, <2>2, StaysIInv DEF Start
<1>4. CASE StopFlag
  <2>1. TypeOK' /\ BatchesOK'
    <3>1. added <= added
      BY <1>1
    <3> QED
      BY <1>4, <3>1 DEF StopFlag, IInv, TypeOK, BatchesOK
  <2> QED
    BY <1>1, <1>4, <2>1, StaysIInv DEF StopFlag
<1>5. CASE StopFlush
  <2>1. TypeOK' /\ BatchesOK'
    BY <1>1, <1>5 DEF StopFlush, IInv, TypeOK, BatchesOK
  <2> QED
    BY <1>1, <1>5, <2>1, StaysIInv DEF StopFlush
<1>6. CASE StopJoin
  BY <1>6, StopJoinIInv
<1>7. CASE Stopped
  <2>1. TypeOK' /\ BatchesOK'
    BY <1>1, <1>7 DEF Stopped, IInv, TypeOK, BatchesOK
  <2> QED
    BY <1>1, <1>7, <2>1, StaysIInv DEF Stopped
<1>8. ASSUME NEW t \in Writers, Run(t) PROVE IInv'
  BY <1>8, RunIInv
<1>9. CASE Loop
  <2>1. TypeOK' /\ BatchesOK'
    BY <1>1, <1>9 DEF Loop, IInv, TypeOK, BatchesOK
  <2> QED
    BY <1>1, <1>9, <2>1, StaysIInv DEF Loop
<1>10. CASE Wake
  <2>1. CASE worker' = "writing" /\ flush_pending' = FALSE /\ Take("worker")
    BY <1>10, <2>1, WorkerTakesIInv DEF Wake
  <2>2. CASE worker' \in {"leaving", "loop"} /\ UNCHANGED <<queue, flush_pending, local>>
    <3>1. TypeOK' /\ BatchesOK'
      BY <1>1, <1>10, <2>2 DEF Wake, IInv, TypeOK, BatchesOK
    <3> QED
      BY <1>1, <1>10, <2>2, <3>1, StaysIInv DEF Wake
  <2> QED
    BY <1>10, <2>1, <2>2 DEF Wake
<1>11. CASE Written
  <2>1. TypeOK' /\ BatchesOK'
    BY <1>1, <1>11 DEF Written, IInv, TypeOK, BatchesOK
  <2> QED
    BY <1>1, <1>11, <2>1, StaysIInv DEF Written
<1>12. CASE Leave
  BY <1>12, WorkerTakesIInv DEF Leave, IInv, TypeOK
<1>13. CASE Left
  <2>1. TypeOK' /\ BatchesOK'
    BY <1>1, <1>13 DEF Left, IInv, TypeOK, BatchesOK
  <2> QED
    BY <1>1, <1>13, <2>1, StaysIInv DEF Left
<1>14. CASE FlushNow
  BY <1>14, FlushNowIInv
<1>15. CASE Flushed
  <2>1. TypeOK' /\ BatchesOK'
    BY <1>1, <1>15 DEF Flushed, IInv, TypeOK, BatchesOK
  <2> QED
    BY <1>1, <1>15, <2>1, StaysIInv DEF Flushed
<1>16. CASE UNCHANGED vars
  <2>1. TypeOK' /\ BatchesOK'
    BY <1>1, <1>16 DEF vars, IInv, TypeOK, BatchesOK
  <2> QED
    BY <1>1, <1>16, <2>1, StaysIInv DEF vars
<1> QED
  BY <1>2, <1>3, <1>4, <1>5, <1>6, <1>7, <1>8, <1>9, <1>10, <1>11, <1>12, <1>13,
     <1>14, <1>15, <1>16 DEF Next, Stop, WorkerLoop, Caller, Writers

(* Whose batch it is, where every task is, and what Stop has taken along.  *)
THEOREM WriterIInv == Spec => []IInv
  BY InitIInv, StepIInv, PTL DEF Spec

(* No task is lost or run twice, and without FlushNow they run in order.   *)
THEOREM WriterInOrder == Spec => []InOrder
<1>1. IInv => InOrder
  <2> SUFFICES ASSUME IInv PROVE InOrder
    OBVIOUS
  <2>1. TypeOK /\ Kept
    BY PlacesAreKept DEF IInv
  <2>2. ASSUME flushes = 0 PROVE \A i, j \in DOMAIN done : i < j => done[i] < done[j]
    <3>1. done \in Seq(Nat) /\ DOMAIN done = 1 .. Len(done) /\ Len(done) \in Nat
      BY DEF IInv, Shapes
    <3>2. \A i \in DOMAIN done : done[i] = 0 + i /\ i \in Nat
      BY <2>2, <3>1 DEF IInv, OrderOK, From, Size
    <3> QED
      BY <3>2
  <2> QED
    BY <2>1, <2>2 DEF InOrder
<1> QED
  BY <1>1, WriterIInv, PTL

(* When Stop returns, what was enqueued before it is written, or a FlushNow *)
(* has it in its hands.                                                    *)
THEOREM WriterStopWrites == Spec => StopWrites
<1> DEFINE A == owner # "off" /\ owner' = "off" =>
                  1 .. before \subseteq ToSet(done) \cup ToSet(local["caller"])
<1>1. ASSUME IInv, [Next]_vars PROVE [A]_vars
  <2> SUFFICES ASSUME owner # "off", owner' = "off"
               PROVE  1 .. before \subseteq ToSet(done) \cup ToSet(local["caller"])
    OBVIOUS
  <2>1. Stopped
    BY <1>1 DEF Next, Stop, WorkerLoop, Caller, vars, Enqueue, Start, StopFlag, StopFlush, StopJoin,
       Run, Loop, Wake, Written, Leave, Left, FlushNow, Flushed
  <2>2. owner = "flushing" /\ ToSet(local["owner"]) = {}
    BY <2>1, ToSetEmpty DEF Stopped
  <2> QED
    BY <1>1, <2>2 DEF IInv, StopOK
<1> QED
  BY <1>1, WriterIInv, PTL DEF Spec, StopWrites
=============================================================================
