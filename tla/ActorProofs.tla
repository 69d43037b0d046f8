---------------------------- MODULE ActorProofs -----------------------------
(***************************************************************************)
(* Proofs that both actors implement Mailbox, so that handlers run one at  *)
(* a time and in the order of the Tells.                                   *)
(*                                                                         *)
(* First LockFreeActor, for a ring and batches of any size and any number  *)
(* of messages and starts, with its type invariant and that the ring keeps *)
(* what is put into it (RingOK).  Then Actor, as the instance A, for       *)
(* any number of senders, messages and starts.  The two have nothing in    *)
(* common but names: a theorem is about one of the two specifications, and *)
(* a variable is what that one says of it.                                 *)
(***************************************************************************)
EXTENDS LockFreeActor, TLAPS

(* The two threads that drain never do at the same time.                   *)
ThreadsOK ==
  /\ owner = "draining" => worker \in {"none", "done"}
  /\ owner # "draining" => reader["owner"].at = "no" /\ Idle("owner")
  /\ worker \in {"none", "done", "loop"} => reader["worker"].at = "no" /\ Idle("worker")
  /\ worker = "handling" => reader["worker"].at = "no"

(* A dequeue knows the head, and finds a message where it is to read one.  *)
ReadersOK ==
  \A t \in Threads :
    /\ reader[t].at # "no" => hand[t] = Nothing
    /\ reader[t].at \in {"head", "slot", "read"} => reader[t].head = head
    /\ reader[t].at \in {"slot", "read"} => head < tail

(* A drain takes a message only when it has none.                          *)
DrainsOK ==
  /\ worker = "draining" /\ reader["worker"].at \in {"head", "empty", "slot"} => batch["worker"] = << >>
  /\ owner = "draining" /\ reader["owner"].at \in {"head", "empty", "slot"} => batch["owner"] = << >>
  /\ worker = "filling" => hand["worker"] = Nothing

(* An enqueue knows the tail; past its check there is a free slot at it.   *)
SenderOK ==
  /\ sender.at # "ready" => sender.tail = tail /\ sender.next \in Messages
  /\ sender.at \in {"writing", "written"} => tail - head < Capacity
  /\ sender.at = "written" => slot[tail % Capacity] = sender.next
  /\ \A i \in 1 .. Len(told) : told[i] < sender.next

(* A batch holds the last messages dequeued, and OnReceive has its first.  *)
BatchesOK ==
  \A t \in Threads :
    /\ Len(batch[t]) <= Taken
    /\ \A i \in 1 .. Len(batch[t]) : batch[t][i] = told[Taken - Len(batch[t]) + i]
    /\ hand[t] # Nothing => batch[t] # << >> /\ hand[t] = Head(batch[t])

(* The inductive invariant.                                                *)
IInv == TypeOK /\ RingOK /\ ThreadsOK /\ ReadersOK /\ DrainsOK /\ SenderOK /\ BatchesOK

-----------------------------------------------------------------------------
(* Remainders: two indices less than a ring apart have different slots.    *)
LEMMA SlotOf == ASSUME NEW i \in Nat PROVE i % Capacity \in 0 .. Capacity - 1
  BY LockFreeAssumption

LEMMA SlotsDiffer ==
  ASSUME NEW i \in Nat, NEW j \in Nat, i < j, j - i < Capacity
  PROVE  i % Capacity # j % Capacity
<1> SUFFICES ASSUME i % Capacity = j % Capacity PROVE FALSE
  OBVIOUS
<1> DEFINE c == Capacity
           p == i \div Capacity
           q == j \div Capacity
           r == i % Capacity
<1>1. c \in Nat \ {0} /\ p \in Nat /\ q \in Nat /\ r \in Nat
  BY LockFreeAssumption
<1>2. i = c * p + r /\ j = c * q + r
  BY LockFreeAssumption
<1>3. j - i < c
  OBVIOUS
<1> HIDE DEF c, p, q, r
<1>4. CASE q <= p
  <2>1. c * q <= c * p
    BY <1>1, <1>4
  <2> QED
    BY <1>1, <1>2, <2>1
<1>5. CASE q >= p + 1
  <2>1. c * q >= c * (p + 1)
    BY <1>1, <1>5
  <2>2. c * (p + 1) = c * p + c
    BY <1>1
  <2> QED
    BY <1>1, <1>2, <1>3, <2>1, <2>2
<1> QED
  BY <1>1, <1>4, <1>5

(* While one thread is at the ring or has a message, the other has and     *)
(* does nothing.                                                           *)
LEMMA Exclusive ==
  ASSUME IInv, NEW t \in Threads, NEW u \in Threads \ {t}, reader[t].at # "no" \/ ~Idle(t)
  PROVE  reader[u].at = "no" /\ Idle(u)
  BY DEF IInv, ThreadsOK, Threads

(* Nothing that the drains know changes with the state of the sender.      *)
LEMMA SenderIsApart ==
  ASSUME IInv, UNCHANGED <<head, tail, worker, owner, reader, batch, hand, told>>
  PROVE  ThreadsOK' /\ DrainsOK' /\ ReadersOK' /\ BatchesOK'
<1>1. Taken' = Taken
  BY DEF Taken
<1>2. ThreadsOK' /\ DrainsOK'
  BY DEF IInv, ThreadsOK, DrainsOK, Idle
<1>3. ReadersOK'
  BY DEF IInv, ReadersOK
<1>4. BatchesOK'
  BY <1>1 DEF IInv, BatchesOK
<1> QED
  BY <1>2, <1>3, <1>4

(* The sender goes on to its next message.                                 *)
LEMMA NextMessage ==
  ASSUME IInv, sender.next \in Messages,
         sender' = [sender EXCEPT !.at = "ready", !.next = @ + 1]
  PROVE  /\ sender' \in [at: {"ready", "loaded", "writing", "written"}, next: 1 .. Count + 1, tail: Nat]
         /\ sender'.at = "ready"
         /\ sender'.next = sender.next + 1
<1>1. sender.next + 1 \in 1 .. Count + 1
  BY LockFreeAssumption DEF Messages
<1> QED
  BY <1>1 DEF IInv, TypeOK

LEMMA ToldAreNumbers ==
  ASSUME IInv, NEW i \in 1 .. Len(told) PROVE told[i] \in Nat /\ told[i] < sender.next
<1>1. told[i] \in Messages
  BY DEF IInv, TypeOK
<1> QED
  BY <1>1 DEF Messages, IInv, SenderOK

LEMMA InitIInv == Init => IInv
<1> SUFFICES ASSUME Init PROVE IInv
  OBVIOUS
<1>1. told = << >> /\ head = 0 /\ tail = 0
  BY DEF Init
<1>2. TypeOK
  <2>1. slot \in [0 .. Capacity - 1 -> Messages \cup {Nothing}]
    BY DEF Init
  <2>2. reader \in [Threads -> [at: Places, head: Nat, tail: Nat]]
    BY DEF Init, NotReading, Places
  <2>3. sender \in [at: {"ready", "loaded", "writing", "written"}, next: 1 .. Count + 1, tail: Nat]
    BY LockFreeAssumption DEF Init
  <2>4. starts \in 0 .. MaxStarts
    BY LockFreeAssumption DEF Init
  <2>5. told \in Seq(Messages) /\ batch \in [Threads -> Seq(Messages)]
    BY DEF Init
  <2> QED
    BY <2>1, <2>2, <2>3, <2>4, <2>5 DEF Init, TypeOK
<1>3. RingOK /\ SenderOK
  BY <1>1, LockFreeAssumption DEF Init, RingOK, SenderOK
<1>4. ThreadsOK /\ ReadersOK /\ DrainsOK
  BY DEF Init, ThreadsOK, ReadersOK, DrainsOK, Idle, NotReading, Threads
<1>5. BatchesOK
  <2>1. Taken = 0
    BY DEF Init, Taken, NotReading
  <2> QED
    BY <2>1 DEF Init, BatchesOK
<1> QED
  BY <1>2, <1>3, <1>4, <1>5 DEF IInv

-----------------------------------------------------------------------------
LEMMA LoadTailIInv == IInv /\ LoadTail => IInv'
<1> SUFFICES ASSUME IInv, LoadTail PROVE IInv'
  OBVIOUS
<1>1. ThreadsOK' /\ DrainsOK' /\ ReadersOK' /\ BatchesOK'
  BY SenderIsApart DEF LoadTail, ring
<1>2. TypeOK'
  BY DEF LoadTail, ring, IInv, TypeOK
<1>3. RingOK' /\ SenderOK'
  BY DEF LoadTail, ring, IInv, TypeOK, RingOK, SenderOK
<1> QED
  BY <1>1, <1>2, <1>3 DEF IInv

LEMMA LoadHeadIInv == IInv /\ LoadHead => IInv'
<1> SUFFICES ASSUME IInv, LoadHead PROVE IInv'
  OBVIOUS
<1>1. ThreadsOK' /\ DrainsOK' /\ ReadersOK' /\ BatchesOK'
  BY SenderIsApart DEF LoadHead, ring
<1>2. sender.next \in 1 .. Count /\ sender.tail = tail
  BY DEF LoadHead, IInv, SenderOK, Messages
<1>3. TypeOK'
  <2>1. sender' \in [at: {"ready", "loaded", "writing", "written"}, next: 1 .. Count + 1, tail: Nat]
    <3>1. CASE sender' = [sender EXCEPT !.at = "ready", !.next = @ + 1]
      BY <1>2, <3>1, NextMessage DEF Messages
    <3>2. CASE sender' = [sender EXCEPT !.at = "writing"]
      BY <3>2 DEF IInv, TypeOK
    <3> QED
      BY <3>1, <3>2 DEF LoadHead
  <2> QED
    BY <2>1 DEF LoadHead, ring, IInv, TypeOK
<1>4. RingOK'
  BY DEF LoadHead, ring, IInv, RingOK
<1>5. SenderOK'
  <2>1. \A i \in 1 .. Len(told) : told[i] \in Nat /\ told[i] < sender.next
    BY ToldAreNumbers
  <2>2. CASE tail - head >= Capacity
    <3>1. sender'.at = "ready" /\ sender'.next = sender.next + 1
      BY <1>2, <2>2 DEF LoadHead, IInv, TypeOK
    <3> QED
      BY <1>2, <2>1, <3>1 DEF LoadHead, ring, SenderOK
  <2>3. CASE ~(tail - head >= Capacity)
    BY <1>2, <2>1, <2>3, LockFreeAssumption DEF LoadHead, ring, IInv, TypeOK, SenderOK
  <2> QED
    BY <2>2, <2>3
<1> QED
  BY <1>1, <1>3, <1>4, <1>5 DEF IInv

LEMMA WriteSlotIInv == IInv /\ WriteSlot => IInv'
<1> SUFFICES ASSUME IInv, WriteSlot PROVE IInv'
  OBVIOUS
<1>1. ThreadsOK' /\ DrainsOK' /\ ReadersOK' /\ BatchesOK'
  BY SenderIsApart DEF WriteSlot
<1>2. /\ sender.tail = tail
      /\ sender.next \in Messages
      /\ tail - head < Capacity
      /\ head \in Nat /\ tail \in Nat
      /\ tail % Capacity \in 0 .. Capacity - 1
  BY SlotOf DEF WriteSlot, IInv, SenderOK, TypeOK
<1>3. TypeOK'
  BY <1>2 DEF WriteSlot, IInv, TypeOK
<1>4. slot'[tail % Capacity] = sender.next
  BY <1>2 DEF WriteSlot, IInv, TypeOK
<1>5. RingOK'
  <2> SUFFICES ASSUME NEW i \in head .. tail - 1
               PROVE  slot'[i % Capacity] = slot[i % Capacity]
    BY DEF WriteSlot, IInv, RingOK
  <2>1. i % Capacity # tail % Capacity
    <3>1. i \in Nat /\ i < tail /\ tail - i < Capacity
      BY <1>2, LockFreeAssumption
    <3> QED
      BY <1>2, <3>1, SlotsDiffer
  <2>2. i % Capacity \in 0 .. Capacity - 1
    BY <1>2, SlotOf
  <2> QED
    BY <1>2, <2>1, <2>2 DEF WriteSlot, IInv, TypeOK
<1>6. SenderOK'
  BY <1>2, <1>4 DEF WriteSlot, IInv, TypeOK, SenderOK
<1> QED
  BY <1>1, <1>3, <1>5, <1>6 DEF IInv

LEMMA StoreTailIInv ==
  ASSUME IInv, StoreTail
  PROVE  IInv' /\ sender.next \in Messages /\ Len(told) < Len(told') /\ Taken' = Taken
         /\ \A i \in 1 .. Len(told) : told[i] # sender.next
<1>1. /\ sender.tail = tail
      /\ sender.next \in Messages
      /\ tail - head < Capacity
      /\ slot[tail % Capacity] = sender.next
      /\ head \in Nat /\ tail \in Nat
      /\ tail = Len(told)
      /\ told \in Seq(Messages)
      /\ tail' = tail + 1
  BY DEF StoreTail, IInv, SenderOK, RingOK, TypeOK
<1>2. /\ told' \in Seq(Messages)
      /\ Len(told') = Len(told) + 1
      /\ told'[Len(told) + 1] = sender.next
      /\ \A i \in 1 .. Len(told) : told'[i] = told[i]
  BY <1>1 DEF StoreTail
<1>3. Taken' = Taken /\ Taken <= Len(told)
  <2>1. Taken' = Taken
    BY DEF StoreTail, Taken
  <2>2. \A t \in Threads : reader[t].at = "read" => head + 1 <= tail
    BY <1>1 DEF IInv, ReadersOK
  <2> QED
    BY <1>1, <2>1, <2>2 DEF Taken, IInv, RingOK
<1>4. TypeOK'
  <2>1. sender' \in [at: {"ready", "loaded", "writing", "written"}, next: 1 .. Count + 1, tail: Nat]
    BY <1>1, NextMessage DEF StoreTail
  <2> QED
    BY <1>1, <1>2, <2>1 DEF StoreTail, IInv, TypeOK
<1>5. RingOK'
  <2>1. ASSUME NEW i \in head .. tail
        PROVE  \/ slot[i % Capacity] = told'[i + 1]
               \/ i = head /\ \E t \in Threads : reader[t].at = "read"
    <3>1. CASE i = tail
      BY <1>1, <1>2, <3>1
    <3>2. CASE i \in head .. tail - 1
      <4>1. i + 1 \in 1 .. Len(told)
        BY <1>1, <3>2
      <4> QED
        BY <1>2, <3>2, <4>1 DEF IInv, RingOK
    <3> QED
      BY <1>1, <3>1, <3>2
  <2> QED
    BY <1>1, <1>2, <2>1, LockFreeAssumption DEF StoreTail, IInv, RingOK
<1>6. SenderOK'
  <2>1. sender'.at = "ready" /\ sender'.next = sender.next + 1
    BY DEF StoreTail, IInv, TypeOK
  <2>2. ASSUME NEW i \in 1 .. Len(told') PROVE told'[i] < sender'.next
    <3>1. CASE i = Len(told) + 1
      BY <1>1, <1>2, <2>1, <3>1 DEF Messages
    <3>2. CASE i \in 1 .. Len(told)
      <4>1. told[i] \in Nat /\ told[i] < sender.next
        BY <3>2, ToldAreNumbers
      <4> QED
        BY <1>1, <1>2, <2>1, <3>2, <4>1 DEF Messages
    <3> QED
      BY <1>1, <1>2, <3>1, <3>2
  <2> QED
    BY <2>1, <2>2 DEF SenderOK
<1>7. ThreadsOK' /\ DrainsOK'
  BY DEF StoreTail, IInv, ThreadsOK, DrainsOK, Idle
<1>8. ReadersOK'
  BY <1>1 DEF StoreTail, IInv, ReadersOK
<1>9. BatchesOK'
  <2> SUFFICES ASSUME NEW t \in Threads, NEW i \in 1 .. Len(batch[t])
               PROVE  told'[Taken - Len(batch[t]) + i] = told[Taken - Len(batch[t]) + i]
    BY <1>3 DEF StoreTail, IInv, BatchesOK
  <2>1. Len(batch[t]) \in Nat /\ Len(batch[t]) <= Taken
    BY DEF IInv, TypeOK, BatchesOK
  <2>2. Taken \in Nat
    BY <1>1 DEF Taken
  <2>3. Taken - Len(batch[t]) + i \in 1 .. Len(told)
    BY <1>1, <1>3, <2>1, <2>2
  <2> QED
    BY <1>2, <2>3
<1>10. \A i \in 1 .. Len(told) : told[i] # sender.next
  BY <1>1 DEF IInv, SenderOK, Messages
<1> QED
  BY <1>1, <1>2, <1>3, <1>4, <1>5, <1>6, <1>7, <1>8, <1>9, <1>10 DEF IInv

-----------------------------------------------------------------------------
(* Threads that neither read a slot nor move the head leave all that was   *)
(* taken as it is.                                                         *)
LEMMA SameTaken ==
  ASSUME IInv, NEW t \in Threads, head' = head, reader[t].at # "read", reader'[t].at # "read",
         \A u \in Threads \ {t} : reader'[u] = reader[u]
  PROVE  Taken' = Taken /\ (RingOK /\ UNCHANGED <<slot, tail, told>> => RingOK')
<1>1. (\E u \in Threads : reader'[u].at = "read") <=> \E u \in Threads : reader[u].at = "read"
  OBVIOUS
<1>2. Taken' = Taken
  BY <1>1 DEF Taken
<1>3. ASSUME RingOK, UNCHANGED <<slot, tail, told>> PROVE RingOK'
  BY <1>1, <1>3 DEF RingOK
<1> QED
  BY <1>2, <1>3

LEMMA AtHeadIInv ==
  ASSUME IInv, NEW t \in Threads, AtHead(t)
  PROVE  IInv' /\ Taken' = Taken
<1>1. /\ reader' = [reader EXCEPT ![t].at = IF reader[t].head >= tail THEN "empty" ELSE "slot"]
      /\ reader[t].at = "head"
      /\ reader[t].head = head /\ head \in Nat /\ tail \in Nat
      /\ reader \in [Threads -> [at: Places, head: Nat, tail: Nat]]
  BY DEF AtHead, IInv, ReadersOK, TypeOK
<1>2. /\ reader' \in [Threads -> [at: Places, head: Nat, tail: Nat]]
      /\ reader'[t].at = IF head >= tail THEN "empty" ELSE "slot"
      /\ reader'[t].head = head
      /\ \A u \in Threads \ {t} : reader'[u] = reader[u]
  BY <1>1 DEF Places
<1>3. TypeOK'
  BY <1>2 DEF AtHead, ring, IInv, TypeOK
<1>4. Taken' = Taken /\ RingOK'
  BY <1>1, <1>2, SameTaken DEF AtHead, ring, IInv
<1>5. ThreadsOK' /\ DrainsOK'
  BY <1>1, <1>2 DEF AtHead, IInv, ThreadsOK, DrainsOK, Idle, Threads
<1>6. ReadersOK'
  BY <1>1, <1>2 DEF AtHead, ring, IInv, ReadersOK
<1>7. SenderOK'
  BY DEF AtHead, ring, IInv, SenderOK
<1>8. BatchesOK'
  BY <1>4 DEF AtHead, IInv, BatchesOK
<1> QED
  BY <1>3, <1>4, <1>5, <1>6, <1>7, <1>8 DEF IInv

LEMMA ReadSlotIInv ==
  ASSUME IInv, NEW t \in Threads, ReadSlot(t)
  PROVE  /\ IInv'
         /\ Taken' = Taken + 1
         /\ Len(batch'[t]) = Len(batch[t]) + 1
         /\ \A u \in Threads \ {t} : batch'[u] = batch[u]
<1> DEFINE new == slot[head % Capacity]
<1>1. /\ reader[t].at = "slot" /\ reader[t].head = head /\ hand[t] = Nothing
      /\ head < tail /\ head \in Nat /\ tail \in Nat /\ tail - head <= Capacity
      /\ tail = Len(told) /\ told \in Seq(Messages)
      /\ batch \in [Threads -> Seq(Messages)]
      /\ reader \in [Threads -> [at: Places, head: Nat, tail: Nat]]
      /\ slot \in [0 .. Capacity - 1 -> Messages \cup {Nothing}]
      /\ head % Capacity \in 0 .. Capacity - 1
  BY SlotOf DEF ReadSlot, IInv, ReadersOK, TypeOK, RingOK
<1>2. \A u \in Threads \ {t} : reader[u].at = "no" /\ batch[u] = << >>
  BY <1>1, Exclusive DEF Idle
<1>3. new = told[head + 1]
  <2>1. ~\E u \in Threads : reader[u].at = "read"
    BY <1>1, <1>2
  <2>2. head \in head .. tail - 1
    BY <1>1
  <2> QED
    BY <2>1, <2>2 DEF IInv, RingOK
<1>4. new \in Messages
  BY <1>1, <1>3
<1>5. /\ batch' = [batch EXCEPT ![t] = Append(@, new)]
      /\ slot' = [slot EXCEPT ![head % Capacity] = Nothing]
      /\ reader' = [reader EXCEPT ![t].at = "read"]
      /\ UNCHANGED <<head, tail, running, worker, owner, hand, sender, told, handled, starts>>
  BY <1>1 DEF ReadSlot
<1> HIDE DEF new
<1>6. /\ batch' \in [Threads -> Seq(Messages)]
      /\ batch'[t] = Append(batch[t], new)
      /\ \A u \in Threads \ {t} : batch'[u] = batch[u]
  BY <1>1, <1>4, <1>5
<1>7. /\ reader' \in [Threads -> [at: Places, head: Nat, tail: Nat]]
      /\ reader'[t].at = "read" /\ reader'[t].head = head
      /\ \A u \in Threads \ {t} : reader'[u] = reader[u]
  BY <1>1, <1>5 DEF Places
<1>8. Taken = head /\ Taken' = head + 1
  BY <1>1, <1>2, <1>5, <1>7 DEF Taken
<1>9. TypeOK'
  <2>1. slot' \in [0 .. Capacity - 1 -> Messages \cup {Nothing}]
    BY <1>1, <1>5
  <2> QED
    BY <2>1, <1>5, <1>6, <1>7 DEF IInv, TypeOK
<1>10. ASSUME NEW i \in Nat, head < i, i - head < Capacity
       PROVE  slot'[i % Capacity] = slot[i % Capacity]
  <2>1. i % Capacity # head % Capacity
    BY <1>1, <1>10, SlotsDiffer
  <2>2. i % Capacity \in 0 .. Capacity - 1
    BY SlotOf
  <2> QED
    BY <1>1, <1>5, <2>1, <2>2
<1>11. RingOK'
  <2>1. ASSUME NEW i \in head .. tail - 1
        PROVE  slot'[i % Capacity] = told[i + 1] \/ i = head
    <3>1. CASE i # head
      <4>1. i \in Nat /\ head < i /\ i - head < Capacity
        BY <1>1, <3>1, LockFreeAssumption
      <4>2. slot[i % Capacity] = told[i + 1]
        BY <3>1 DEF IInv, RingOK
      <4> QED
        BY <1>10, <4>1, <4>2
    <3> QED
      BY <3>1
  <2> QED
    BY <1>1, <1>5, <1>7, <2>1 DEF RingOK
<1>12. SenderOK'
  <2>1. CASE sender.at = "written"
    <3>1. slot'[tail % Capacity] = slot[tail % Capacity]
      BY <1>1, <1>10, <2>1 DEF IInv, SenderOK
    <3> QED
      BY <1>5, <3>1 DEF IInv, SenderOK
  <2>2. CASE sender.at # "written"
    BY <1>5, <2>2 DEF IInv, SenderOK
  <2> QED
    BY <2>1, <2>2
<1>13. ThreadsOK'
  BY <1>1, <1>5, <1>6, <1>7 DEF IInv, ThreadsOK, Idle, Threads
<1>14. DrainsOK'
  BY <1>1, <1>5, <1>6, <1>7 DEF IInv, DrainsOK, Threads
<1>15. ReadersOK'
  BY <1>1, <1>5, <1>7 DEF IInv, ReadersOK
<1>16. BatchesOK'
  <2>1. /\ Len(batch[t]) \in Nat /\ Len(batch[t]) <= head
        /\ Len(batch'[t]) = Len(batch[t]) + 1
        /\ \A i \in 1 .. Len(batch[t]) : batch'[t][i] = batch[t][i]
        /\ batch'[t][Len(batch[t]) + 1] = new
    BY <1>1, <1>4, <1>6, <1>8 DEF IInv, BatchesOK
  <2>2. ASSUME NEW i \in 1 .. Len(batch'[t])
        PROVE  batch'[t][i] = told[Taken' - Len(batch'[t]) + i]
    <3>1. Taken' - Len(batch'[t]) + i = head - Len(batch[t]) + i
      <4>1. head \in Int /\ Len(batch[t]) \in Int /\ i \in Int
        BY <1>1, <2>1
      <4>2. Taken' = head + 1 /\ Len(batch'[t]) = Len(batch[t]) + 1
        BY <1>8, <2>1
      <4> QED
        BY <4>1, <4>2
    <3>2. CASE i = Len(batch[t]) + 1
      <4>1. head - Len(batch[t]) + i = head + 1
        BY <1>1, <2>1, <3>2
      <4> QED
        BY <1>3, <2>1, <3>1, <3>2, <4>1
    <3>3. CASE i \in 1 .. Len(batch[t])
      BY <1>8, <2>1, <3>1, <3>3 DEF IInv, BatchesOK
    <3> QED
      BY <2>1, <3>2, <3>3
  <2>3. ASSUME NEW u \in Threads \ {t}
        PROVE  batch'[u] = << >> /\ hand[u] = Nothing /\ Len(batch'[u]) = 0
    BY <1>1, <1>2, <1>6, Exclusive DEF Idle
  <2>4. Taken' \in Nat /\ Len(batch'[t]) <= Taken'
    BY <1>1, <1>8, <2>1
  <2>5. told' = told /\ hand' = hand
    BY <1>5
  <2>6. ASSUME NEW u \in Threads
        PROVE  /\ Len(batch'[u]) <= Taken'
               /\ \A i \in 1 .. Len(batch'[u]) : batch'[u][i] = told'[Taken' - Len(batch'[u]) + i]
               /\ hand'[u] # Nothing => batch'[u] # << >> /\ hand'[u] = Head(batch'[u])
    <3>1. CASE u = t
      BY <1>1, <2>2, <2>4, <2>5, <3>1
    <3>2. CASE u # t
      BY <2>3, <2>4, <2>5, <3>2
    <3> QED
      BY <3>1, <3>2
  <2> QED
    BY <2>6 DEF BatchesOK
<1> QED
  BY <1>1, <1>4, <1>6, <1>8, <1>9, <1>11, <1>12, <1>13, <1>14, <1>15, <1>16 DEF IInv

LEMMA StoreHeadIInv ==
  ASSUME IInv, NEW t \in Threads, StoreHead(t)
  PROVE  IInv' /\ Taken' = Taken
<1>1. /\ reader[t].at = "read" /\ reader[t].head = head /\ hand[t] = Nothing
      /\ head < tail /\ head \in Nat /\ tail \in Nat /\ tail = Len(told)
      /\ reader \in [Threads -> [at: Places, head: Nat, tail: Nat]]
  BY DEF StoreHead, IInv, ReadersOK, TypeOK, RingOK
<1>2. \A u \in Threads \ {t} : reader[u].at = "no"
  BY <1>1, Exclusive
<1>3. /\ reader' \in [Threads -> [at: Places, head: Nat, tail: Nat]]
      /\ \A u \in Threads : reader'[u].at = "no"
      /\ head' = head + 1
      /\ UNCHANGED <<slot, tail, running, worker, owner, batch, hand, sender, told, handled, starts>>
  BY <1>1, <1>2 DEF StoreHead, NotReading, Places
<1>4. Taken' = Taken
  BY <1>1, <1>3 DEF Taken
<1>5. TypeOK'
  BY <1>1, <1>3 DEF IInv, TypeOK
<1>6. RingOK'
  <2>1. ASSUME NEW i \in head + 1 .. tail - 1 PROVE slot[i % Capacity] = told[i + 1]
    <3>1. i \in head .. tail - 1 /\ i # head
      BY <1>1
    <3> QED
      BY <3>1 DEF IInv, RingOK
  <2>2. head + 1 <= tail /\ tail - (head + 1) <= Capacity
    BY <1>1, LockFreeAssumption DEF IInv, RingOK
  <2> QED
    BY <1>1, <1>3, <2>1, <2>2 DEF RingOK
<1>7. ThreadsOK' /\ DrainsOK'
  BY <1>1, <1>2, <1>3 DEF IInv, ThreadsOK, DrainsOK, Idle, Threads
<1>8. ReadersOK'
  BY <1>3 DEF ReadersOK
<1>9. SenderOK'
  BY <1>1, <1>3, LockFreeAssumption DEF IInv, SenderOK
<1>10. BatchesOK'
  BY <1>3, <1>4 DEF IInv, BatchesOK
<1> QED
  BY <1>4, <1>5, <1>6, <1>7, <1>8, <1>9, <1>10 DEF IInv

(* A thread begins a dequeue, or gives up one that found the ring empty.   *)
LEMMA ReaderMoves ==
  ASSUME IInv, NEW t \in Threads, NEW r \in {NotReading, [at |-> "head", head |-> head, tail |-> 0]},
         reader[t].at # "read",
         r.at = "no" \/ hand[t] = Nothing,
         reader' = [reader EXCEPT ![t] = r],
         UNCHANGED <<ring, batch, hand, sender, told>>
  PROVE  /\ reader' \in [Threads -> [at: Places, head: Nat, tail: Nat]]
         /\ reader'[t] = r /\ \A u \in Threads \ {t} : reader'[u] = reader[u]
         /\ Taken' = Taken
         /\ RingOK' /\ SenderOK' /\ ReadersOK' /\ BatchesOK'
<1>1. reader \in [Threads -> [at: Places, head: Nat, tail: Nat]] /\ head \in Nat
  BY DEF IInv, TypeOK
<1>2. r \in [at: Places, head: Nat, tail: Nat] /\ r.at \in {"no", "head"}
      /\ (r.at = "head" => r.head = head)
  BY <1>1 DEF NotReading, Places
<1>3. /\ reader' \in [Threads -> [at: Places, head: Nat, tail: Nat]]
      /\ reader'[t] = r
      /\ \A u \in Threads \ {t} : reader'[u] = reader[u]
  BY <1>1, <1>2
<1>4. UNCHANGED <<slot, head, tail, batch, hand, sender, told>>
  BY DEF ring
<1>5. Taken' = Taken /\ RingOK'
  BY <1>2, <1>3, <1>4, SameTaken DEF IInv
<1>6. SenderOK'
  BY <1>4 DEF IInv, SenderOK
<1>7. ReadersOK'
  BY <1>2, <1>3, <1>4 DEF IInv, ReadersOK
<1>8. BatchesOK'
  BY <1>4, <1>5 DEF IInv, BatchesOK
<1> QED
  BY <1>3, <1>5, <1>6, <1>7, <1>8

(* OnReceive is called with the first message of the batch, or returns.    *)
LEMMA HandleKeeps ==
  ASSUME IInv, NEW t \in Threads, Handle(t), reader[t].at = "no",
         UNCHANGED <<ring, reader, sender, told>>
  PROVE  /\ batch' \in [Threads -> Seq(Messages)]
         /\ hand' \in [Threads -> Messages \cup {Nothing}]
         /\ handled' \subseteq Messages
         /\ \A u \in Threads \ {t} : batch'[u] = batch[u] /\ hand'[u] = hand[u]
         /\ Taken' = Taken
         /\ RingOK' /\ SenderOK' /\ ReadersOK' /\ BatchesOK'
<1>1. /\ batch \in [Threads -> Seq(Messages)]
      /\ hand \in [Threads -> Messages \cup {Nothing}]
      /\ handled \subseteq Messages
      /\ head \in Nat
  BY DEF IInv, TypeOK
<1>2. UNCHANGED <<slot, head, tail, reader, sender, told>>
  BY DEF ring
<1>3. Taken' = Taken /\ Taken \in Nat
  BY <1>1, <1>2 DEF Taken
<1>4. batch[t] # << >> /\ Len(batch[t]) \in Nat \ {0} /\ Head(batch[t]) \in Messages
  BY <1>1 DEF Handle, IInv, BatchesOK
<1>5. /\ batch' \in [Threads -> Seq(Messages)]
      /\ hand' \in [Threads -> Messages \cup {Nothing}]
      /\ handled' \subseteq Messages
      /\ \A u \in Threads \ {t} : batch'[u] = batch[u] /\ hand'[u] = hand[u]
  <2>1. CASE hand[t] = Nothing
    BY <1>1, <1>4, <2>1 DEF Handle
  <2>2. CASE hand[t] # Nothing
    <3>1. Tail(batch[t]) \in Seq(Messages) /\ hand[t] \in Messages
      BY <1>1, <1>4, <2>2
    <3>2. /\ hand' = [hand EXCEPT ![t] = Nothing]
          /\ handled' = handled \cup {hand[t]}
          /\ batch' = [batch EXCEPT ![t] = Tail(batch[t])]
      BY <1>1, <2>2 DEF Handle
    <3> QED
      BY <1>1, <3>1, <3>2
  <2> QED
    BY <2>1, <2>2
<1>6. RingOK' /\ SenderOK'
  BY <1>2 DEF IInv, RingOK, SenderOK
<1>7. ReadersOK'
  BY <1>2, <1>5 DEF IInv, ReadersOK
<1>8. ASSUME NEW u \in Threads
      PROVE  /\ Len(batch'[u]) <= Taken
             /\ \A i \in 1 .. Len(batch'[u]) : batch'[u][i] = told[Taken - Len(batch'[u]) + i]
             /\ hand'[u] # Nothing => batch'[u] # << >> /\ hand'[u] = Head(batch'[u])
  <2>1. CASE u # t
    BY <1>5, <2>1 DEF IInv, BatchesOK
  <2>2. CASE u = t /\ hand[t] = Nothing
    <3>1. batch' = batch /\ hand'[t] = Head(batch[t])
      BY <1>1, <2>2 DEF Handle
    <3> QED
      BY <1>4, <2>2, <3>1 DEF IInv, BatchesOK
  <2>3. CASE u = t /\ hand[t] # Nothing
    <3>1. batch'[t] = Tail(batch[t]) /\ hand'[t] = Nothing
      BY <1>1, <2>3 DEF Handle
    <3>2. /\ Len(batch'[t]) = Len(batch[t]) - 1
          /\ \A i \in 1 .. Len(batch'[t]) : batch'[t][i] = batch[t][i + 1]
      BY <1>1, <1>4, <3>1
    <3>3. ASSUME NEW i \in 1 .. Len(batch'[t])
          PROVE  batch'[t][i] = told[Taken - Len(batch'[t]) + i]
      <4>1. i + 1 \in 1 .. Len(batch[t])
        BY <1>4, <3>2
      <4>2. batch[t][i + 1] = told[Taken - Len(batch[t]) + (i + 1)]
        BY <4>1 DEF IInv, BatchesOK
      <4>3. Taken - Len(batch[t]) + (i + 1) = Taken - Len(batch'[t]) + i
        BY <1>3, <1>4, <3>2
      <4> QED
        BY <3>2, <4>2, <4>3
    <3>4. Len(batch'[t]) <= Taken
      <4>1. Len(batch[t]) <= Taken
        BY DEF IInv, BatchesOK
      <4> QED
        BY <1>3, <1>4, <3>2, <4>1
    <3> QED
      BY <2>3, <3>1, <3>3, <3>4
  <2> QED
    BY <2>1, <2>2, <2>3
<1>9. BatchesOK'
  BY <1>2, <1>3, <1>8 DEF BatchesOK
<1> QED
  BY <1>3, <1>5, <1>6, <1>7, <1>9

(* The steps of a drain, of the worker or of the thread that stops it.     *)
LEMMA DrainStepKeeps ==
  ASSUME IInv, NEW t \in Threads, DrainStep(t),
         UNCHANGED <<ring, sender, told>>
  PROVE  /\ batch' \in [Threads -> Seq(Messages)]
         /\ hand' \in [Threads -> Messages \cup {Nothing}]
         /\ handled' \subseteq Messages
         /\ reader' \in [Threads -> [at: Places, head: Nat, tail: Nat]]
         /\ reader'[t].at # "no" => batch'[t] = << >>
         /\ \A u \in Threads \ {t} : /\ batch'[u] = batch[u] /\ hand'[u] = hand[u]
                                      /\ reader'[u] = reader[u]
         /\ RingOK' /\ SenderOK' /\ ReadersOK' /\ BatchesOK'
<1>1. CASE Idle(t) /\ Dequeues(t, 1) /\ UNCHANGED <<batch, hand, handled>>
  <2>1. /\ reader[t].at = "no" /\ hand[t] = Nothing /\ batch[t] = << >>
        /\ reader' = [reader EXCEPT ![t] = [at |-> "head", head |-> head, tail |-> 0]]
    BY <1>1 DEF Idle, Dequeues
  <2> QED
    BY <1>1, <2>1, ReaderMoves DEF IInv, TypeOK
<1>2. CASE reader[t].at = "no" /\ Handle(t) /\ UNCHANGED reader
  BY <1>2, HandleKeeps DEF IInv, TypeOK
<1> QED
  BY <1>1, <1>2 DEF DrainStep

LEMMA FillIInv == IInv /\ Fill => IInv'
<1> SUFFICES ASSUME IInv, Fill PROVE IInv'
  OBVIOUS
<1>1. /\ reader["worker"].at = "no" /\ hand["worker"] = Nothing /\ worker = "filling"
      /\ reader' = [reader EXCEPT !["worker"] = [at |-> "head", head |-> head, tail |-> 0]]
      /\ UNCHANGED <<ring, running, worker, owner, batch, hand, sender, told, handled, starts>>
  BY DEF Fill, Dequeues
<1>2. /\ reader' \in [Threads -> [at: Places, head: Nat, tail: Nat]]
      /\ \A u \in Threads \ {"worker"} : reader'[u] = reader[u]
      /\ RingOK' /\ SenderOK' /\ ReadersOK' /\ BatchesOK'
  BY <1>1, ReaderMoves DEF Threads
<1>3. TypeOK'
  BY <1>1, <1>2 DEF ring, IInv, TypeOK
<1>4. ThreadsOK' /\ DrainsOK'
  BY <1>1, <1>2 DEF IInv, ThreadsOK, DrainsOK, Idle, Threads
<1> QED
  BY <1>2, <1>3, <1>4 DEF IInv

LEMMA FilledIInv == IInv /\ Filled => IInv'
<1> SUFFICES ASSUME IInv, Filled PROVE IInv'
  OBVIOUS
<1>1. /\ reader["worker"].at \in {"no", "empty"} /\ worker = "filling"
      /\ reader' = [reader EXCEPT !["worker"] = NotReading]
      /\ worker' = IF batch["worker"] = << >> THEN "loop" ELSE "handling"
      /\ UNCHANGED <<ring, running, owner, batch, hand, sender, told, handled, starts>>
  BY DEF Filled
<1>2. /\ reader' \in [Threads -> [at: Places, head: Nat, tail: Nat]]
      /\ reader'["worker"] = NotReading
      /\ \A u \in Threads \ {"worker"} : reader'[u] = reader[u]
      /\ RingOK' /\ SenderOK' /\ ReadersOK' /\ BatchesOK'
  BY <1>1, ReaderMoves DEF Threads, NotReading
<1>3. TypeOK'
  BY <1>1, <1>2 DEF ring, IInv, TypeOK
<1>4. ThreadsOK' /\ DrainsOK'
  BY <1>1, <1>2 DEF IInv, ThreadsOK, DrainsOK, Idle, Threads, NotReading
<1> QED
  BY <1>2, <1>3, <1>4 DEF IInv

LEMMA HandleBatchIInv == IInv /\ HandleBatch => IInv'
<1> SUFFICES ASSUME IInv, HandleBatch PROVE IInv'
  OBVIOUS
<1>1. /\ worker = "handling" /\ reader["worker"].at = "no"
      /\ UNCHANGED <<ring, running, owner, reader, sender, told, starts>>
      /\ UNCHANGED <<slot, head, tail>>
  BY DEF HandleBatch, ring, IInv, ThreadsOK
<1>2. CASE Idle("worker")
  <2>1. worker' = "loop" /\ UNCHANGED <<batch, hand, handled>>
    BY <1>2 DEF HandleBatch
  <2>2. TypeOK'
    BY <1>1, <2>1 DEF IInv, TypeOK
  <2>3. RingOK' /\ SenderOK'
    BY <1>1 DEF IInv, RingOK, SenderOK
  <2>4. ThreadsOK' /\ DrainsOK' /\ ReadersOK'
    BY <1>1, <1>2, <2>1 DEF IInv, ThreadsOK, DrainsOK, ReadersOK, Idle
  <2>5. BatchesOK'
    BY <1>1, <2>1 DEF IInv, BatchesOK, Taken
  <2> QED
    BY <2>2, <2>3, <2>4, <2>5 DEF IInv
<1>3. CASE ~Idle("worker")
  <2>1. Handle("worker") /\ worker' = worker
    BY <1>3 DEF HandleBatch
  <2>2. /\ batch' \in [Threads -> Seq(Messages)]
        /\ hand' \in [Threads -> Messages \cup {Nothing}]
        /\ handled' \subseteq Messages
        /\ \A u \in Threads \ {"worker"} : batch'[u] = batch[u] /\ hand'[u] = hand[u]
        /\ RingOK' /\ SenderOK' /\ ReadersOK' /\ BatchesOK'
    BY <1>1, <2>1, HandleKeeps DEF Threads
  <2>3. TypeOK'
    BY <1>1, <2>1, <2>2 DEF IInv, TypeOK
  <2>4. ThreadsOK' /\ DrainsOK'
    BY <1>1, <2>1, <2>2 DEF IInv, ThreadsOK, DrainsOK, Idle, Threads
  <2> QED
    BY <2>2, <2>3, <2>4 DEF IInv
<1> QED
  BY <1>2, <1>3

LEMMA WorkerDrainsIInv == IInv /\ WorkerDrains => IInv'
<1> SUFFICES ASSUME IInv, WorkerDrains PROVE IInv'
  OBVIOUS
<1>1. worker = "draining" /\ UNCHANGED <<ring, running, owner, sender, told, starts>>
  BY DEF WorkerDrains
<1>2. owner # "draining"
  BY <1>1 DEF IInv, ThreadsOK
<1>3. CASE DrainStep("worker") /\ UNCHANGED worker
  <2>1. /\ batch' \in [Threads -> Seq(Messages)]
        /\ hand' \in [Threads -> Messages \cup {Nothing}]
        /\ handled' \subseteq Messages
        /\ reader' \in [Threads -> [at: Places, head: Nat, tail: Nat]]
        /\ reader'["worker"].at # "no" => batch'["worker"] = << >>
        /\ batch'["owner"] = batch["owner"] /\ hand'["owner"] = hand["owner"]
        /\ reader'["owner"] = reader["owner"]
        /\ RingOK' /\ SenderOK' /\ ReadersOK' /\ BatchesOK'
    BY <1>1, <1>3, DrainStepKeeps DEF Threads
  <2>2. TypeOK'
    BY <1>1, <1>3, <2>1 DEF ring, IInv, TypeOK
  <2>3. ThreadsOK' /\ DrainsOK'
    BY <1>1, <1>2, <1>3, <2>1 DEF IInv, ThreadsOK, DrainsOK, Idle
  <2> QED
    BY <2>1, <2>2, <2>3 DEF IInv
<1>4. CASE /\ reader["worker"].at = "empty"
           /\ reader' = [reader EXCEPT !["worker"] = NotReading]
           /\ worker' = "done"
           /\ UNCHANGED <<batch, hand, handled>>
  <2>1. /\ reader' \in [Threads -> [at: Places, head: Nat, tail: Nat]]
        /\ reader'["worker"] = NotReading
        /\ reader'["owner"] = reader["owner"]
        /\ RingOK' /\ SenderOK' /\ ReadersOK' /\ BatchesOK'
    BY <1>1, <1>4, ReaderMoves DEF Threads, NotReading
  <2>2. TypeOK'
    BY <1>1, <1>4, <2>1 DEF ring, IInv, TypeOK
  <2>3. Idle("worker")
    BY <1>1, <1>4 DEF IInv, DrainsOK, ReadersOK, Idle, Threads
  <2>4. ThreadsOK' /\ DrainsOK'
    BY <1>1, <1>2, <1>4, <2>1, <2>3 DEF IInv, ThreadsOK, DrainsOK, Idle, NotReading
  <2> QED
    BY <2>1, <2>2, <2>4 DEF IInv
<1> QED
  BY <1>3, <1>4 DEF WorkerDrains

LEMMA OwnerDrainsIInv == IInv /\ OwnerDrains => IInv'
<1> SUFFICES ASSUME IInv, OwnerDrains PROVE IInv'
  OBVIOUS
<1>1. owner = "draining" /\ UNCHANGED <<ring, running, worker, sender, told, starts>>
  BY DEF OwnerDrains
<1>2. worker \in {"none", "done"}
  BY <1>1 DEF IInv, ThreadsOK
<1>3. CASE DrainStep("owner") /\ UNCHANGED owner
  <2>1. /\ batch' \in [Threads -> Seq(Messages)]
        /\ hand' \in [Threads -> Messages \cup {Nothing}]
        /\ handled' \subseteq Messages
        /\ reader' \in [Threads -> [at: Places, head: Nat, tail: Nat]]
        /\ reader'["owner"].at # "no" => batch'["owner"] = << >>
        /\ batch'["worker"] = batch["worker"] /\ hand'["worker"] = hand["worker"]
        /\ reader'["worker"] = reader["worker"]
        /\ RingOK' /\ SenderOK' /\ ReadersOK' /\ BatchesOK'
    BY <1>1, <1>3, DrainStepKeeps DEF Threads
  <2>2. TypeOK'
    BY <1>1, <1>3, <2>1 DEF ring, IInv, TypeOK
  <2>3. ThreadsOK' /\ DrainsOK'
    BY <1>1, <1>2, <1>3, <2>1 DEF IInv, ThreadsOK, DrainsOK, Idle
  <2> QED
    BY <2>1, <2>2, <2>3 DEF IInv
<1>4. CASE /\ reader["owner"].at = "empty"
           /\ reader' = [reader EXCEPT !["owner"] = NotReading]
           /\ owner' = "off"
           /\ UNCHANGED <<batch, hand, handled>>
  <2>1. /\ reader' \in [Threads -> [at: Places, head: Nat, tail: Nat]]
        /\ reader'["owner"] = NotReading
        /\ reader'["worker"] = reader["worker"]
        /\ RingOK' /\ SenderOK' /\ ReadersOK' /\ BatchesOK'
    BY <1>1, <1>4, ReaderMoves DEF Threads, NotReading
  <2>2. TypeOK'
    BY <1>1, <1>4, <2>1 DEF ring, IInv, TypeOK
  <2>3. Idle("owner")
    BY <1>1, <1>4 DEF IInv, DrainsOK, ReadersOK, Idle, Threads
  <2>4. ThreadsOK' /\ DrainsOK'
    BY <1>1, <1>2, <1>4, <2>1, <2>3 DEF IInv, ThreadsOK, DrainsOK, Idle, NotReading
  <2> QED
    BY <2>1, <2>2, <2>4 DEF IInv
<1> QED
  BY <1>3, <1>4 DEF OwnerDrains

LEMMA StepIInv == IInv /\ [Next]_vars => IInv'
<1> SUFFICES ASSUME IInv, [Next]_vars PROVE IInv'
  OBVIOUS
<1>1. CASE LoadTail \/ LoadHead \/ WriteSlot \/ StoreTail
  BY <1>1, LoadTailIInv, LoadHeadIInv, WriteSlotIInv, StoreTailIInv
<1>2. ASSUME NEW t \in Threads, Dequeue(t) PROVE IInv'
  BY <1>2, AtHeadIInv, ReadSlotIInv, StoreHeadIInv DEF Dequeue
<1>3. CASE Fill \/ Filled \/ HandleBatch \/ WorkerDrains \/ OwnerDrains
  BY <1>3, FillIInv, FilledIInv, HandleBatchIInv, WorkerDrainsIInv, OwnerDrainsIInv
<1>4. ASSUME UNCHANGED <<slot, head, tail, reader, batch, hand, sender, told, handled>>,
             TypeOK', ThreadsOK', DrainsOK'
      PROVE  IInv'
  BY <1>4 DEF IInv, RingOK, ReadersOK, SenderOK, BatchesOK, Taken
<1>5. CASE Loop
  <2>1. TypeOK' /\ ThreadsOK' /\ DrainsOK'
    BY <1>5 DEF Loop, ring, IInv, TypeOK, ThreadsOK, DrainsOK, Idle
  <2> QED
    BY <1>4, <1>5, <2>1 DEF Loop, ring
<1>6. CASE Start
  <2>1. starts' \in 0 .. MaxStarts
    BY <1>6, LockFreeAssumption DEF Start, IInv, TypeOK
  <2>2. TypeOK' /\ ThreadsOK' /\ DrainsOK'
    BY <1>6, <2>1 DEF Start, ring, IInv, TypeOK, ThreadsOK, DrainsOK, Idle
  <2> QED
    BY <1>4, <1>6, <2>2 DEF Start, ring
<1>7. CASE StopFlag
  <2>1. TypeOK' /\ ThreadsOK' /\ DrainsOK'
    BY <1>7 DEF StopFlag, ring, IInv, TypeOK, ThreadsOK, DrainsOK, Idle
  <2> QED
    BY <1>4, <1>7, <2>1 DEF StopFlag, ring
<1>8. CASE StopJoin
  <2>1. TypeOK' /\ ThreadsOK' /\ DrainsOK'
    BY <1>8 DEF StopJoin, ring, IInv, TypeOK, ThreadsOK, DrainsOK, Idle
  <2> QED
    BY <1>4, <1>8, <2>1 DEF StopJoin, ring
<1>9. CASE UNCHANGED vars
  <2>1. TypeOK' /\ ThreadsOK' /\ DrainsOK'
    BY <1>9 DEF vars, IInv, TypeOK, ThreadsOK, DrainsOK, Idle
  <2> QED
    BY <1>4, <1>9, <2>1 DEF vars
<1> QED
  BY <1>1, <1>2, <1>3, <1>5, <1>6, <1>7, <1>8, <1>9 DEF Next, Tell, RunLoop, Stop, Threads

(* The ring and the batches hold what was told, in order, and the two      *)
(* threads that drain exclude each other.                                  *)
THEOREM LockFreeIInv == Spec => []IInv
  BY InitIInv, StepIInv, PTL DEF Spec

(* Types, and the ring keeps every message in its slot until it is taken.  *)
THEOREM LockFreeRing == Spec => [](TypeOK /\ RingOK)
<1>1. IInv => TypeOK /\ RingOK
  BY DEF IInv
<1> QED
  BY <1>1, LockFreeIInv, PTL

-----------------------------------------------------------------------------
(* What the Mailbox sees does not change unless a message is told, begun   *)
(* or ended.                                                               *)
LEMMA SameBegun ==
  ASSUME UNCHANGED <<batch, hand, told>>, Taken' = Taken
  PROVE  UNCHANGED Promise!mailbox
  BY DEF Promise!mailbox, Begun, Waiting, Handling

(* A step of Handle is a Begin or an End.                                  *)
LEMMA HandleBeginsOrEnds ==
  ASSUME IInv, NEW t \in Threads, Handle(t), reader[t].at = "no",
         UNCHANGED <<ring, reader, sender, told>>
  PROVE  Promise!Next
<1>1. /\ batch \in [Threads -> Seq(Messages)]
      /\ hand \in [Threads -> Messages \cup {Nothing}]
      /\ Nothing \notin Messages
      /\ Taken' = Taken
      /\ head \in Nat /\ told \in Seq(Messages)
  BY HandleKeeps, LockFreeAssumption DEF IInv, TypeOK
<1>2. Taken \in Nat /\ Taken <= Len(told)
  <2>1. \A u \in Threads : reader[u].at = "read" => head + 1 <= tail
    BY <1>1 DEF IInv, ReadersOK, TypeOK
  <2> QED
    BY <1>1, <2>1 DEF Taken, IInv, RingOK
<1>3. batch[t] # << >> /\ Len(batch[t]) \in Nat \ {0} /\ Head(batch[t]) \in Messages
  BY <1>1 DEF Handle, IInv, BatchesOK
<1>4. Len(batch[t]) <= Taken /\ Head(batch[t]) = told[Taken - Len(batch[t]) + 1]
  BY <1>1, <1>3 DEF IInv, BatchesOK
<1>5. ASSUME NEW u \in Threads \ {t}
      PROVE  /\ hand[u] = Nothing /\ batch[u] = << >> /\ Waiting(u) = 0
             /\ hand'[u] = Nothing /\ batch'[u] = << >> /\ Waiting(u)' = 0
  <2>1. Idle(u)
    BY <1>3, Exclusive DEF Idle
  <2>2. batch'[u] = batch[u] /\ hand'[u] = hand[u]
    BY HandleKeeps
  <2> QED
    BY <2>1, <2>2 DEF Idle, Waiting
<1>6. ASSUME Waiting(t) \in Int, Waiting(t)' \in Int
      PROVE  Begun = Taken - Waiting(t) /\ Begun' = Taken - Waiting(t)'
  BY <1>1, <1>2, <1>5, <1>6 DEF Begun, Threads
<1>7. CASE hand[t] = Nothing
  <2>1. batch' = batch /\ hand'[t] = Head(batch[t])
    BY <1>1, <1>7 DEF Handle
  <2>2. hand'[t] # Nothing
    BY <1>1, <1>3, <2>1
  <2>3. Waiting(t) = Len(batch[t]) /\ Waiting(t)' = Len(batch[t]) - 1
    BY <1>3, <1>7, <2>1, <2>2 DEF Waiting
  <2>4. /\ Begun = Taken - Len(batch[t])
        /\ Begun' = Begun + 1
        /\ Begun < Len(told)
    <3>1. Begun = Taken - Len(batch[t]) /\ Begun' = Taken - (Len(batch[t]) - 1)
      BY <1>3, <1>6, <2>3
    <3> QED
      BY <1>2, <1>3, <1>4, <3>1
  <2>5. Handling = {}
    BY <1>5, <1>7 DEF Handling
  <2>6. Handling' = {told[Begun + 1]}
    BY <1>4, <1>5, <2>1, <2>2, <2>4 DEF Handling
  <2> QED
    BY <2>4, <2>5, <2>6 DEF Promise!Next, Promise!Begin
<1>8. CASE hand[t] # Nothing
  <2>1. hand'[t] = Nothing /\ batch'[t] = Tail(batch[t])
    BY <1>1, <1>8 DEF Handle
  <2>2. Len(batch'[t]) = Len(batch[t]) - 1
    BY <1>1, <1>3, <2>1
  <2>3. Waiting(t) = Len(batch[t]) - 1 /\ Waiting(t)' = Len(batch[t]) - 1
    BY <1>3, <1>8, <2>1, <2>2 DEF Waiting
  <2>4. Begun' = Begun
    BY <1>3, <1>6, <2>3
  <2>5. Handling # {}
    BY <1>8 DEF Handling
  <2>6. Handling' = {}
    BY <1>5, <2>1 DEF Handling
  <2> QED
    BY <2>4, <2>5, <2>6 DEF Promise!Next, Promise!End
<1> QED
  BY <1>7, <1>8

(* Dequeuing a message into a batch is nothing the Mailbox sees.           *)
LEMMA DequeueIsUnseen ==
  ASSUME IInv, NEW t \in Threads, Dequeue(t)
  PROVE  UNCHANGED Promise!mailbox
<1>1. CASE AtHead(t)
  BY <1>1, AtHeadIInv, SameBegun DEF AtHead
<1>2. CASE StoreHead(t)
  BY <1>2, StoreHeadIInv, SameBegun DEF StoreHead
<1>3. CASE ReadSlot(t)
  <2>1. /\ Taken' = Taken + 1
        /\ Len(batch'[t]) = Len(batch[t]) + 1
        /\ \A u \in Threads \ {t} : batch'[u] = batch[u]
    BY <1>3, ReadSlotIInv
  <2>2. hand' = hand /\ told' = told
    BY <1>3 DEF ReadSlot
  <2>3. Taken \in Int
    BY DEF Taken, IInv, TypeOK
  <2>4. \A u \in Threads : Len(batch[u]) \in Int
    BY DEF IInv, TypeOK
  <2>5. \A u \in Threads : Waiting(u) \in Int
    BY <2>4 DEF Waiting
  <2>6. Waiting(t)' = Waiting(t) + 1
    BY <2>1, <2>2, <2>4 DEF Waiting
  <2>7. \A u \in Threads \ {t} : Waiting(u)' = Waiting(u)
    BY <2>1, <2>2 DEF Waiting
  <2>8. Begun' = Begun
    BY <2>1, <2>3, <2>5, <2>6, <2>7 DEF Begun, Threads
  <2> QED
    BY <2>2, <2>8 DEF Promise!mailbox, Handling
<1> QED
  BY <1>1, <1>2, <1>3 DEF Dequeue

LEMMA DrainStepIsSeen ==
  ASSUME IInv, NEW t \in Threads, DrainStep(t), UNCHANGED <<ring, sender, told>>
  PROVE  [Promise!Next]_Promise!mailbox
<1>1. CASE Idle(t) /\ Dequeues(t, 1) /\ UNCHANGED <<batch, hand, handled>>
  BY <1>1, ReaderMoves, SameBegun DEF Dequeues
<1>2. CASE reader[t].at = "no" /\ Handle(t) /\ UNCHANGED reader
  BY <1>2, HandleBeginsOrEnds
<1> QED
  BY <1>1, <1>2 DEF DrainStep

(* The actor over the ring implements the Mailbox: StoreTail is its Tell,  *)
(* the call of a handler its Begin and the return its End.                 *)
THEOREM LockFreeOneAtATime == Spec => OneAtATime
<1>1. Init => Promise!Init
  <2> SUFFICES ASSUME Init PROVE Promise!Init
    OBVIOUS
  <2>1. Taken = 0 /\ Waiting("worker") = 0 /\ Waiting("owner") = 0
    BY DEF Init, Taken, Waiting, NotReading, Threads
  <2>2. Handling = {}
    BY DEF Init, Handling
  <2> QED
    BY <2>1, <2>2 DEF Init, Begun, Promise!Init
<1>2. IInv /\ [Next]_vars => [Promise!Next]_Promise!mailbox
  <2> SUFFICES ASSUME IInv, [Next]_vars PROVE [Promise!Next]_Promise!mailbox
    OBVIOUS
  <2>1. CASE LoadTail \/ LoadHead \/ WriteSlot
    <3>1. UNCHANGED <<head, reader, batch, hand, told>>
      BY <2>1 DEF LoadTail, LoadHead, WriteSlot, ring
    <3> QED
      BY <3>1, SameBegun DEF Taken
  <2>2. CASE StoreTail
    <3>1. /\ sender.next \in Messages
          /\ \A i \in 1 .. Len(told) : told[i] # sender.next
          /\ Taken' = Taken
      BY <2>2, StoreTailIInv
    <3>2. /\ told' = Append(told, sender.next)
          /\ UNCHANGED <<batch, hand>>
      BY <2>2 DEF StoreTail
    <3>3. told \in Seq(Messages)
      BY DEF IInv, TypeOK
    <3>4. sender.next \notin Promise!ToSet(told)
      BY <3>1, <3>3 DEF Promise!ToSet
    <3>5. Begun' = Begun /\ Handling' = Handling
      BY <3>1, <3>2 DEF Begun, Waiting, Handling
    <3> QED
      BY <3>1, <3>2, <3>4, <3>5 DEF Promise!Next, Promise!Tell
  <2>3. ASSUME NEW t \in Threads, Dequeue(t) PROVE UNCHANGED Promise!mailbox
    BY <2>3, DequeueIsUnseen
  <2>4. CASE Fill \/ Filled
    <3>1. PICK r \in {NotReading, [at |-> "head", head |-> head, tail |-> 0]} :
             /\ reader' = [reader EXCEPT !["worker"] = r]
             /\ reader["worker"].at # "read"
             /\ r.at = "no" \/ hand["worker"] = Nothing
             /\ UNCHANGED <<ring, batch, hand, sender, told>>
      BY <2>4 DEF Fill, Filled, Dequeues, NotReading
    <3>2. Taken' = Taken
      BY <3>1, ReaderMoves DEF Threads
    <3> QED
      BY <3>1, <3>2, SameBegun
  <2>5. CASE HandleBatch
    <3>1. reader["worker"].at = "no" /\ UNCHANGED <<ring, reader, sender, told>>
      BY <2>5 DEF HandleBatch, IInv, ThreadsOK
    <3>2. CASE Handle("worker")
      BY <3>1, <3>2, HandleBeginsOrEnds DEF Threads
    <3>3. CASE UNCHANGED <<batch, hand>>
      BY <3>1, <3>3, SameBegun DEF Taken, ring
    <3> QED
      BY <2>5, <3>2, <3>3 DEF HandleBatch
  <2>6. ASSUME NEW t \in Threads, reader[t].at = "empty",
               reader' = [reader EXCEPT ![t] = NotReading],
               UNCHANGED <<ring, batch, hand, sender, told>>
        PROVE  UNCHANGED Promise!mailbox
    <3>1. Taken' = Taken
      BY <2>6, ReaderMoves DEF NotReading
    <3> QED
      BY <2>6, <3>1, SameBegun
  <2>7. CASE WorkerDrains
    BY <2>6, <2>7, DrainStepIsSeen DEF WorkerDrains, Threads
  <2>8. CASE OwnerDrains
    BY <2>6, <2>8, DrainStepIsSeen DEF OwnerDrains, Threads
  <2>9. CASE Loop \/ Start \/ StopFlag \/ StopJoin \/ UNCHANGED vars
    <3>1. UNCHANGED <<head, reader, batch, hand, told>>
      BY <2>9 DEF Loop, Start, StopFlag, StopJoin, vars, ring
    <3> QED
      BY <3>1, SameBegun DEF Taken
  <2> QED
    BY <2>1, <2>2, <2>3, <2>4, <2>5, <2>7, <2>8, <2>9 DEF Next, Tell, RunLoop, Stop, Threads
<1> QED
  BY <1>1, <1>2, LockFreeIInv, PTL DEF Spec, OneAtATime, Promise!Spec

-----------------------------------------------------------------------------
(* The actor with a mutex.                                                 *)
CONSTANTS Senders, Askers, PerSender

VARIABLES mailbox, acked, missed

A == INSTANCE Actor

(* ActorAssumption of module Actor.                                        *)
ActorTypes ==
  /\ Askers \subseteq Senders
  /\ PerSender \in Nat /\ MaxStarts \in Nat
  /\ Nothing \notin A!Messages

(* The mailbox holds the last messages told, in order.                     *)
QueueOK ==
  /\ Len(mailbox) <= Len(told)
  /\ \A i \in 1 .. Len(mailbox) : mailbox[i] = told[A!Begun + i]

(* A sender that is not ready has pushed its message; none has pushed one  *)
(* that comes later.                                                       *)
SendersOK ==
  /\ \A s \in Senders : sender[s].at # "ready" => sender[s].next <= PerSender
  /\ \A i \in 1 .. Len(told) : \A s \in Senders :
       told[i][1] = s => \/ told[i][2] < sender[s].next
                         \/ told[i][2] = sender[s].next /\ sender[s].at # "ready"

(* Who handles a message: the owner only while it drains.                  *)
HandsOK ==
  /\ hand["owner"] # Nothing => owner = "draining"
  /\ \A t \in {"worker", "owner"} : hand[t] \in A!ToSet(told) \cup {Nothing}

(* The inductive invariant.                                                *)
ActorInv == A!TypeOK /\ QueueOK /\ SendersOK /\ HandsOK

-----------------------------------------------------------------------------
(* The first state.                                                       *)
LEMMA ActorInit ==
  ASSUME ActorTypes
  PROVE  A!Init => ActorInv
<1> SUFFICES ASSUME A!Init PROVE ActorInv
  OBVIOUS
<1>1. told = << >> /\ mailbox = << >>
  BY DEF A!Init
<1>2. sender \in [Senders -> [at: {"ready", "pushed", "asking"}, next: 1 .. PerSender + 1]]
  BY DEF ActorTypes, A!Init
<1>3. starts \in 0 .. MaxStarts
  BY DEF ActorTypes, A!Init
<1>4. mailbox \in Seq(A!Messages) /\ told \in Seq(A!Messages)
  BY <1>1
<1>5. hand \in [{"worker", "owner"} -> A!Messages \cup {Nothing}] /\ hand["worker"] = Nothing
  BY DEF A!Init
<1>6. A!TypeOK
  BY <1>2, <1>3, <1>4, <1>5 DEF A!Init, A!TypeOK
<1>7. QueueOK /\ SendersOK
  BY <1>1 DEF A!Init, QueueOK, SendersOK
<1>8. HandsOK
  BY DEF A!Init, HandsOK
<1> QED
  BY <1>6, <1>7, <1>8 DEF ActorInv

(* Taking the first message leaves the last ones told, in order.           *)
LEMMA TakeKeepsQueue ==
  ASSUME ActorTypes, A!TypeOK, QueueOK, mailbox # << >>, mailbox' = Tail(mailbox), told' = told
  PROVE  /\ QueueOK'
         /\ mailbox' \in Seq(A!Messages)
         /\ Head(mailbox) \in A!Messages
         /\ Head(mailbox) \in A!ToSet(told)
         /\ Head(mailbox) = told[A!Begun + 1]
         /\ A!Begun \in Nat
         /\ A!Begun < Len(told)
         /\ A!Begun' = A!Begun + 1
<1>1. mailbox \in Seq(A!Messages) /\ told \in Seq(A!Messages)
  BY DEF A!TypeOK
<1>2. /\ Len(mailbox) \in Nat \ {0}
      /\ Len(told) \in Nat
      /\ Len(mailbox) <= Len(told)
      /\ Head(mailbox) = mailbox[1]
      /\ Head(mailbox) \in A!Messages
  BY <1>1 DEF QueueOK
<1>3. /\ mailbox' \in Seq(A!Messages)
      /\ Len(mailbox') = Len(mailbox) - 1
      /\ \A i \in 1 .. Len(mailbox') : mailbox'[i] = mailbox[i + 1]
  BY <1>1
<1>4. /\ A!Begun \in Nat
      /\ A!Begun < Len(told)
      /\ A!Begun' = A!Begun + 1
  BY <1>2, <1>3 DEF A!Begun
<1>5. Head(mailbox) = told[A!Begun + 1]
  BY <1>2 DEF QueueOK
<1>6. Head(mailbox) \in A!ToSet(told)
  BY <1>1, <1>2, <1>4, <1>5 DEF A!ToSet
<1>7. ASSUME NEW i \in 1 .. Len(mailbox') PROVE mailbox'[i] = told[A!Begun' + i]
  <2>1. i + 1 \in 1 .. Len(mailbox)
    BY <1>2, <1>3
  <2>2. mailbox'[i] = told[A!Begun + (i + 1)]
    BY <1>3, <2>1 DEF QueueOK
  <2> QED
    BY <1>4, <2>2
<1>8. QueueOK'
  BY <1>2, <1>3, <1>7 DEF QueueOK
<1> QED
  BY <1>2, <1>3, <1>4, <1>5, <1>6, <1>8

(* A pushed message is a new one, and comes last.                          *)
LEMMA PushKeepsQueue ==
  ASSUME ActorTypes, ActorInv, NEW s \in Senders, A!Push(s)
  PROVE  /\ QueueOK'
         /\ mailbox' \in Seq(A!Messages)
         /\ told' \in Seq(A!Messages)
         /\ A!ToSet(told') = A!ToSet(told) \cup {A!Message(s)}
         /\ A!Message(s) \in A!Messages
         /\ A!Message(s) \notin A!ToSet(told)
         /\ A!Begun' = A!Begun
<1>1. mailbox \in Seq(A!Messages) /\ told \in Seq(A!Messages)
  BY DEF ActorInv, A!TypeOK
<1>2. A!Message(s) \in A!Messages
  BY DEF ActorTypes, ActorInv, A!TypeOK, A!Push, A!Message, A!Messages
<1>3. /\ mailbox' = Append(mailbox, A!Message(s))
      /\ told' = Append(told, A!Message(s))
  BY DEF A!Push
<1>4. /\ mailbox' \in Seq(A!Messages)
      /\ told' \in Seq(A!Messages)
      /\ Len(mailbox') = Len(mailbox) + 1
      /\ Len(told') = Len(told) + 1
      /\ \A i \in 1 .. Len(mailbox) : mailbox'[i] = mailbox[i]
      /\ mailbox'[Len(mailbox) + 1] = A!Message(s)
      /\ \A i \in 1 .. Len(told) : told'[i] = told[i]
      /\ told'[Len(told) + 1] = A!Message(s)
  BY <1>1, <1>2, <1>3
<1>5. Len(mailbox) \in Nat /\ Len(told) \in Nat /\ Len(mailbox) <= Len(told)
  BY <1>1 DEF ActorInv, QueueOK
<1>6. A!Begun' = A!Begun /\ A!Begun \in Nat /\ A!Begun + Len(mailbox) = Len(told)
  BY <1>4, <1>5 DEF A!Begun
<1>7. ASSUME NEW i \in 1 .. Len(mailbox') PROVE mailbox'[i] = told'[A!Begun' + i]
  <2>1. CASE i \in 1 .. Len(mailbox)
    <3>1. mailbox[i] = told[A!Begun + i]
      BY <2>1 DEF ActorInv, QueueOK
    <3>2. A!Begun + i \in 1 .. Len(told)
      BY <1>5, <1>6, <2>1
    <3> QED
      BY <1>4, <1>6, <2>1, <3>1, <3>2
  <2>2. CASE i = Len(mailbox) + 1
    <3>1. A!Begun' + i = Len(told) + 1
      BY <1>5, <1>6, <2>2
    <3> QED
      BY <1>4, <2>2, <3>1
  <2> QED
    BY <1>4, <1>5, <2>1, <2>2
<1>8. QueueOK'
  BY <1>4, <1>5, <1>7 DEF QueueOK
<1>9. A!Message(s) \notin A!ToSet(told)
  <2> SUFFICES ASSUME NEW i \in 1 .. Len(told), told[i] = A!Message(s) PROVE FALSE
    BY <1>1 DEF A!ToSet
  <2>1. told[i][1] = s /\ told[i][2] = sender[s].next
    BY DEF A!Message
  <2>2. sender[s].at = "ready" /\ sender[s].next \in Nat
    BY DEF ActorTypes, A!Push, ActorInv, A!TypeOK
  <2> QED
    BY <2>1, <2>2 DEF ActorInv, SendersOK
<1>10. A!ToSet(told') = A!ToSet(told) \cup {A!Message(s)}
  <2>1. DOMAIN told = 1 .. Len(told) /\ DOMAIN told' = 1 .. Len(told) + 1
    BY <1>1, <1>4, <1>5
  <2>2. 1 .. Len(told) + 1 = (1 .. Len(told)) \cup {Len(told) + 1}
    BY <1>5
  <2>3. A!ToSet(told') = {told'[i] : i \in 1 .. Len(told)} \cup {told'[Len(told) + 1]}
    BY <2>1, <2>2 DEF A!ToSet
  <2>4. {told'[i] : i \in 1 .. Len(told)} = {told[i] : i \in 1 .. Len(told)}
    BY <1>4
  <2> QED
    BY <1>4, <2>1, <2>3, <2>4 DEF A!ToSet
<1> QED
  BY <1>2, <1>4, <1>6, <1>8, <1>9, <1>10

(* Every step.                                                             *)
LEMMA ActorStep ==
  ASSUME ActorTypes
  PROVE  ActorInv /\ [A!Next]_A!vars => ActorInv'
<1> SUFFICES ASSUME ActorInv, [A!Next]_A!vars PROVE ActorInv'
  OBVIOUS
<1> USE DEF ActorInv
<1>1. CASE A!Start
  <2>1. starts' \in 0 .. MaxStarts
    BY <1>1 DEF ActorTypes, A!Start, A!TypeOK
  <2> QED
    BY <1>1, <2>1 DEF A!Start, A!TypeOK, QueueOK, A!Begun, SendersOK, HandsOK
<1>2. CASE A!StopFlag
  BY <1>2 DEF A!StopFlag, A!TypeOK, QueueOK, A!Begun, SendersOK, HandsOK
<1>3. CASE A!StopNotify
  BY <1>3 DEF A!StopNotify, A!Notify, A!TypeOK, QueueOK, A!Begun, SendersOK, HandsOK
<1>4. CASE A!StopJoin
  BY <1>4 DEF A!StopJoin, A!TypeOK, QueueOK, A!Begun, SendersOK, HandsOK
<1>5. CASE A!DrainTake
  <2>1. QueueOK' /\ mailbox' \in Seq(A!Messages) /\ Head(mailbox) \in A!Messages \cap A!ToSet(told)
    BY <1>5, TakeKeepsQueue DEF A!DrainTake
  <2> QED
    BY <1>5, <2>1 DEF A!DrainTake, A!TypeOK, SendersOK, HandsOK
<1>6. CASE A!DrainDone
  BY <1>6 DEF A!DrainDone, A!TypeOK, QueueOK, A!Begun, SendersOK, HandsOK
<1>7. CASE A!Drained
  BY <1>7 DEF A!Drained, A!TypeOK, QueueOK, A!Begun, SendersOK, HandsOK
<1>8. CASE A!Loop
  BY <1>8 DEF A!Loop, A!TypeOK, QueueOK, A!Begun, SendersOK, HandsOK
<1>9. CASE A!Evaluate
  <2>1. CASE mailbox = << >>
    BY <1>9, <2>1 DEF A!Evaluate, A!TypeOK, QueueOK, A!Begun, SendersOK, HandsOK
  <2>2. CASE mailbox # << >>
    <3>1. QueueOK' /\ mailbox' \in Seq(A!Messages) /\ Head(mailbox) \in A!Messages \cap A!ToSet(told)
      BY <1>9, <2>2, TakeKeepsQueue DEF A!Evaluate
    <3>2. Head(mailbox) # Nothing
      BY <3>1 DEF ActorTypes
    <3> QED
      BY <1>9, <2>2, <3>1, <3>2 DEF A!Evaluate, A!TypeOK, SendersOK, HandsOK
  <2> QED
    BY <2>1, <2>2
<1>10. CASE A!Park
  BY <1>10 DEF A!Park, A!TypeOK, QueueOK, A!Begun, SendersOK, HandsOK
<1>11. CASE A!SpuriousWakeup
  BY <1>11 DEF A!SpuriousWakeup, A!TypeOK, QueueOK, A!Begun, SendersOK, HandsOK
<1>12. CASE A!Handled
  BY <1>12 DEF A!Handled, A!TypeOK, QueueOK, A!Begun, SendersOK, HandsOK
<1>13. ASSUME NEW s \in Senders, A!Push(s) PROVE ActorInv'
  <2>1. /\ QueueOK'
        /\ mailbox' \in Seq(A!Messages)
        /\ told' \in Seq(A!Messages)
        /\ A!ToSet(told') = A!ToSet(told) \cup {A!Message(s)}
    BY <1>13, PushKeepsQueue
  <2>2. A!TypeOK'
    BY <1>13, <2>1 DEF A!Push, A!TypeOK
  <2>3. HandsOK'
    BY <1>13, <2>1 DEF A!Push, HandsOK
  <2>4. SendersOK'
    <3>1. /\ told' = Append(told, A!Message(s))
          /\ told \in Seq(A!Messages)
          /\ sender' = [sender EXCEPT ![s].at = "pushed"]
          /\ sender[s].next <= PerSender
          /\ \A t \in Senders : sender[t].next \in Nat
      BY <1>13 DEF ActorTypes, A!Push, A!TypeOK
    <3>2. /\ sender'[s].at = "pushed"
          /\ \A t \in Senders : sender'[t].next = sender[t].next
          /\ \A t \in Senders \ {s} : sender'[t].at = sender[t].at
      BY <3>1 DEF A!TypeOK
    <3>3. ASSUME NEW i \in 1 .. Len(told'), NEW t \in Senders, told'[i][1] = t
          PROVE  \/ told'[i][2] < sender'[t].next
                 \/ told'[i][2] = sender'[t].next /\ sender'[t].at # "ready"
      <4>1. CASE i = Len(told) + 1
        <5>1. told'[i] = A!Message(s)
          BY <3>1, <4>1
        <5> QED
          BY <3>2, <3>3, <5>1 DEF A!Message
      <4>2. CASE i \in 1 .. Len(told)
        <5>1. told'[i] = told[i]
          BY <3>1, <4>2
        <5> QED
          BY <3>2, <3>3, <4>2, <5>1 DEF SendersOK
      <4> QED
        BY <3>1, <4>1, <4>2
    <3> QED
      BY <3>1, <3>2, <3>3 DEF SendersOK
  <2> QED
    BY <2>1, <2>2, <2>3, <2>4
<1>14. ASSUME NEW s \in Senders, A!PushNotify(s) \/ A!Asked(s) PROVE ActorInv'
  <2>1. sender[s].at # "ready"
    BY <1>14 DEF A!PushNotify, A!Asked
  <2>2. sender[s].next \in Nat /\ sender[s].next <= PerSender /\ PerSender \in Nat
    BY <2>1 DEF ActorTypes, A!TypeOK, SendersOK
  <2>3. /\ sender' \in [Senders -> [at: {"ready", "pushed", "asking"}, next: 1 .. PerSender + 1]]
        /\ \A t \in Senders \ {s} : sender'[t] = sender[t]
        /\ \/ sender'[s].next = sender[s].next /\ sender'[s].at = "asking"
           \/ sender'[s].next = sender[s].next + 1 /\ sender'[s].at = "ready"
    <3>1. /\ sender \in [Senders -> [at: {"ready", "pushed", "asking"}, next: 1 .. PerSender + 1]]
          /\ sender[s].next + 1 \in 1 .. PerSender + 1
      BY <2>2 DEF A!TypeOK
    <3>2. \/ sender' = [sender EXCEPT ![s].at = "asking"]
          \/ sender' = [sender EXCEPT ![s] = [at |-> "ready", next |-> sender[s].next + 1]]
      BY <1>14, <3>1 DEF A!PushNotify, A!Asked
    <3>3. CASE sender' = [sender EXCEPT ![s].at = "asking"]
      BY <3>1, <3>3
    <3>4. CASE sender' = [sender EXCEPT ![s] = [at |-> "ready", next |-> sender[s].next + 1]]
      BY <3>1, <3>4
    <3> QED
      BY <3>2, <3>3, <3>4
  <2>4. A!TypeOK'
    BY <1>14, <2>3 DEF A!PushNotify, A!Asked, A!Notify, A!TypeOK
  <2>5. QueueOK' /\ HandsOK'
    BY <1>14 DEF A!PushNotify, A!Asked, QueueOK, A!Begun, HandsOK
  <2>6. told' = told
    BY <1>14 DEF A!PushNotify, A!Asked
  <2>7. SendersOK'
    <3>1. \A t \in Senders : sender'[t].at # "ready" => sender'[t].next <= PerSender
      BY <2>2, <2>3 DEF SendersOK
    <3>2. ASSUME NEW i \in 1 .. Len(told), NEW t \in Senders, told[i][1] = t
          PROVE  \/ told[i][2] < sender'[t].next
                 \/ told[i][2] = sender'[t].next /\ sender'[t].at # "ready"
      <4>1. CASE t = s
        <5>1. told[i] \in A!Messages
          BY DEF A!TypeOK
        <5>2. told[i][2] \in Nat
          BY <5>1 DEF ActorTypes, A!Messages
        <5>3. told[i][2] <= sender[s].next
          BY <2>2, <3>2, <4>1, <5>2 DEF SendersOK
        <5> QED
          BY <2>2, <2>3, <4>1, <5>2, <5>3
      <4>2. CASE t # s
        BY <2>3, <3>2, <4>2 DEF SendersOK
      <4> QED
        BY <4>1, <4>2
    <3> QED
      BY <2>6, <3>1, <3>2 DEF SendersOK
  <2> QED
    BY <2>4, <2>5, <2>7
<1>15. CASE UNCHANGED A!vars
  BY <1>15 DEF A!vars, A!TypeOK, QueueOK, A!Begun, SendersOK, HandsOK
<1> QED
  BY <1>1, <1>2, <1>3, <1>4, <1>5, <1>6, <1>7, <1>8, <1>9, <1>10, <1>11, <1>12,
     <1>13, <1>14, <1>15 DEF A!Next, A!Stop, A!Drain, A!RunLoop, A!Tell

(* The mailbox is the end of what was told, every sender's messages are    *)
(* told once, and only an owner that drains has a message in hand.         *)
THEOREM ActorIInv ==
  ASSUME ActorTypes
  PROVE  A!Spec => []ActorInv
<1>1. A!Init => ActorInv
  BY ActorInit
<1>2. ActorInv /\ [A!Next]_A!vars => ActorInv'
  BY ActorStep
<1> QED
  BY <1>1, <1>2, PTL DEF A!Spec

(* Types; the owner drains only when no worker runs, and what has been     *)
(* acknowledged was told.                                                  *)
THEOREM ActorTypeOK ==
  ASSUME ActorTypes
  PROVE  A!Spec => []A!TypeOK
<1>1. ActorInv => A!TypeOK
  BY DEF ActorInv
<1> QED
  BY <1>1, ActorIInv, PTL

(* Nobody is handling a message when another is taken.                     *)
LEMMA HandsAreFree ==
  ASSUME ActorTypes, ActorInv,
         \/ worker = "locking"
         \/ owner = "draining" /\ hand["owner"] = Nothing
  PROVE  A!Handling = {}
  BY DEF ActorInv, A!TypeOK, HandsOK, A!Handling

(* The message taken is the only one that is being handled.                *)
LEMMA TakenIsHandled ==
  ASSUME ActorTypes, ActorInv, NEW t \in {"worker", "owner"}, NEW m \in A!Messages, A!Handling = {},
         hand' = [hand EXCEPT ![t] = m]
  PROVE  A!Handling' = {m}
<1>1. \A u \in {"worker", "owner"} : hand[u] = Nothing
  BY DEF A!Handling
<1>2. m # Nothing
  BY DEF ActorTypes
<1>3. hand'[t] = m /\ \A u \in {"worker", "owner"} \ {t} : hand'[u] = Nothing
  BY <1>1 DEF ActorInv, A!TypeOK
<1> QED
  BY <1>2, <1>3 DEF A!Handling

(* With the only message in hand handled, none is being handled.           *)
LEMMA LastIsDone ==
  ASSUME ActorTypes, ActorInv, NEW t \in {"worker", "owner"}, hand[t] # Nothing,
         \A u \in {"worker", "owner"} \ {t} : hand[u] = Nothing,
         hand' = [hand EXCEPT ![t] = Nothing]
  PROVE  A!Handling # {} /\ A!Handling' = {}
<1>1. hand[t] \in A!Handling
  BY DEF A!Handling
<1>2. \A u \in {"worker", "owner"} : hand'[u] = Nothing
  BY DEF ActorInv, A!TypeOK
<1> QED
  BY <1>1, <1>2 DEF A!Handling

(* The actor implements the Mailbox: a Push is its Tell, taking a message  *)
(* from the mailbox its Begin, the return of a handler its End.            *)
THEOREM ActorOneAtATime ==
  ASSUME ActorTypes
  PROVE  A!Spec => A!OneAtATime
<1>1. A!Init => A!Promise!Init
  BY DEF A!Init, A!Promise!Init, A!Begun, A!Handling
<1>2. ActorInv /\ [A!Next]_A!vars => [A!Promise!Next]_A!Promise!mailbox
  <2> SUFFICES ASSUME ActorInv, [A!Next]_A!vars PROVE [A!Promise!Next]_A!Promise!mailbox
    OBVIOUS
  <2>1. ASSUME UNCHANGED <<told, mailbox, hand>> PROVE UNCHANGED A!Promise!mailbox
    BY <2>1 DEF A!Promise!mailbox, A!Begun, A!Handling
  <2>2. ASSUME NEW s \in Senders, A!Push(s) PROVE A!Promise!Next
    <3>1. /\ A!Message(s) \in A!Messages
          /\ A!Message(s) \notin A!ToSet(told)
          /\ A!Begun' = A!Begun
      BY <2>2, PushKeepsQueue
    <3>2. told' = Append(told, A!Message(s)) /\ hand' = hand
      BY <2>2 DEF A!Push
    <3>3. A!Handling' = A!Handling
      BY <3>2 DEF A!Handling
    <3> QED
      BY <3>1, <3>2, <3>3 DEF A!Promise!Next, A!Promise!Tell, A!Promise!ToSet, A!ToSet
  <2>3. ASSUME NEW t \in {"worker", "owner"}, A!Handling = {}, mailbox # << >>,
               hand' = [hand EXCEPT ![t] = Head(mailbox)],
               mailbox' = Tail(mailbox), told' = told
        PROVE  A!Promise!Next
    <3>1. /\ Head(mailbox) \in A!Messages
          /\ Head(mailbox) = told[A!Begun + 1]
          /\ A!Begun < Len(told)
          /\ A!Begun' = A!Begun + 1
      BY <2>3, TakeKeepsQueue DEF ActorInv
    <3>2. A!Handling' = {told[A!Begun + 1]}
      BY <2>3, <3>1, TakenIsHandled
    <3> QED
      BY <2>3, <3>1, <3>2 DEF A!Promise!Next, A!Promise!Begin
  <2>4. CASE A!DrainTake
    BY <2>3, <2>4, HandsAreFree DEF A!DrainTake
  <2>5. CASE A!Evaluate
    BY <2>1, <2>3, <2>5, HandsAreFree DEF A!Evaluate
  <2>6. CASE A!DrainDone
    <3>1. hand["worker"] = Nothing /\ hand["owner"] # Nothing
      BY <2>6 DEF A!DrainDone, ActorInv, A!TypeOK
    <3>2. A!Handling # {} /\ A!Handling' = {}
      BY <2>6, <3>1, LastIsDone DEF A!DrainDone
    <3> QED
      BY <2>6, <3>2 DEF A!DrainDone, A!Begun, A!Promise!Next, A!Promise!End
  <2>7. CASE A!Handled
    <3>1. hand["owner"] = Nothing /\ hand["worker"] # Nothing
      BY <2>7 DEF A!Handled, ActorInv, A!TypeOK, HandsOK
    <3>2. A!Handling # {} /\ A!Handling' = {}
      BY <2>7, <3>1, LastIsDone DEF A!Handled
    <3> QED
      BY <2>7, <3>2 DEF A!Handled, A!Begun, A!Promise!Next, A!Promise!End
  <2>8. CASE A!Start \/ A!StopFlag \/ A!StopNotify \/ A!StopJoin \/ A!Drained \/ A!Loop \/ A!Park \/ A!SpuriousWakeup
    BY <2>1, <2>8 DEF A!Start, A!StopFlag, A!StopNotify, A!StopJoin, A!Drained, A!Loop,
       A!Park, A!SpuriousWakeup
  <2>9. ASSUME NEW s \in Senders, A!PushNotify(s) \/ A!Asked(s) PROVE UNCHANGED A!Promise!mailbox
    BY <2>1, <2>9 DEF A!PushNotify, A!Asked
  <2>10. CASE UNCHANGED A!vars
    BY <2>1, <2>10 DEF A!vars
  <2> QED
    BY <2>2, <2>4, <2>5, <2>6, <2>7, <2>8, <2>9, <2>10 DEF A!Next, A!Stop, A!Drain,
       A!RunLoop, A!Tell
<1> QED
  BY <1>1, <1>2, ActorIInv, PTL DEF A!Spec, A!OneAtATime, A!Promise!Spec
=============================================================================
