---------------------------- MODULE LockFreeActor ---------------------------
(***************************************************************************)
(* class LockFreeActor (phase20) over the ring of concurrency/             *)
(* lockfree_queue.h.  head_ and tail_ are atomic and published with        *)
(* release, and each is written by one side only, so every load, store and *)
(* access of a slot is a step of its own and the steps interleave.  The    *)
(* queue is declared SPSCQueue, for one producer, so there is one sender   *)
(* here; one consumer at a time is what Stop has to see to, which drains   *)
(* the ring once more after the worker has.                                *)
(***************************************************************************)
EXTENDS Naturals, Sequences, SequencesExt

CONSTANTS
  Count,       \* bound: messages the sender tells
  Capacity,    \* slots of the ring
  Batch,       \* BATCH_SIZE
  MaxStarts,   \* bound: how often the actor is started
  Nothing

Messages == 1 .. Count

Threads == {"worker", "owner"}

ASSUME LockFreeAssumption ==
  /\ Count \in Nat /\ MaxStarts \in Nat
  /\ Capacity \in Nat \ {0} /\ Batch \in Nat \ {0}
  /\ Nothing \notin Messages

VARIABLES
  slot, head, tail,   \* buffer_, head_, tail_
  running,            \* running_
  worker, owner,      \* where RunLoop and Stop are
  reader,             \* where a dequeue is, of each thread that may drain
  batch,              \* what each of them has dequeued and not yet handled
  hand,               \* the message OnReceive has been called with, by whom
  sender,             \* where the enqueue is, and the message it has
  told,               \* history: the messages enqueued
  handled,            \* history: the messages handled
  starts              \* history: how often it has been started

vars == <<slot, head, tail, running, worker, owner, reader, batch, hand, sender,
          told, handled, starts>>

ring == <<slot, head, tail>>

NotReading == [at |-> "no", head |-> 0, tail |-> 0]

Init ==
  /\ slot = [i \in 0 .. Capacity - 1 |-> Nothing]
  /\ head = 0 /\ tail = 0
  /\ running = FALSE
  /\ worker = "none" /\ owner = "off"
  /\ reader = [t \in Threads |-> NotReading]
  /\ batch = [t \in Threads |-> << >>]
  /\ hand = [t \in Threads |-> Nothing]
  /\ sender = [at |-> "ready", next |-> 1, tail |-> 0]
  /\ told = << >> /\ handled = {}
  /\ starts = 0

-----------------------------------------------------------------------------
(* Tell ignores what enqueue returns: refused by a full ring, the message  *)
(* is gone.                                                                *)
LoadTail ==
  /\ sender.at = "ready"
  /\ sender.next \in Messages
  /\ sender' = [sender EXCEPT !.at = "loaded", !.tail = tail]
  /\ UNCHANGED <<ring, running, worker, owner, reader, batch, hand, told, handled, starts>>

(* Mutant of LoadHead: the comparison lets one message too many in.        *)
LoadHeadOffByOne ==
  /\ sender.at = "loaded"
  /\ sender' = IF sender.tail - head > Capacity
                 THEN [sender EXCEPT !.at = "ready", !.next = @ + 1]
                 ELSE [sender EXCEPT !.at = "writing"]
  /\ UNCHANGED <<ring, running, worker, owner, reader, batch, hand, told, handled, starts>>

LoadHead ==
  /\ sender.at = "loaded"
  /\ sender' = IF sender.tail - head >= Capacity
                 THEN [sender EXCEPT !.at = "ready", !.next = @ + 1]
                 ELSE [sender EXCEPT !.at = "writing"]
  /\ UNCHANGED <<ring, running, worker, owner, reader, batch, hand, told, handled, starts>>

WriteSlot ==
  /\ sender.at = "writing"
  /\ slot' = [slot EXCEPT ![sender.tail % Capacity] = sender.next]
  /\ sender' = [sender EXCEPT !.at = "written"]
  /\ UNCHANGED <<head, tail, running, worker, owner, reader, batch, hand, told, handled, starts>>

StoreTail ==
  /\ sender.at = "written"
  /\ tail' = sender.tail + 1
  /\ told' = Append(told, sender.next)
  /\ sender' = [sender EXCEPT !.at = "ready", !.next = @ + 1]
  /\ UNCHANGED <<slot, head, running, worker, owner, reader, batch, hand, handled, starts>>

Tell == LoadHead \/ WriteSlot \/ StoreTail

-----------------------------------------------------------------------------
(* dequeue, by thread t, which takes up to n messages before it handles    *)
(* them: RunLoop Batch, Drain one.                                         *)
Dequeues(t, n) ==
  /\ reader[t].at = "no"
  /\ hand[t] = Nothing
  /\ Len(batch[t]) < n
  /\ reader' = [reader EXCEPT ![t] = [at |-> "head", head |-> head, tail |-> 0]]

AtHead(t) ==
  /\ reader[t].at = "head"
  /\ reader' = [reader EXCEPT ![t].at = IF reader[t].head >= tail THEN "empty" ELSE "slot"]
  /\ UNCHANGED <<ring, running, worker, owner, batch, hand, sender, told, handled, starts>>

ReadSlot(t) ==
  /\ reader[t].at = "slot"
  /\ batch' = [batch EXCEPT ![t] = Append(@, slot[reader[t].head % Capacity])]
  /\ slot' = [slot EXCEPT ![reader[t].head % Capacity] = Nothing]
  /\ reader' = [reader EXCEPT ![t].at = "read"]
  /\ UNCHANGED <<head, tail, running, worker, owner, hand, sender, told, handled, starts>>

StoreHead(t) ==
  /\ reader[t].at = "read"
  /\ head' = reader[t].head + 1
  /\ reader' = [reader EXCEPT ![t] = NotReading]
  /\ UNCHANGED <<slot, tail, running, worker, owner, batch, hand, sender, told, handled, starts>>

Dequeue(t) == AtHead(t) \/ ReadSlot(t) \/ StoreHead(t)

(* OnReceive is called with the next message of the batch, and returns.    *)
Handle(t) ==
  \/ /\ hand[t] = Nothing
     /\ batch[t] # << >>
     /\ hand' = [hand EXCEPT ![t] = Head(batch[t])]
     /\ UNCHANGED <<batch, handled>>
  \/ /\ hand[t] # Nothing
     /\ hand' = [hand EXCEPT ![t] = Nothing]
     /\ handled' = handled \cup {hand[t]}
     /\ batch' = [batch EXCEPT ![t] = Tail(@)]

Idle(t) == batch[t] = << >> /\ hand[t] = Nothing

-----------------------------------------------------------------------------
(* while (running_)                                                        *)
Loop ==
  /\ worker = "loop"
  /\ worker' = IF running THEN "filling" ELSE "draining"
  /\ UNCHANGED <<ring, running, owner, reader, batch, hand, sender, told, handled, starts>>

(* The batch is filled until the ring is empty or the batch full.          *)
Fill ==
  /\ worker = "filling"
  /\ Dequeues("worker", Batch)
  /\ UNCHANGED <<ring, running, worker, owner, batch, hand, sender, told, handled, starts>>

(* Mutant of Filled: a stopped worker drops the batch it has filled.       *)
FilledUnlessStopped ==
  /\ worker = "filling"
  /\ \/ reader["worker"].at = "empty"
     \/ reader["worker"].at = "no" /\ Len(batch["worker"]) = Batch
  /\ reader' = [reader EXCEPT !["worker"] = NotReading]
  /\ batch' = IF running THEN batch ELSE [batch EXCEPT !["worker"] = << >>]
  /\ worker' = IF batch'["worker"] = << >> THEN "loop" ELSE "handling"
  /\ UNCHANGED <<ring, running, owner, hand, sender, told, handled, starts>>

Filled ==
  /\ worker = "filling"
  /\ \/ reader["worker"].at = "empty"
     \/ reader["worker"].at = "no" /\ Len(batch["worker"]) = Batch
  /\ reader' = [reader EXCEPT !["worker"] = NotReading]
  /\ worker' = IF batch["worker"] = << >> THEN "loop" ELSE "handling"
  /\ UNCHANGED <<ring, running, owner, batch, hand, sender, told, handled, starts>>

HandleBatch ==
  /\ worker = "handling"
  /\ IF Idle("worker") THEN worker' = "loop" /\ UNCHANGED <<batch, hand, handled>>
                       ELSE Handle("worker") /\ UNCHANGED worker
  /\ UNCHANGED <<ring, running, owner, reader, sender, told, starts>>

(* Drain, of the worker and then of the owner: pc is where they are.       *)
DrainStep(t) ==
  \/ /\ Idle(t)
     /\ Dequeues(t, 1)
     /\ UNCHANGED <<batch, hand, handled>>
  \/ /\ reader[t].at = "no"
     /\ Handle(t)
     /\ UNCHANGED reader

WorkerDrains ==
  /\ worker = "draining"
  /\ \/ DrainStep("worker") /\ UNCHANGED worker
     \/ /\ reader["worker"].at = "empty"
        /\ reader' = [reader EXCEPT !["worker"] = NotReading]
        /\ worker' = "done"
        /\ UNCHANGED <<batch, hand, handled>>
  /\ UNCHANGED <<ring, running, owner, sender, told, starts>>

Start ==
  /\ owner = "off"
  /\ worker \in {"none", "done"}
  /\ starts < MaxStarts
  /\ running' = TRUE
  /\ worker' = "loop" /\ owner' = "on"
  /\ starts' = starts + 1
  /\ UNCHANGED <<ring, reader, batch, hand, sender, told, handled>>

StopFlag ==
  /\ owner \in {"on", "off"}
  /\ running' = FALSE
  /\ owner' = "joining"
  /\ UNCHANGED <<ring, worker, reader, batch, hand, sender, told, handled, starts>>

StopJoin ==
  /\ owner = "joining"
  /\ worker \in {"none", "done"}
  /\ owner' = "draining"
  /\ UNCHANGED <<ring, running, worker, reader, batch, hand, sender, told, handled, starts>>

OwnerDrains ==
  /\ owner = "draining"
  /\ \/ DrainStep("owner") /\ UNCHANGED owner
     \/ /\ reader["owner"].at = "empty"
        /\ reader' = [reader EXCEPT !["owner"] = NotReading]
        /\ owner' = "off"
        /\ UNCHANGED <<batch, hand, handled>>
  /\ UNCHANGED <<ring, running, worker, sender, told, starts>>

RunLoop == Loop \/ Fill \/ Filled \/ HandleBatch \/ WorkerDrains \/ Dequeue("worker")

Stop == StopJoin \/ OwnerDrains \/ Dequeue("owner")

Next == LoadTail \/ Tell \/ RunLoop \/ Start \/ StopFlag \/ Stop

Spec == Init /\ [][Next]_vars

(* Threads that can run do; nobody has to start, stop or tell anything.    *)
FairSpec == Spec /\ WF_vars(RunLoop) /\ WF_vars(Stop) /\ WF_vars(Tell)

-----------------------------------------------------------------------------
Places == {"no", "head", "empty", "slot", "read"}

TypeOK ==
  /\ slot \in [0 .. Capacity - 1 -> Messages \cup {Nothing}]
  /\ head \in Nat /\ tail \in Nat
  /\ running \in BOOLEAN
  /\ worker \in {"none", "loop", "filling", "handling", "draining", "done"}
  /\ owner \in {"off", "on", "joining", "draining"}
  /\ reader \in [Threads -> [at: Places, head: Nat, tail: Nat]]
  /\ batch \in [Threads -> Seq(Messages)]
  /\ hand \in [Threads -> Messages \cup {Nothing}]
  /\ sender \in [at: {"ready", "loaded", "writing", "written"}, next: 1 .. Count + 1, tail: Nat]
  /\ told \in Seq(Messages)
  /\ handled \subseteq Messages
  /\ starts \in 0 .. MaxStarts

(* The ring holds the messages told and not yet dequeued, in order, each   *)
(* in its slot, and the indices are never further apart than there are     *)
(* slots, although both sides move them while the other one looks.         *)
RingOK ==
  /\ tail = Len(told)
  /\ head <= tail /\ tail - head <= Capacity
  /\ \A i \in head .. tail - 1 :
       \/ slot[i % Capacity] = told[i + 1]
       \/ i = head /\ \E t \in Threads : reader[t].at = "read"

(* Of the messages told, those dequeued, and those a handler has begun.    *)
Taken == IF \E t \in Threads : reader[t].at = "read" THEN head + 1 ELSE head

Waiting(t) == Len(batch[t]) - (IF hand[t] = Nothing THEN 0 ELSE 1)

Begun == Taken - Waiting("worker") - Waiting("owner")

Handling == {hand[t] : t \in Threads} \ {Nothing}

Promise == INSTANCE Mailbox WITH sent <- told, begun <- Begun, handling <- Handling

(* Handlers run one at a time and in the order of the enqueues, although   *)
(* messages are dequeued in batches and two threads drain the ring.        *)
OneAtATime == Promise!Spec

(* What has been enqueued for an actor that runs is handled in the end,    *)
(* even if it is stopped meanwhile.                                        *)
ToldIsHandled == \A m \in Messages : running /\ m \in ToSet(told) ~> m \in handled
=============================================================================
