----------------------------- MODULE AsyncWriter ----------------------------
(***************************************************************************)
(* class AsyncWriter (phase14 persistence/async_writer.h), which AsyncDb-  *)
(* Writer puts in front of the hand and statistics tables: a queue of      *)
(* write tasks, a worker that runs them in batches, a Stop that runs what  *)
(* is left, and FlushNow, which any thread may call.                       *)
(*                                                                         *)
(* A step is what a thread does under the queue's mutex, or the running of *)
(* one task.  The worker's wait ends after max_delay_ms_ whatever happens, *)
(* so a notification that is missed costs time only, and notifications are *)
(* left out.                                                               *)
(***************************************************************************)
EXTENDS Naturals, Sequences, FiniteSets, SequencesExt

CONSTANTS
  Count,       \* bound: tasks enqueued
  Threshold,   \* batch_threshold_
  MaxStarts,   \* bound: how often the writer is started
  MaxFlushes   \* bound: calls of FlushNow from outside

ASSUME WriterAssumption == {Count, Threshold, MaxStarts, MaxFlushes} \subseteq Nat

Writers == {"worker", "owner", "caller"}

VARIABLES
  queue,     \* task_queue_
  running, flush_pending,
  worker, owner, caller,   \* where WorkerLoop, Stop and a FlushNow are
  local,     \* local_queue of the threads
  done,      \* history: the tasks run, in order
  added,     \* history: how many tasks have been enqueued
  before,    \* history: how many of them when the last Stop began
  starts, flushes   \* history: calls of Start and FlushNow

vars == <<queue, running, flush_pending, worker, owner, caller, local, done, added,
          before, starts, flushes>>

Init ==
  /\ queue = << >>
  /\ running = FALSE /\ flush_pending = FALSE
  /\ worker = "none" /\ owner = "off" /\ caller = "out"
  /\ local = [t \in Writers |-> << >>]
  /\ done = << >>
  /\ added = 0 /\ before = 0
  /\ starts = 0 /\ flushes = 0

-----------------------------------------------------------------------------
(* Enqueue, by SaveHandAsync, UpdatePlayerStatsAsync or LogActionsAsync,   *)
(* whether the writer runs or not.                                         *)
Enqueue ==
  /\ added < Count
  /\ added' = added + 1
  /\ queue' = Append(queue, added + 1)
  /\ UNCHANGED <<running, flush_pending, worker, owner, caller, local, done, before,
                 starts, flushes>>

(* The tasks are taken out of the queue together.                          *)
Take(t) == queue' = << >> /\ local' = [local EXCEPT ![t] = queue]

(* A task of thread t runs.  What it throws is caught.                     *)
Run(t) ==
  /\ local[t] # << >>
  /\ done' = Append(done, Head(local[t]))
  /\ local' = [local EXCEPT ![t] = Tail(@)]
  /\ UNCHANGED <<queue, running, flush_pending, worker, owner, caller, added, before,
                 starts, flushes>>

Start ==
  /\ owner = "off"
  /\ starts < MaxStarts
  /\ running' = TRUE
  /\ flush_pending' = FALSE
  /\ worker' = "loop" /\ owner' = "on"
  /\ starts' = starts + 1
  /\ UNCHANGED <<queue, caller, local, done, added, before, flushes>>

(* Mutant of StopFlag: running_ stays set.                                 *)
StopFlagStays ==
  /\ owner = "on"
  /\ owner' = "stopping"
  /\ before' = added
  /\ UNCHANGED <<queue, running, flush_pending, worker, caller, local, done, added, starts,
                 flushes>>

StopFlag ==
  /\ owner = "on"
  /\ running' = FALSE
  /\ owner' = "stopping"
  /\ before' = added
  /\ UNCHANGED <<queue, flush_pending, worker, caller, local, done, added, starts, flushes>>

StopFlush ==
  /\ owner = "stopping"
  /\ flush_pending' = TRUE
  /\ owner' = "joining"
  /\ UNCHANGED <<queue, running, worker, caller, local, done, added, before, starts, flushes>>

(* Mutant of StopJoin: the thread is not waited for.                       *)
StopDetach ==
  /\ owner = "joining"
  /\ owner' = "flushing"
  /\ Take("owner")
  /\ UNCHANGED <<running, flush_pending, worker, caller, done, added, before, starts, flushes>>

(* The thread has ended: FlushNow.                                         *)
StopJoin ==
  /\ owner = "joining"
  /\ worker = "done"
  /\ owner' = "flushing"
  /\ Take("owner")
  /\ UNCHANGED <<running, flush_pending, worker, caller, done, added, before, starts, flushes>>

Stopped ==
  /\ owner = "flushing"
  /\ local["owner"] = << >>
  /\ owner' = "off"
  /\ UNCHANGED <<queue, running, flush_pending, worker, caller, local, done, added, before,
                 starts, flushes>>

-----------------------------------------------------------------------------
(* while (running_)                                                        *)
Loop ==
  /\ worker = "loop"
  /\ worker' = IF running THEN "waiting" ELSE "leaving"
  /\ UNCHANGED <<queue, running, flush_pending, owner, caller, local, done, added, before,
                 starts, flushes>>

(* Mutant of Due: the size of the queue is not looked at.                  *)
DueAtStopOnly == (~running /\ queue # << >>) \/ flush_pending

(* The delay is no reason to write: below the threshold, a task waits for  *)
(* others or for Stop.                                                     *)
Due == Len(queue) >= Threshold \/ (~running /\ queue # << >>) \/ flush_pending

(* The wait is over, notified or not, and the worker has the mutex.        *)
Wake ==
  /\ worker = "waiting"
  /\ \/ /\ ~running /\ queue = << >>
        /\ worker' = "leaving"
        /\ UNCHANGED <<queue, flush_pending, local>>
     \/ /\ running \/ queue # << >>
        /\ Due
        /\ worker' = "writing"
        /\ flush_pending' = FALSE
        /\ Take("worker")
     \/ /\ running \/ queue # << >>
        /\ ~Due
        /\ worker' = "loop"
        /\ UNCHANGED <<queue, flush_pending, local>>
  /\ UNCHANGED <<running, owner, caller, done, added, before, starts, flushes>>

(* Mutant of Written: what a batch left is dropped when the writer stops.  *)
WrittenOrStopped ==
  /\ worker = "writing"
  /\ local["worker"] = << >> \/ ~running
  /\ local' = [local EXCEPT !["worker"] = << >>]
  /\ worker' = "loop"
  /\ UNCHANGED <<queue, running, flush_pending, owner, caller, done, added, before,
                 starts, flushes>>

Written ==
  /\ worker = "writing"
  /\ local["worker"] = << >>
  /\ worker' = "loop"
  /\ UNCHANGED <<queue, running, flush_pending, owner, caller, local, done, added, before,
                 starts, flushes>>

(* The worker's last FlushNow.                                             *)
Leave ==
  /\ worker = "leaving"
  /\ worker' = "flushing"
  /\ Take("worker")
  /\ UNCHANGED <<running, flush_pending, owner, caller, done, added, before, starts, flushes>>

Left ==
  /\ worker = "flushing"
  /\ local["worker"] = << >>
  /\ worker' = "done"
  /\ UNCHANGED <<queue, running, flush_pending, owner, caller, local, done, added, before,
                 starts, flushes>>

-----------------------------------------------------------------------------
FlushNow ==
  /\ caller = "out"
  /\ flushes < MaxFlushes
  /\ caller' = "flushing"
  /\ flushes' = flushes + 1
  /\ Take("caller")
  /\ UNCHANGED <<running, flush_pending, worker, owner, done, added, before, starts>>

Flushed ==
  /\ caller = "flushing"
  /\ local["caller"] = << >>
  /\ caller' = "out"
  /\ UNCHANGED <<queue, running, flush_pending, worker, owner, local, done, added, before,
                 starts, flushes>>

WorkerLoop == Loop \/ Wake \/ Run("worker") \/ Written \/ Leave \/ Left

Stop == StopFlush \/ StopJoin \/ Run("owner") \/ Stopped

Caller == Run("caller") \/ Flushed

Next == Enqueue \/ Start \/ StopFlag \/ Stop \/ WorkerLoop \/ FlushNow \/ Caller

Spec == Init /\ [][Next]_vars

(* Threads that can run do, and the worker's wait ends.  Nobody has to     *)
(* start, stop, flush or enqueue anything.                                 *)
FairSpec == Spec /\ WF_vars(WorkerLoop) /\ WF_vars(Stop) /\ WF_vars(Caller)

-----------------------------------------------------------------------------
TypeOK ==
  /\ running \in BOOLEAN /\ flush_pending \in BOOLEAN
  /\ worker \in {"none", "loop", "waiting", "writing", "leaving", "flushing", "done"}
  /\ owner \in {"off", "on", "stopping", "joining", "flushing"}
  /\ caller \in {"out", "flushing"}
  /\ before <= added
  /\ starts <= MaxStarts /\ flushes <= MaxFlushes
  /\ local["worker"] # << >> => worker \in {"writing", "flushing"}
  /\ running <=> owner = "on"

(* The queue, the batches under way and what has been written, one after   *)
(* the other.                                                              *)
Everywhere == done \o local["worker"] \o local["owner"] \o local["caller"] \o queue

(* Every task enqueued is in one place, once: waiting, in the batch of one *)
(* thread, or written, whoever swaps the queue out meanwhile.              *)
Kept == Len(Everywhere) = added /\ ToSet(Everywhere) = 1 .. added

(* Tasks are written in the order they were enqueued (a hand before its    *)
(* statistics), across batches, Stop and a second Start, unless somebody   *)
(* calls FlushNow while another batch is being written, and none is lost   *)
(* or written twice even then (Kept).                                      *)
InOrder ==
  /\ TypeOK /\ Kept
  /\ flushes = 0 => \A i, j \in DOMAIN done : i < j => done[i] < done[j]

(* When Stop returns, all that was enqueued before it was called has been  *)
(* written, but for what a FlushNow still has in its hands.                *)
StopWrites ==
  [][owner # "off" /\ owner' = "off" =>
       1 .. before \subseteq ToSet(done) \cup ToSet(local["caller"])]_vars

(* Stop returns.                                                           *)
StopReturns == owner = "joining" ~> owner = "off"

(* A queue that has reached the threshold is written.                      *)
FullQueueWritten ==
  \A n \in 1 .. Count :
    running /\ added = n /\ Len(queue) >= Threshold ~> 1 .. n \subseteq ToSet(done)
=============================================================================
