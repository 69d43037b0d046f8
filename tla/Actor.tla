-------------------------------- MODULE Actor -------------------------------
(***************************************************************************)
(* class Actor (phase13 concurrency/actor.h): a thread with a mailbox, a   *)
(* mutex and a condition variable.  Senders call Tell, or Ask, which waits *)
(* until the message has been handled; its owner starts and stops it.      *)
(*                                                                         *)
(* A step is what a thread does between two points where another one can   *)
(* come in.  Stop takes the mutex neither for running_ nor to notify: it   *)
(* can come between the predicate of the wait and the wait itself, when    *)
(* the worker ("parking") holds the mutex.  Drain takes no mutex either; a *)
(* Tell at the same time is a data race on the queue and is left out.      *)
(***************************************************************************)
EXTENDS Naturals, Sequences, FiniteSets, SequencesExt

CONSTANTS
  Senders,
  Askers,       \* the senders that Ask
  PerSender,    \* bound: messages of every sender
  MaxStarts,    \* bound: how often the actor is started
  Nothing

Messages == Senders \X (1 .. PerSender)

ASSUME ActorAssumption ==
  /\ Askers \subseteq Senders
  /\ PerSender \in Nat /\ MaxStarts \in Nat
  /\ Nothing \notin Messages

VARIABLES
  mailbox,   \* mailbox_
  running,   \* running_
  worker,    \* where RunLoop is
  owner,     \* where Stop is
  hand,      \* the message OnReceive has been called with, by whom
  sender,    \* where Tell and Ask are
  acked,     \* messages whose promise has been set
  told,      \* history: the messages pushed
  starts,    \* history: how often it has been started
  missed     \* history: Stop notified a worker that was about to wait

vars == <<mailbox, running, worker, owner, hand, sender, acked, told, starts, missed>>

Init ==
  /\ mailbox = << >>
  /\ running = FALSE
  /\ worker = "none"
  /\ owner = "off"
  /\ hand = [t \in {"worker", "owner"} |-> Nothing]
  /\ sender = [s \in Senders |-> [at |-> "ready", next |-> 1]]
  /\ acked = {}
  /\ told = << >>
  /\ starts = 0
  /\ missed = FALSE

-----------------------------------------------------------------------------
(* notify_one and notify_all are the same: nobody but the worker waits.    *)
Notify == worker' = IF worker = "parked" THEN "locking" ELSE worker

Start ==
  /\ owner = "off"
  /\ worker \in {"none", "done"}
  /\ starts < MaxStarts
  /\ running' = TRUE
  /\ worker' = "loop"
  /\ owner' = "on"
  /\ starts' = starts + 1
  /\ UNCHANGED <<mailbox, hand, sender, acked, told, missed>>

(* Stop, of an actor that was started or not (the destructor).             *)
StopFlag ==
  /\ owner \in {"on", "off"}
  /\ running' = FALSE
  /\ owner' = "notifying"
  /\ UNCHANGED <<mailbox, worker, hand, sender, acked, told, starts, missed>>

(* Mutant of StopNotify: nobody is notified.                               *)
StopSilently ==
  /\ owner = "notifying"
  /\ owner' = "joining"
  /\ missed' = (worker = "parking")
  /\ UNCHANGED <<mailbox, running, worker, hand, sender, acked, told, starts>>

StopNotify ==
  /\ owner = "notifying"
  /\ Notify
  /\ missed' = (worker = "parking")
  /\ owner' = "joining"
  /\ UNCHANGED <<mailbox, running, hand, sender, acked, told, starts>>

(* Mutant of StopJoin: the thread is not waited for.                       *)
StopDetach ==
  /\ owner = "joining"
  /\ owner' = "draining"
  /\ UNCHANGED <<mailbox, running, worker, hand, sender, acked, told, starts, missed>>

StopJoin ==
  /\ owner = "joining"
  /\ worker \in {"none", "done"}
  /\ owner' = "draining"
  /\ UNCHANGED <<mailbox, running, worker, hand, sender, acked, told, starts, missed>>

(* Drain: the messages left are handled by the thread that stops.          *)
DrainTake ==
  /\ owner = "draining"
  /\ hand["owner"] = Nothing
  /\ mailbox # << >>
  /\ hand' = [hand EXCEPT !["owner"] = Head(mailbox)]
  /\ mailbox' = Tail(mailbox)
  /\ UNCHANGED <<running, worker, owner, sender, acked, told, starts, missed>>

DrainDone ==
  /\ owner = "draining"
  /\ hand["owner"] # Nothing
  /\ acked' = acked \cup {hand["owner"]}
  /\ hand' = [hand EXCEPT !["owner"] = Nothing]
  /\ UNCHANGED <<mailbox, running, worker, owner, sender, told, starts, missed>>

Drained ==
  /\ owner = "draining"
  /\ hand["owner"] = Nothing
  /\ mailbox = << >>
  /\ owner' = "off"
  /\ UNCHANGED <<mailbox, running, worker, hand, sender, acked, told, starts, missed>>

-----------------------------------------------------------------------------
(* while (running_)                                                        *)
Loop ==
  /\ worker = "loop"
  /\ worker' = IF running THEN "locking" ELSE "done"
  /\ UNCHANGED <<mailbox, running, owner, hand, sender, acked, told, starts, missed>>

(* With the mutex: the predicate of the wait, and what follows it.         *)
Evaluate ==
  /\ worker = "locking"
  /\ IF mailbox # << >>
       THEN /\ hand' = [hand EXCEPT !["worker"] = Head(mailbox)]
            /\ mailbox' = Tail(mailbox)
            /\ worker' = "handling"
       ELSE /\ worker' = IF running THEN "parking" ELSE "done"
            /\ UNCHANGED <<mailbox, hand>>
  /\ UNCHANGED <<running, owner, sender, acked, told, starts, missed>>

(* The wait: the mutex is released and the worker sleeps, in one step.     *)
Park ==
  /\ worker = "parking"
  /\ worker' = "parked"
  /\ UNCHANGED <<mailbox, running, owner, hand, sender, acked, told, starts, missed>>

SpuriousWakeup ==
  /\ worker = "parked"
  /\ worker' = "locking"
  /\ UNCHANGED <<mailbox, running, owner, hand, sender, acked, told, starts, missed>>

(* OnReceive has returned, or has thrown, and the promise is set.          *)
Handled ==
  /\ worker = "handling"
  /\ acked' = acked \cup {hand["worker"]}
  /\ hand' = [hand EXCEPT !["worker"] = Nothing]
  /\ worker' = "loop"
  /\ UNCHANGED <<mailbox, running, owner, sender, told, starts, missed>>

-----------------------------------------------------------------------------
Message(s) == <<s, sender[s].next>>

(* Tell, under the mutex.                                                  *)
Push(s) ==
  /\ sender[s].at = "ready"
  /\ sender[s].next <= PerSender
  /\ worker # "parking"
  /\ owner # "draining"
  /\ mailbox' = Append(mailbox, Message(s))
  /\ told' = Append(told, Message(s))
  /\ sender' = [sender EXCEPT ![s].at = "pushed"]
  /\ UNCHANGED <<running, worker, owner, hand, acked, starts, missed>>

(* Mutant of PushNotify: the worker is not notified.                       *)
PushSilently(s) ==
  /\ sender[s].at = "pushed"
  /\ sender' = [sender EXCEPT ![s] = IF s \in Askers THEN [@ EXCEPT !.at = "asking"]
                                     ELSE [at |-> "ready", next |-> @.next + 1]]
  /\ UNCHANGED <<mailbox, running, worker, owner, hand, acked, told, starts, missed>>

PushNotify(s) ==
  /\ sender[s].at = "pushed"
  /\ Notify
  /\ sender' = [sender EXCEPT ![s] = IF s \in Askers THEN [@ EXCEPT !.at = "asking"]
                                     ELSE [at |-> "ready", next |-> @.next + 1]]
  /\ UNCHANGED <<mailbox, running, owner, hand, acked, told, starts, missed>>

(* Ask returns.                                                            *)
Asked(s) ==
  /\ sender[s].at = "asking"
  /\ Message(s) \in acked
  /\ sender' = [sender EXCEPT ![s] = [at |-> "ready", next |-> @.next + 1]]
  /\ UNCHANGED <<mailbox, running, worker, owner, hand, acked, told, starts, missed>>

RunLoop == Loop \/ Evaluate \/ Park \/ Handled

Drain == DrainTake \/ DrainDone \/ Drained

Stop == StopNotify \/ StopJoin \/ Drain

Tell(s) == PushNotify(s) \/ Asked(s)

Next == \/ Start \/ StopFlag \/ Stop
        \/ RunLoop \/ SpuriousWakeup
        \/ \E s \in Senders : Push(s) \/ Tell(s)

Spec == Init /\ [][Next]_vars

(* Threads that can run do: the worker, a Stop and a Tell that have begun. *)
(* Nobody has to start, stop or tell anything, and no wait has to be woken *)
(* without a reason.                                                       *)
FairSpec == /\ Spec
            /\ WF_vars(RunLoop) /\ WF_vars(Stop)
            /\ \A s \in Senders : WF_vars(Tell(s))

-----------------------------------------------------------------------------
TypeOK ==
  /\ mailbox \in Seq(Messages)
  /\ running \in BOOLEAN
  /\ worker \in {"none", "loop", "locking", "parking", "parked", "handling", "done"}
  /\ owner \in {"off", "on", "notifying", "joining", "draining"}
  /\ hand \in [{"worker", "owner"} -> Messages \cup {Nothing}]
  /\ sender \in [Senders -> [at: {"ready", "pushed", "asking"}, next: 1 .. PerSender + 1]]
  /\ acked \subseteq Messages
  /\ told \in Seq(Messages)
  /\ starts \in 0 .. MaxStarts
  /\ missed \in BOOLEAN
  /\ worker = "handling" <=> hand["worker"] # Nothing
  /\ owner = "draining" => worker \in {"none", "done"}
  /\ acked \subseteq ToSet(told)

Begun == Len(told) - Len(mailbox)

Handling == {hand[t] : t \in {"worker", "owner"}} \ {Nothing}

Promise == INSTANCE Mailbox WITH sent <- told, begun <- Begun, handling <- Handling

(* Handlers run one at a time and in the order of the Tells, although two  *)
(* threads may call them: the worker and, after it, the one that stops the *)
(* actor.                                                                  *)
OneAtATime == Promise!Spec

(* What has been told to an actor that runs is handled in the end, and its *)
(* Ask returns, even if it is stopped meanwhile, before the message is     *)
(* taken or while its worker is handling another one.                      *)
ToldIsHandled ==
  \A m \in Messages : running /\ m \in ToSet(told) ~> m \in acked

(* Stop returns, unless its notification came between the predicate and    *)
(* the wait: then nothing but a message or a spurious wake-up ends it.     *)
StopReturns == owner = "joining" ~> owner # "joining" \/ missed
=============================================================================
