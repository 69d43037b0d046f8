------------------------------- MODULE Mailbox ------------------------------
(***************************************************************************)
(* What an actor promises, whatever queue it has: it handles the messages  *)
(* it has been told in the order it was told them, each of them once, and  *)
(* one at a time.  Actor and LockFreeActor implement it.                   *)
(***************************************************************************)
EXTENDS Naturals, Sequences, SequencesExt

CONSTANT Messages

VARIABLES
  sent,      \* the messages told, in order
  begun,     \* how many of them an OnReceive has been called with
  handling   \* those an OnReceive is running with

mailbox == <<sent, begun, handling>>

Init == sent = << >> /\ begun = 0 /\ handling = {}

Tell(m) ==
  /\ m \notin ToSet(sent)
  /\ sent' = Append(sent, m)
  /\ UNCHANGED <<begun, handling>>

Begin ==
  /\ handling = {}
  /\ begun < Len(sent)
  /\ begun' = begun + 1
  /\ handling' = {sent[begun + 1]}
  /\ UNCHANGED sent

End ==
  /\ handling # {}
  /\ handling' = {}
  /\ UNCHANGED <<sent, begun>>

Next == (\E m \in Messages : Tell(m)) \/ Begin \/ End

Spec == Init /\ [][Next]_mailbox
=============================================================================
