------------------------------- MODULE Wallet -------------------------------
(***************************************************************************)
(* What the ledger promises its callers: every account has one balance,    *)
(* and an amount is moved in or out of it at once, in some order, whatever *)
(* the number of processes on the database.  A call that fails leaves the  *)
(* balance as it was.                                                      *)
(*                                                                         *)
(* Opening, replacing, dropping and deleting accounts happens in the same  *)
(* order; several of these calls, and one move after them, can take effect *)
(* together, when a transaction that was left open is committed.           *)
(***************************************************************************)
EXTENDS Integers

CONSTANTS Players, Amounts, OpeningChips, MaxChips

VARIABLES
  account,   \* status and chips of every id
  handed     \* how often an id was handed out: 0, 1, or 2 for more than once

NoAccount  == [status |-> "none", chips |-> 0]
NewAccount == [status |-> "live", chips |-> OpeningChips]
Deleted    == [status |-> "deleted", chips |-> 0]

Init ==
  /\ account = [p \in Players |-> NoAccount]
  /\ handed = [p \in Players |-> 0]

(* What the calls that open, drop and delete accounts make of one.  An id  *)
(* handed out again starts afresh; one handed out once does so once.       *)
Becomes(a, again) ==
  {a, NoAccount, Deleted} \cup (IF a = NoAccount \/ again THEN {NewAccount} ELSE {})

(* A deleted account keeps its row, and can still be credited.             *)
Moved(a, amount) ==
  IF a.status # "none" /\ a.chips + amount \in 0 .. MaxChips
    THEN {[a EXCEPT !.chips = @ + amount]}
    ELSE {}

Turn(p, amounts) ==
  \E a \in Becomes(account[p], handed'[p] > 1) :
    \/ account'[p] = a
    \/ \E amount \in amounts : account'[p] \in Moved(a, amount)

(* One step moves at most one balance by one amount.                       *)
Next ==
  /\ account' = [p \in Players |-> account'[p]]
  /\ handed' = [p \in Players |-> handed'[p]]
  /\ \A p \in Players : handed'[p] >= handed[p]
  /\ \E mover \in Players :
       \A p \in Players : Turn(p, IF p = mover THEN Amounts ELSE {})

Spec == Init /\ [][Next]_<<account, handed>>
=============================================================================
