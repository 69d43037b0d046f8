----------------------------- MODULE MCAccounts -----------------------------
(* Accounts with the names "deleted_1" and "deleted_2" open to anybody.    *)
EXTENDS Accounts, TLC

CONSTANTS ann, gone1, gone2

MCAnonName == 1 :> gone1 @@ 2 :> gone2

MCActive == [claim |-> {2}, buyIn |-> {1}]
=============================================================================
