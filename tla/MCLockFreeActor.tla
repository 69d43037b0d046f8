-------------------------- MODULE MCLockFreeActor ---------------------------
(* A ring of two slots, batches of two and four messages: the ring is full *)
(* and wraps around.                                                       *)
EXTENDS LockFreeActor
=============================================================================
