---------------------------- MODULE MCChipLedger ----------------------------
(* The ledger with two processes, small balances and small amounts.        *)
EXTENDS ChipLedger, TLC

MCDeltas == {-2, 1}
MCSymmetry == Permutations(Servers)
=============================================================================
