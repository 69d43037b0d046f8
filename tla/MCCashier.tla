----------------------------- MODULE MCCashier ------------------------------
(* The tables of the cashier's runs have two seats.                        *)
EXTENDS Cashier

MCSeats == 1 .. 2
=============================================================================
