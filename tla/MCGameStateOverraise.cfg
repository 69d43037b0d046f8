SPECIFICATION Spec
CONSTANTS
  a = a
  b = b
  c = c
  d = d
  Nobody = Nobody
  Players = {a, b, c}
  NumSeats = 3
  SmallBlind = 1
  BigBlind = 2
  BuyIn = 9
  MaxBank = 16
  Amounts = {2, 4, 5, 6, 10}
  MaxRank = 2
  MaxHands = 2
  InitialTables <- MCHands
  Events = {"overraise"}
INVARIANTS SomebodyToAct
CHECK_DEADLOCK FALSE
