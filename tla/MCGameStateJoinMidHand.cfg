SPECIFICATION Spec
CONSTANTS
  a = a
  b = b
  c = c
  d = d
  Nobody = Nobody
  Players = {a, b, c, d}
  NumSeats = 4
  SmallBlind = 1
  BigBlind = 2
  BuyIn = 4
  MaxBank = 16
  Amounts = {4}
  MaxRank = 2
  MaxHands = 2
  InitialTables <- MCPair
  Events = {"join"}
INVARIANTS ChipsConserved
CHECK_DEADLOCK FALSE
