SPECIFICATION FairSpec
CONSTANTS
  a = a
  b = b
  c = c
  d = d
  Nobody = Nobody
  Players = {a, b, c}
  NumSeats = 3
  SmallBlind = 1
  BigBlind = 2
  BuyIn = 17
  MaxBank = 16
  Amounts = {0, 2}
  MaxRank = 3
  MaxHands = 2
  InitialTables <- MCPair
  Events = {}
CHECK_DEADLOCK FALSE
PROPERTY HandEndsAnyway
