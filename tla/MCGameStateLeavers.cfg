SPECIFICATION FairSpec
CONSTANTS
  a = a
  b = b
  c = c
  d = d
  Nobody = Nobody
  Players = {a, b, c}
  NumSeats = 3
  SmallBlind = 1
  BigBlind = 2
  BuyIn = 9
  MaxBank = 10
  Amounts = {0, 3}
  MaxRank = 1
  MaxHands = 2
  InitialTables <- MCShort
  Events = {"grace", "cashout"}
CHECK_DEADLOCK FALSE
INVARIANTS LeaversWereInHand
PROPERTIES AttendedHandEnds
