SPECIFICATION MatchSpec
CONSTANTS
  Players = {p1, p2, p3}
  Games = {nlhe, plo}
  Unit = 2
  BuyIns = {3, 5, 7, 9}
  Purse = 5
  MatchSize = 2
  MaxTables = 9
  ServerTables = 3
  StartTables = 1
  MinBuyIn = 2
  MaxBuyIn = 3
SYMMETRY Anybody
INVARIANTS EnoughAreMatched StakesPaid
PROPERTIES EntriesServedOnce
