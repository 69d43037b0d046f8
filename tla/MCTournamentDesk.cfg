SPECIFICATION Spec
CONSTANTS
  Players = {p1, p2, p3, p4}
  MaxPlayers = 4
  PerTable = 3
  StartingStack = 1
  Levels = 2
  MaxRebuys = 1
  RebuyStack = 1
  RebuyThrough = 1
  AddonStack = 1
  BuyIn = 1
  Fee = 1
  RebuyCost = 1
  AddonCost = 1
  PaidPlaces = 2
  Purse = 3
  Faults = {"crash", "ledger"}
SYMMETRY Anybody
INVARIANTS PoolBacked Seated Places
PROPERTIES EntriesKept WinnerPaid
