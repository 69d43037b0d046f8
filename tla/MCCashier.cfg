SPECIFICATION Spec
CONSTANTS
  Players = {p1, p2}
  Tables = {a}
  Nobody = Nobody
  Seats <- MCSeats
  Purse = 2
  BuyIns = {2}
  Faults = {"crash", "ledger", "alert"}
INVARIANTS NoChipsMinted
PROPERTIES LossExplained LeaversLeave
