SPECIFICATION Spec
CONSTANTS
  Players = {p1}
  Tables = {a}
  Nobody = Nobody
  Seats <- MCSeats
  Purse = 2
  BuyIns = {1, 2}
  Faults = {"crash"}
PROPERTY OrphansRefunded
