SPECIFICATION ShowdownSpec
CONSTANTS
  Contestants = {s1, s2, s3, s4}
  MaxInvested = 3
  MaxRanked = 3
CHECK_DEADLOCK FALSE
INVARIANTS SidePots FairlyPaid
