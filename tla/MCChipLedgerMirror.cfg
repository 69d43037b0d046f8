SPECIFICATION Spec
CONSTANTS
  MaxId = 1
  Servers = {s1, s2}
  Nobody = Nobody
  OpeningChips = 2
  Deltas <- MCDeltas
  MaxChips = 3
  MaxRows = 3
  Faults = {"commit"}
CHECK_DEADLOCK FALSE
INVARIANT MirrorInLedger
