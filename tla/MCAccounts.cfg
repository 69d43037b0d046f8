SPECIFICATION Spec
CONSTANTS
  ann = ann
  gone1 = gone1
  gone2 = gone2
  Names = {ann, gone1, gone2}
  AnonName <- MCAnonName
  Active <- MCActive
  None = None
  MaxId = 2
  MaxDay = 3
  Short = {2}
  Long = {3}
  MaxPaid = 2
  OpeningChips = 1
  Stake = 1
  BestReward = 2
  MaxLoginAttempts = 1
  Faults = {"crash", "busy"}
INVARIANTS CacheIsCurrent ErasedStayOut OneBonusADay StreakIsRun
PROPERTIES IdsFresh
