SPECIFICATION FairSpec
CONSTANTS
  Count = 4
  Capacity = 2
  Batch = 2
  MaxStarts = 2
  Nothing = Nothing
PROPERTIES OneAtATime ToldIsHandled
