SPECIFICATION FairSpec
CONSTANTS
  Senders = {teller, asker}
  Askers = {asker}
  PerSender = 2
  MaxStarts = 2
  Nothing = Nothing
PROPERTIES OneAtATime ToldIsHandled StopReturns
