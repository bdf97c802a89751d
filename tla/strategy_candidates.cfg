SPECIFICATION FairSpec
CONSTANTS
  s1 = s1
  s2 = s2
  s3 = s3
  Symbol = {s1, s2}
  Rank = {1, 2}
  LiveModes = {FALSE}
  MaxOpen = 1
  ExecutorMaxOpen = 1
  SuppressFor = 1
  Prompt = FALSE
  MaxOffers = 3
  MaxQueue = 2
  MaxFaults = 1
  MaxCrashes = 1
  MaxStops = 1
PROPERTIES
  CandidatesAreSettled
CHECK_DEADLOCK FALSE
