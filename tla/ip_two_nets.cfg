CONSTANTS
  N = 3
  Start = 1
  Size <- TwoNets
  Shared = FALSE
  Cred <- SameCred
  Flaky = {}
  Early = {}
  MaxRuns = 2
SPECIFICATION FairSpec
INVARIANTS DoneRecordsAll
PROPERTIES RecordsOwnBmc EveryBmcFound
CHECK_DEADLOCK FALSE
