CONSTANTS
  Hosts = {"m", "x", "y", "a", "b", "c"}
  Procs = {"p", "q"}
  MaxTries = 5
  Job <- Pair
  MaxIfc = 5
  Preset <- Gap
SPECIFICATION FairSpec
PROPERTIES CommandsWhole CreatesOnUnused RemovesNamed JobsEnd
CHECK_DEADLOCK FALSE
