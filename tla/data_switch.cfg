SPECIFICATION DataSpec
CONSTANTS
  Switches = {"c", "m1", "m2"}
  Class <- MCClass
  Configs <- MCConfigs
  Kills = 1
  Refusals = 1
  Runs = 3
INVARIANTS NothingSilent MlagWhole DeconfigureClean
CHECK_DEADLOCK FALSE
