SPECIFICATION NetsSpec
CONSTANTS
  Devices = {"eth0", "eth1"}
  Configs <- MCConfigs
  Foreign <- MCForeign
  Reboots = 1
  Commands = 3
INVARIANTS NetworksUp TeardownClean
PROPERTY RerunSame
CHECK_DEADLOCK FALSE
