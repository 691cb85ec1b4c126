SPECIFICATION Spec
CONSTANTS
  N = 2
  Spares = 0
  Commands = 2
  Plugs = 2
  Kills = 1
  None = None
INVARIANTS PairsTrue CompleteMeansAll DeployedTrue
CHECK_DEADLOCK FALSE
