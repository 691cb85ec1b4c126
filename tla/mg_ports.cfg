SPECIFICATION Spec
CONSTANTS
  NPorts = 4
  Vlan <- MCVlan
  MgmtVlans = {2}
  Client <- MCClient
  Deployer = {3}
  Links = {4}
  Before <- MCBefore
  MaxRuns = 2
INVARIANTS
  ClientsReady
  Isolated
  LinksReady
PROPERTY
  QuietRerun
CHECK_DEADLOCK FALSE
