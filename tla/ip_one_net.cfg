CONSTANTS
  N = 2
  Start = 1
  Size <- OneNet
  Shared = TRUE
  Cred <- OwnCred
  Flaky = {1, 2}
  Early = {1, 2}
  MaxRuns = 2
SPECIFICATION Spec
INVARIANTS ReservationsDisjoint PoolExcludesAssigned
CHECK_DEADLOCK FALSE
