SPECIFICATION OsSpec
CONSTANTS
  Machines = {m1, m2}
  MaxReports = 2
  MaxRounds = 2
  MaxRestarts = 1
  None = None
PROPERTY LocalBootWhenDone
PROPERTY InstallationEnds
