SPECIFICATION Spec
CONSTANTS
  Releases = {"wmla120", "wmla121"}
  Archs = {"ppc64le"}
  Procs = {"p8", "p9"}
  Commands = 3
  Kills = 1
  Others = 1
  None = None
INVARIANTS InstallerSafe InstallFitsInit PauseRemembered
PROPERTY RetryEnds
CHECK_DEADLOCK FALSE
