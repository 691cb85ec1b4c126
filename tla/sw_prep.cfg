SPECIFICATION Spec
CONSTANTS
  Releases = {"wmla120", "wmla121"}
  MaxVaried = 2
  Crashes = 1
  Runs = 3
INVARIANTS SavedTrue CompleteMeansReady ReadyIsServed
CHECK_DEADLOCK FALSE
