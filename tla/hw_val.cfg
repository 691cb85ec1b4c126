SPECIFICATION Spec
SYMMETRY Symmetry
CONSTANTS
  Nodes = {"n1", "n2"}
  Strangers = {"s"}
  Templates = {"t1", "t2"}
  Account <- MCAccount
  Takes <- MCTakes
  Switches = 1
  Pool = {a1, a2, a3}
  None = None
  Runs = 2
INVARIANTS OneServer CleanEnd AllNodesAnswered
CHECK_DEADLOCK FALSE
