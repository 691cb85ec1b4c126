CONSTANTS
  Nodes = {n1, n2}
  Strangers = {x}
  OpenBmc = {n1}
  MaxAttempts = 2
  MaxPolls = 2
SPECIFICATION FairSpec
INVARIANTS CompleteMeansAll SuccessIsVerified
PROPERTIES VerifiedLeftAlone KnownResetsOnly VerifiedInstalls ScriptEnds
CHECK_DEADLOCK FALSE
