CONSTANTS
  Passes = {"a", "b"}
  Signatures <- MCSignatures
  None = "none"
  MaxOpens = 2
  MaxDecisions = 2
  MaxImages = 1
  MaxTimers = 1
SPECIFICATION Spec

PROPERTIES GuardScansShownPass
CHECK_DEADLOCK FALSE
