CONSTANTS
  Passes = {"a", "b"}
  Signatures <- MCSignatures
  None = "none"
  MaxOpens = 2
  MaxDecisions = 2
  MaxImages = 1
  MaxTimers = 1
SPECIFICATION FairSpec
INVARIANTS OneApprovalAtATime SentAsAttached
PROPERTIES DecisionOnShownDocument ButtonComesBack
CHECK_DEADLOCK FALSE
