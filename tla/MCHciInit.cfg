SPECIFICATION FairSpec
CONSTANTS
  MaxScript = 3
  ConfigSteps = 3
  Backlog = 5
  MaxCalls = 5
  WarmStart = FALSE
INVARIANTS SameBaud WorkingIsReady
PROPERTY BringUpEnds
CHECK_DEADLOCK FALSE
