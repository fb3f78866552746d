CONSTANTS
  A = A
  B = B
  Nodes = {A, B}
  Calls <- SecureThenPlain
  MaxLinks = 2
  Pool = 1
  MaxResponses = 3
  SigIds = 20
  Ssp = {TRUE, FALSE}
  Foreign = {}
  Disconnectable <- OpenOnly
  EarlyTimeouts = FALSE
  StaleResponses = FALSE
SPECIFICATION FairSpec
INVARIANTS OpenOnBothSides
PROPERTIES Settled
CHECK_DEADLOCK FALSE
