CONSTANTS
  A = A
  B = B
  Nodes = {A, B}
  Calls <- OneEach
  MaxLinks = 1
  Pool = 2
  MaxResponses = 1
  SigIds = 20
  Ssp = {TRUE}
  Foreign = {}
  Disconnectable <- EarlyOrOpen
  EarlyTimeouts = TRUE
  StaleResponses = TRUE
SYMMETRY Alike
SPECIFICATION Spec
INVARIANTS EventsInOrder OpenIsAgreed 
CHECK_DEADLOCK FALSE
