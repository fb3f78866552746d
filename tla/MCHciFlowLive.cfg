SPECIFICATION FairSpec
CONSTANTS
  H1 = h1
  H2 = h2
  LeHandles <- OneLe
  AclTotal = 1
  LeTotal = 0
  MaxFragments = 2
  MaxPowerOff = 1
  WarmStart = FALSE
PROPERTIES FragmentsDrain DisconnectIsSent ShutdownProceeds
