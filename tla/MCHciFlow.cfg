SPECIFICATION Spec
CONSTANTS
  H1 = h1
  H2 = h2
  LeHandles <- OneLe
  AclTotal = 2
  LeTotal = 0
  MaxFragments = 2
  MaxPowerOff = 1
  WarmStart = TRUE
INVARIANTS NeverOverrun FragmentsInOrder BufferHeld SlotAssertsHold
PROPERTY NoPacketCutShort
