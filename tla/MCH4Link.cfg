SPECIFICATION FairSpec
CONSTANTS
  Packets <- ThreePackets
  MaxLen = 1
  TxSizes = {2}
  RingSize = 3
  MaxCycles = 2
  StaleFlags = FALSE
INVARIANTS SentWhenWritten
  
