CONSTANTS
  A = A
  B = B
  Nodes = {A, B}
  Modulus = 4
  NumTx = 2
  NumRx = 2
  MaxTransmit = 2
  Longest = 2
  Sdus <- Segmented
  AclBuffers = 2
  Faults = {"loss","busy","early"}
  MaxFaults = 1
  Eager = FALSE
SPECIFICATION FairSpec
INVARIANTS Delivered 
 
CHECK_DEADLOCK FALSE
