CONSTANTS
  A = A
  B = B
  Nodes = {A, B}
  Services <- ServerAtB
  Wants <- BothOpen
  Packets <- None
  Manual = {}
  Decliners = {}
  Closers = {A, B}
  Ports <- None
  Credits = 1
  LowCredits = 1
  AclBuffers = 1
  MaxLosses = 0
SPECIFICATION FairSpec
PROPERTY Discarded

CHECK_DEADLOCK FALSE
