CONSTANTS
  A = A
  B = B
  Nodes = {A, B}
  Services <- ServerAtB
  Wants <- BothOpen
  Packets <- TwoFromA
  Manual = {B}
  Decliners = {B}
  Closers = {A}
  Ports <- OneFromA
  Credits = 1
  LowCredits = 1
  AclBuffers = 1
  MaxLosses = 1
SPECIFICATION FairSpec
INVARIANTS ToldInOrder CreditsKept
PROPERTIES Answered Flows

CHECK_DEADLOCK FALSE
