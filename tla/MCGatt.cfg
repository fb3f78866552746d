SPECIFICATION FairSpec
CONSTANTS
  A = A
  B = B
  Nodes <- TwoNodes
  AutoMtu <- TwoNodes
  DefaultMtu = 6
  MaxMtu <- Mtu
  ValueLen = 14
  WriteLen <- Lengths
  Handles = 2
  Plans <- Work
  AclBuffers = 2
  Faults = {"loss", "late", "silent"}
  MaxFaults = 1
INVARIANTS AnsweredOnce  OneTransaction IndicationOnce MtuAgreed
PROPERTIES Served
CHECK_DEADLOCK FALSE
