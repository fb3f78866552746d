CONSTANTS
  Requests = {R1, R2, R3}
  R1 = R1
  R2 = R2
  R3 = R3
  Sizes = {2}
  KeyRandom = 2
  Block = 3
  Messages = {4}
  Additional = {0, 4}
  MaxCalls = 1
  Operates <- Uses3
SPECIFICATION FairSpec
PROPERTIES OwnRandom Ciphered Served
