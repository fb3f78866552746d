CONSTANTS
  Timers = {T1, T2}
  Sources = {S1, S2, S3}
  Devices = {S1}
  Closers = {S1, S2}
  Callbacks = {C1}
  C1 = C1
  C2 = C2
  Nobody = Nobody
  Nil = Nil
  Half = 4
  MaxDelay = 1
  MaxLate = 1
  Registers <- FirstThenSecond
  Sleeps = TRUE
SPECIFICATION FairSpec
INVARIANTS DueFirst 
PROPERTIES NotEarly OncePerPass 
