SPECIFICATION FairSpec
CONSTANTS
  r1 = r1  r2 = r2  r3 = r3  s1 = s1  s2 = s2
  Receivers = {r1,r2,r3}
  Ips = {ipA, ipB}
  Serials = {s1, s2}
  SerialOf <- MCSerialOf
  Ports = {point}
  BatchSize = 1
  MaxRounds = 1
  RxCapacity = 1
  MaxGeneration = 3
  None = None
INVARIANTS NoCallbackAfterRemove DispatchSound
PROPERTIES RemoveReturns LoopLives
