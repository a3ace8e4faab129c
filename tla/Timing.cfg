SPECIFICATION TimingSpec
CONSTANTS
  PushTimeout = 4
  MaxPoll = 2
  Window = 5
  StatsInterval = 7
  RequestTime = 2
  AttemptTime = 1
  Backoff = 1
  PushPeriod = 2
  RunOns = {1, 6}
  BootTime = 3
  NoAge = NoAge
INVARIANTS TicksInTime PowerDownWait
PROPERTIES NoEarlyReconnect
