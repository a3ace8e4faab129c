SPECIFICATION Spec
CONSTANTS
  u1 = u1
  Users = {u1}
  ReconnectEnabled = TRUE
  SlowSetup = FALSE
  MaxDisconnects = 1
  MaxAttempts = 1
  None = None
INVARIANTS OutagesExact SessionExclusive WorkerQuietAfterRemove NoStaleFrame
