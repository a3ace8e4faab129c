SPECIFICATION Spec
CONSTANTS
  u1 = u1
  None = None
  Users = {u1}
  ReconnectEnabled = TRUE
  SlowSetup = FALSE
  MaxDisconnects = 1
  MaxAttempts = 1
INVARIANT WorkerJoined
