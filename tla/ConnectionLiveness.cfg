SPECIFICATION FairSpec
CONSTANTS
  u1 = u1
  Users = {}
  ReconnectEnabled = TRUE
  SlowSetup = FALSE
  MaxDisconnects = 2
  MaxAttempts = 1
  None = None
PROPERTIES OutageEnds EventsDelivered
