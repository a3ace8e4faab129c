SPECIFICATION Spec
CONSTANTS
  u1 = u1
  u2 = u2
  k1 = k1
  v0 = v0
  v1 = v1
  home = home
  away = away
  None = None
  Users = {u1, u2}
  Keys = {k1}
  Always = {}
  Values = {v0, v1}
  Default = v0
  Addresses = {home, away}
  Home = home
  Broadcast = {home}
  MaxCalls = 2
  MaxOutages = 1
  MaxResets = 1
  MaxCancels = 1
SYMMETRY Symmetry
CHECK_DEADLOCK FALSE
INVARIANTS PendingCancel Restored
