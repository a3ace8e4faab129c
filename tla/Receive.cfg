SPECIFICATION Spec
CONSTANTS
  u1 = u1
  u2 = u2
  p1 = p1
  p2 = p2
  Users = {u1, u2}
  Policies = {p1, p2}
  First = p1
  WorkStates = {"kSampling", "kMotorStartup"}
  Restarting = {"kMotorStartup"}
  HmsCodes <- Hms
  NoHms <- NoActiveCode
  DiagValues = {"normal", "warning"}
  Normal = "normal"
  Pushes <- SomePushes
  MaxCalls = 2
  MaxDatagrams = 3
  MaxRestarts = 1
  None = None
SYMMETRY Symmetry
CHECK_DEADLOCK FALSE
INVARIANTS RequestsReach StatusTold TimeBaseCurrent
