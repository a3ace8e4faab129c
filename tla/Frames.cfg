SPECIFICATION Spec
CONSTANTS
  UdpMod = 4
  FrameMod = 4
  MaxOffset = 9
  Span = 1
  Policies <- BothModes
  TimestampPolicy = "kHostOffsetOnce"
  DotNums = {2}
  DataTypes = {"kCartesian32", "kCartesian16"}
  TimeTypes = {"kNoSync", "kPtp"}
  Steps = {3}
  Skews <- StepBack
  FrameEnds = {TRUE, FALSE}
  PerFrameReset = FALSE
  UdpStart = 2
  MaxPackets = 3
  MaxArrivals = 3
  MaxCalls = 1
  InFlight = 2
  Start = 10
  None = None
CHECK_DEADLOCK FALSE
INVARIANTS CountsExact HeaderTrue  NoDrift
PROPERTIES WindowHolds
