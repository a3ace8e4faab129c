SPECIFICATION RecordingSpec
CONSTANTS
  d1 = d1
  d2 = d2
  Devices = {d1, d2}
  LidarId = Unset
  Times = {0, 1, 4, 31}
  TimeMod = 32
  Jump = 3
  Duration = 2
  MaxPackets = 4
  MaxLoops = 2
  Unset = Unset
CHECK_DEADLOCK FALSE
INVARIANTS ReadBack AllPlayed
PROPERTIES TimeLineSteady
