SPECIFICATION ToolsSpec
CONSTANTS
  s1 = s1  s2 = s2  s3 = s3  ipA = ipA  ipB = ipB
  Lidars <- Three
  MaxDatagrams = 3
  SeqMod = 5
  FileMod = 8
  Attempts = 2
  AckFirst = 2
  EndAsks = FALSE
  OldAcks = {}
  MaxCalls = 2
  MaxCancels = 1
  MaxChunks = 4
  MaxFiles = 2
  Absent = Absent
  crc16 <- Sum16
  crc32 <- Sum32
  Ops <- Calls
  Firmwares <- Versioned
  MaxOps = 1
  MaxFaults = 1
CHECK_DEADLOCK FALSE
INVARIANTS DiscoverComplete CollectionKnown GapsReported ReadsTrue CallTakesEffect SettingsComplete
PROPERTIES DiscoverEnds
