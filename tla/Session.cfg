SPECIFICATION FairSpec
CONSTANTS
  Cmds = {"kParamInquire"}
  States = {"kReady", "kSampling", "kError"}
  Target = "kSampling"
  Rets = {"success"}
  Attempts = 2
  SeqMod = 3
  RxCapacity = 1
  MaxRequests = 2
  MaxSessions = 1
  MaxCancels = 1
  MaxExtra = 1
  IoErrors = {TRUE}
  MayStop = TRUE
  None = None
CHECK_DEADLOCK FALSE
INVARIANTS AckFresh CancelEndsOne QuietAfterStop
PROPERTIES CallReturns
