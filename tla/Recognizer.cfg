CONSTANTS
  HasVAD = TRUE
  BufferSize = 2
  ChanCap = 1
  MaxTurns = 2
  MaxFinals = 2
  MaxInterims = 1
  MayFail = TRUE
SPECIFICATION FairSpec
INVARIANTS TypeOK NoStrandedTranscripts QuietAfterStop
PROPERTIES DeliversUtterances EventuallyRecognized FailureReported StopReturns
