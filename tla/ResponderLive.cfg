CONSTANTS
  Creators = {"handler", "ice"}
  Timers = {t1}
  InterruptOnInterim = TRUE
  MayClose = FALSE
  MaxResponses = 1
  CmdCap = 1
  InCap = 1
  OutCap = 1
SPECIFICATION FairSpec
PROPERTIES HandlerReturns CancelledFallsSilent
