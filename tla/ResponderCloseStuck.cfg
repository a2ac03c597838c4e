CONSTANTS
  Creators = {"handler"}
  Timers = {}
  InterruptOnInterim = FALSE
  MayClose = TRUE
  MaxResponses = 2
  CmdCap = 1
  InCap = 1
  OutCap = 1
SPECIFICATION StalledSpec
PROPERTY CloseReturns
CHECK_DEADLOCK FALSE
