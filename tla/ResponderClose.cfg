CONSTANTS
  Creators = {"handler"}
  Timers = {}
  InterruptOnInterim = FALSE
  MayClose = TRUE
  MaxResponses = 1
  CmdCap = 4
  InCap = 1
  OutCap = 1
SPECIFICATION StalledSpec
PROPERTY CloseReturns
CHECK_DEADLOCK FALSE
