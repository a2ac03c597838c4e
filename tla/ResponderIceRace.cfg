CONSTANTS
  Creators = {"handler", "ice"}
  Timers = {}
  InterruptOnInterim = FALSE
  MayClose = FALSE
  MaxResponses = 2
  CmdCap = 1
  InCap = 1
  OutCap = 1
SPECIFICATION SilentSpec
PROPERTY CancelResponseReturns
