CONSTANTS
  Creators = {"handler", "ice"}
  Timers = {t1}
  InterruptOnInterim = FALSE
  MayClose = FALSE
  MaxResponses = 2
  CmdCap = 2
  InCap = 1
  OutCap = 1
SPECIFICATION AlternateSpec
INVARIANTS TypeOK OneAtATime HeardUnlessFired DeafOnlyWhileSpeaking Ownership
