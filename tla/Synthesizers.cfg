CONSTANTS
  MaxResponses = 2
  MaxSentences = 2
  MaxConns = 2
  FlushCap = 1
  MaxFaults = 1
  MaxPieces = 3
  MaxFailures = 2
SPECIFICATION EitherSpec
INVARIANTS EitherInv TextKept EitherSpokenToTheEnd CrashNeedsInterruption
PROPERTIES EitherCancelledReturns EitherFinishedReturns
