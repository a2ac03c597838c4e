CONSTANTS
  RemoteTracks = {t1, t2}
  AudioCap = 1
  Messaging = TRUE
  Timeout = TRUE
SPECIFICATION FairSpec
INVARIANTS ReturnedMeansClosed ReadersAreAwaited
PROPERTIES KeepsPort EndsForGood
CHECK_DEADLOCK FALSE
