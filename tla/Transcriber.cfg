CONSTANTS
  Providers = {"openai", "google", "deepgram"}
  MaxAttempts = 3
  AudioCap = 1
  Cap = 1
  MaxStarts = 2
  MaxSaid = 3
  MaxFaults = 3
SPECIFICATION FairSpec
INVARIANTS Inv NoConnectionLeft OwnTranscripts UselessAttemptsEnd
PROPERTIES StopReturns DeathNoticed
CHECK_DEADLOCK FALSE
