CONSTANTS
  Providers = {"openai", "google"}
  MaxAttempts = 2
  AudioCap = 1
  Cap = 1
  MaxStarts = 1
  MaxSaid = 2
  MaxFaults = 2
SPECIFICATION Spec
CHECK_DEADLOCK FALSE
INVARIANT GivesUpWhenUseless
