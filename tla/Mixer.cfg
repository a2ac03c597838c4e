CONSTANTS
  MaxResponses = 2
  MaxFrames = 2
  Loads <- MCLoads
  FrameLen = 3
  SamplesPerTick = 2
  Tracks = {t1, t2}
  Looping = {t2}
  WaveLen = 3
  InCap = 1
  CmdCap = 1
  TrackCap = 1
  OutCap = 1
SPECIFICATION FairSpec
INVARIANTS Inv SpeechInOrder SilencedNotHeard
PROPERTIES HeardOut CloseEnds
