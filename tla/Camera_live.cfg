SPECIFICATION FairSpec
CONSTANTS
  p1 = p1
  p2 = p2
  NoParams = NoParams
  ParamValues <- MCParamValues
  FrameCap = 1
  ConfCap = 1
  VideoCap = 1
  MaxBackoff = 2
  MaxFrames = 1
  MaxFaults = 1
  ForeignExecs = FALSE
PROPERTIES StopReturns Restarts ConsumerReleased
\* after Stop, or a panic, the program is over
CHECK_DEADLOCK FALSE
