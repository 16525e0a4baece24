SPECIFICATION Spec
CONSTANTS
  p1 = p1
  p2 = p2
  NoParams = NoParams
  ParamValues <- MCParamValues
  FrameCap = 1
  ConfCap = 2
  VideoCap = 2
  MaxBackoff = 2
  MaxFrames = 2
  MaxFaults = 2
  ForeignExecs = TRUE
INVARIANTS NoOrphan ConfigInSync
PROPERTIES CleanRespawn FramesAreLossyChannel
\* after Stop, or a panic, the program is over
CHECK_DEADLOCK FALSE
