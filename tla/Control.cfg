SPECIFICATION ControlSpec
CONSTANTS
  Cap = 2  MaxSubs = 2  MaxUnits = 4  NotRunes = {2}  Readers = {1}
  FrameCap = 2  MaxFrames = 3
  Web1 = Web1  Onvif1 = Onvif1
  Gain = Gain  Shutter = Shutter  Flip = Flip  Mode = Mode
  Place1 = Place1  Place2 = Place2
  Token1 = Token1  Token2 = Token2
  WebCallers <- MCWeb  OnvifCallers <- MCOnvif
  Names <- MCNames  Kind <- MCKind  Lowest <- MCLowest  Highest <- MCHighest
  Imaging <- MCImaging  FromJSON <- MCJSON  FromXML <- MCXML  Tuned <- MCTuned
  Numbered <- MCNumbered  Named = {}  Places <- MCPlaces  Home = Place1
INVARIANTS
  ControlTypeOK RegisteredAreOpen
  FirstKeyFrameCaptured
  ShownIsInForce ListIsCurrent
  ReturnedServesNobody
PROPERTIES
  EachIsLossyChannel RemovedWhenCancelled
  FramesReachConsumersInOrder
  ShutdownCompletes
\* nobody need write, subscribe, leave or call, and the process ends
CHECK_DEADLOCK FALSE
