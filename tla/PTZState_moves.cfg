SPECIFICATION FairSpec
CONSTANTS
  Clients = 2
  Bound = 1
  AbsSteps = 1
  MaxCalls = 3
CHECK_DEADLOCK FALSE
INVARIANTS
  ActiveUnlessLate
  MovingMeansMover
  OneMover
PROPERTIES
  BecomesIdle
