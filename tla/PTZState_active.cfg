SPECIFICATION Spec
CONSTANTS
  Clients = 1
  Bound = 1
  AbsSteps = 2
  MaxCalls = 2
CHECK_DEADLOCK FALSE
INVARIANT
  ContinuousStaysActive
