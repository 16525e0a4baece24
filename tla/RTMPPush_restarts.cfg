SPECIFICATION FairSpec
CONSTANTS
  MaxRestarts = 1
  RestartWindow = 2
  Cooldown = 3
  RestartDelay = 1
  MaxStarts = 2
INVARIANT AttemptsBounded
PROPERTY RunGetsOn
