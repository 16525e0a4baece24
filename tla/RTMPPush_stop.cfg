SPECIFICATION FairSpec
CONSTANTS
  MaxRestarts = 2
  RestartWindow = 2
  Cooldown = 3
  RestartDelay = 1
  MaxStarts = 1

PROPERTY StopStopsFfmpeg
