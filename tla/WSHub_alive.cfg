SPECIFICATION FairSpec
CONSTANTS
  Clients = {c1}
  QueueCap = 2
INVARIANT KeptAlive
