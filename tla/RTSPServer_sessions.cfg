SPECIFICATION FairSpec
CONSTANTS
  s1 = s1
  s2 = s2
  Sessions <- MCSessions
  SourceCap = 1
  MaxAUs = 3
  MaxReaders = 2
  MaxEvents = 4
  MaxCount = 3
INVARIANTS NoStrayReader ConsumesUnlessReplayed IDRIsDecodable
           ServedUnlessUnplayed
PROPERTIES StopReturns
\* clients need not come back and the bounds end
CHECK_DEADLOCK FALSE
