SPECIFICATION Spec
CONSTANTS
  s1 = s1
  s2 = s2
  Sessions <- MCSessions
  SourceCap = 1
  MaxAUs = 1
  MaxReaders = 2
  MaxEvents = 4
  MaxCount = 3
SYMMETRY Symmetry
INVARIANT PlayingIsServed
\* clients need not come back and the bounds end
CHECK_DEADLOCK FALSE
