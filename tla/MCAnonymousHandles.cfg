SPECIFICATION FairSpec
CONSTANTS
  Paths = {p1, p2, p3}
  Reads = {r1, r2}
  Sweepers = {s1, s2}
  MaxEntries = 2
  IdleLimit = 0
  MaxTime = 1
  MaxHandles = 3
INVARIANTS SizeBounded HitsAreLive ClosedOnce
PROPERTY QuietHandlesClosed
