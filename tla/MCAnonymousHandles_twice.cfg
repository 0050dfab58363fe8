SPECIFICATION Spec
CONSTANTS
  Paths = {p1}
  Reads = {r1, r2}
  Sweepers = {s1}
  MaxEntries = 2
  IdleLimit = 0
  MaxTime = 1
  MaxHandles = 2
INVARIANT OneHandlePerFile
