SPECIFICATION Spec
CONSTANTS
  Owners = {o1}
  Boots = {b1, b2}
  Files = {f1}
  Calls = {c1, c2}
  Sweepers = {s1}
  IdleLimit = 0
  MaxIssued = 2
  MaxConfirms = 1
  MaxHandles = 1
INVARIANT NoOrphanOpens
