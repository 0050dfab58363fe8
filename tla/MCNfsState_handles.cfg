SPECIFICATION FairSpec
CONSTANTS
  Owners = {o1}
  Boots = {b1, b2}
  Files = {f1}
  Calls = {c1, c2}
  Sweepers = {s1}
  IdleLimit = 0
  MaxIssued = 2
  MaxConfirms = 2
  MaxHandles = 2
INVARIANTS TypeOK HandlesAccounted TableHoldsLiveHandles ClosedOnce ClientTablesAgree
PROPERTIES SilentClientExpires ClientLeavesWithOpens
