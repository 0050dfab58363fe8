SPECIFICATION FairSpec
CONSTANTS
  r1 = r1
  r2 = r2
  Reqs = {r1, r2}
  IdSpace = 5
  MaxFh = 2
  MaxLate = 1
  MaxNotes = 1
INVARIANTS RepliesReachTheirRequest HandlesMatchKernel
PROPERTIES RequestsAnswered UnmountClosesHandles
CHECK_DEADLOCK FALSE
