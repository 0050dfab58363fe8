SPECIFICATION FairSpec
CONSTANTS
  Paths = {p1, p2, p3}
  Torn = Torn
  MaxEntries = 2
  MaxJobs = 3
  MaxFailures = 1
  MaxCrashes = 2
PROPERTIES ImplementsMap CloseKeepsHandles WrittenUnlessFailed
