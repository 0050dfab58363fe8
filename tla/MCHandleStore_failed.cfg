SPECIFICATION FairSpec
CONSTANTS
  Paths = {p1, p2, p3}
  Torn = Torn
  MaxEntries = 2
  MaxJobs = 2
  MaxFailures = 1
  MaxCrashes = 0
PROPERTY WrittenSoon
