SPECIFICATION FairListingSpec
CONSTANTS
  e1 = e1
  e2 = e2
  e3 = e3
  Entries = {e1, e2, e3}
  NameBytes <- Lengths
  AttrWords = 2
  ValueBytes <- Values
  Limits <- SomeLimits
  Batch = 2
  MaxChanges = 2
INVARIANTS PageFits NothingSkipped NothingTwice
PROPERTY ListingEnds
