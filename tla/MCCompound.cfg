SPECIFICATION FairSpec
CONSTANTS
  Paths <- SomePaths
  Root = "/"
  Parent <- SomeParents
  Kind <- SomeKinds
  Long = {"/d/f"}
  Removable = {"/d/f"}
  Sizes = {1, 5}
  Gone <- NotThere
  Requests <- SomeRequests
  Reads <- SomeReads
  MaxRead = 5
  SpliceFrom = 4
  Buffers = {1, 2, 3, 4}
  Records <- SomeRecords
  MaxChanges = 2
  WordBits = 2
  Supported = {0, 1, 3}
  Size = 1
  RdattrError = 3
INVARIANTS TypeOK BuffersReturned EofHonest PayloadsInPlace
PROPERTIES ImplementsReply CallAnswered
