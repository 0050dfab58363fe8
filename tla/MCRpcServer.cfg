SPECIFICATION FairServerSpec
CONSTANTS
  Calls = {1, 2, 3, 4, 5}
  MaxInflight = 3
  MaxChunk = 2
  MaxRecord = 3
  Streams <- SomeStreams
INVARIANTS InflightExact PausedWhenBusy BuffersGivenBack RecordsWhole
PROPERTIES PausedResumes ImplementsConnection
