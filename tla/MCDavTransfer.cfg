SPECIFICATION FairSpec
CONSTANTS
  Links = "rclonelink"
  MaxSize = 3
  Chunk = 2
INVARIANTS BodyWhole
PROPERTIES HandleReleased ResponseEnds
