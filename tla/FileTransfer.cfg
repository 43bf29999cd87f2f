SPECIFICATION FairSpec
CONSTANTS
  p1 = p1
  p2 = p2
  u1 = u1
  u2 = u2
  x = x
  y = y
  Zero = Zero
  Nothing = Nothing
  NoFile = NoFile
  NoHeader = NoHeader
  MinChunkSize = 1
  MaxChunkSize = 4
  MaxTotalChunks = 2
  MaxFileSize = 4
  Packers <- TwoPackers
  Unpackers <- TwoUnpackers
  Overlapping <- TwoPackers
  Secret <- SameSecret
  PackChunkSize <- ChunksOfTwoAndFour
  Bytes = {x, y}
  FirstSource <- FourBytes
  Edits <- EditsUpToThree
  Outputs = 2
  MaxEvents = 1
  Inodes = {1, 2, 3, 4, 5, 6, 7, 8, 9, 10, 11, 12, 13, 14}
INVARIANTS
  TypeOK
  NoLeftovers
PROPERTIES
  DeliveryIsAtomic
  UndisturbedPackSucceeds
  WholeArtifactUnpacks
  CallsEnd
CHECK_DEADLOCK FALSE
