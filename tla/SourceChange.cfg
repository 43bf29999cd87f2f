SPECIFICATION Spec
CONSTANTS
  p1 = p1
  p2 = p2
  u1 = u1
  u2 = u2
  x = x
  y = y
  Zero = Zero
  Nothing = Nothing
  NoFile = NoFile
  NoHeader = NoHeader
  MinChunkSize = 1
  MaxChunkSize = 2
  MaxTotalChunks = 2
  MaxFileSize = 4
  Packers <- OnePacker
  Unpackers = {}
  Overlapping = {}
  Secret <- SameSecret
  PackChunkSize <- ChunksOfTwo
  Bytes = {x, y}
  FirstSource <- ThreeBytes
  Edits <- EditsUpToFour
  Outputs = 2
  MaxEvents = 1
  Inodes = {1, 2, 3, 4, 5, 6, 7, 8, 9}
INVARIANT
  ArtifactsUnpack
CHECK_DEADLOCK FALSE
