SPECIFICATION Spec
CONSTANTS
  ChunkCount = 2
  Voxels = {"near", "next", "far"}
  ChunkOf <- MCChunkOf
  Materials = {"rock", "air"}
  Ground <- MCGround
  Seats = {s1}
  Sights <- MCSights
  MaxSeq = 3
  MaxView = 2
  Watcher = s1
CHECK_DEADLOCK FALSE
INVARIANTS
  NothingIsLost
  DeltasTellWhatWasSeen
