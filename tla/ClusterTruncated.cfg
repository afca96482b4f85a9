SPECIFICATION ClusterSpec
CONSTANTS
  MaxInt64 = 7
  Nodes = {n1}
  Sessions <- OneSession
  LateSessions = {3}
  Messages <- RestingMessages
  Unreachable = {}
  SnapshotOffersFail = TRUE
  ChunkRecords = 1
  MaxLog = 4
  MaxCrashes = 1
INVARIANT SnapshotsComplete
