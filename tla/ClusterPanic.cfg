SPECIFICATION ClusterSpec
CONSTANTS
  MaxInt64 = 3
  Nodes = {n1}
  Sessions <- OneSession
  LateSessions = {3}
  Messages <- RestingMessages
  Unreachable = {}
  SnapshotOffersFail = FALSE
  ChunkRecords = 1
  MaxLog = 4
  MaxCrashes = 1
INVARIANT NoPanic
