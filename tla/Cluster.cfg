SPECIFICATION FairSpec
CONSTANTS
  MaxInt64 = 3
  Nodes = {n1, n2}
  Sessions <- OneSession
  LateSessions = {2}
  Messages <- TradingMessages
  Unreachable = {2}
  SnapshotOffersFail = FALSE
  ChunkRecords = 1
  MaxLog = 4
  MaxCrashes = 1
INVARIANTS BooksFollowLog EgressAtMostOnce SessionsFollowLog PanicsFollowLog SnapshotsExact
PROPERTY CatchesUp
