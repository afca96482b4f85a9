SPECIFICATION FairSpec
CONSTANTS
  Orders = 2
  Interval = 1
  OfferTimeout = 1
  DrainTimeout = 2
  MaxReports = 2
  MaxStall = 2
INVARIANTS CountedOnce StallsCount
PROPERTY Finishes
CHECK_DEADLOCK FALSE
