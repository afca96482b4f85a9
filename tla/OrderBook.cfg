SPECIFICATION RecoverySpec
CONSTANTS
  MaxInt64 = 3
  Owners = {o1, o2}
  Sides = {"Buy", "Sell", "Null"}
  Prices = {1, 2, 3}
  Quantities = {0, 1, 2}
  MaxOrderId = 3
SYMMETRY OwnerSymmetry
INVARIANTS TypeOK LevelsSorted QueuesMatchOrders QueuesInArrivalOrder NotCrossed TotalsMatchQueues TakerAccounted TradesWithinLimit CommandsAreFunctions SnapshotRestoresBook
PROPERTY OnlyTradedOrCanceled
