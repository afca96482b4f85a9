SPECIFICATION ViewSpec
CONSTANTS
  MaxInt64 = 15
  Owners = {o1}
  Sides = {"Buy", "Sell"}
  Prices = {0, 1, 2}
  Quantities = {0, 1, 2}
  MaxOrderId = 4
INVARIANTS DepthIsExact OpenOrdersAreExact
PROPERTIES ImplementsPriority CommandCompletes
