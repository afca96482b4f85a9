SPECIFICATION Spec
CONSTANTS
  MaxInt64 = 3
  Owners = {o1}
  Prices = {1, 2, 3}
  Quantities = {0, 1, 2}
  MaxOrderId = 4
SYMMETRY OwnerSymmetry
INVARIANT PointersSound
PROPERTY ImplementsBook
