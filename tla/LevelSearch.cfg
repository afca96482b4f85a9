SPECIFICATION SearchSpec
CONSTANTS
  MaxInt64 = 15
  SearchPrices = {1, 2, 3, 4, 5, 6, 7}
  MaxLevels = 6
INVARIANT SearchCorrect
PROPERTY SearchEnds
CHECK_DEADLOCK FALSE
