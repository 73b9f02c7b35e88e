CONSTANTS
  noTotal = noTotal
  NoTotal = noTotal
  Totals <- MCTotals
  MaxWrites = 3
  MaxTroubles = 2
  MayDropReader = TRUE
SPECIFICATION StreamsFairSpec
INVARIANTS CompleteIsExact ReadsInOrder
PROPERTY StreamEnds
CHECK_DEADLOCK FALSE
