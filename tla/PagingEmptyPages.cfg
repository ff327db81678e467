\* The iterator over results in which any page may be empty.
SPECIFICATION PagingSpec
CONSTANTS
  MaxPages = 3
  MaxRows = 3
  RowSet <- AllRows
  Results <- AllResults
  HighWaterMark = 2
  CanFail = TRUE
  Null = Null
  IteratorEmptyPages = TRUE
  MaxFailures = 2
CHECK_DEADLOCK FALSE
INVARIANT IteratorYieldsAllRows
