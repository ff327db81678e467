\* Results of up to three pages of up to three rows.
SPECIFICATION PagingSpec
CONSTANTS
  MaxPages = 3
  MaxRows = 3
  RowSet <- AllRows
  Results <- AllResults
  HighWaterMark = 2
  CanFail = TRUE
  Null = Null
  IteratorEmptyPages = FALSE
  MaxFailures = 2
CHECK_DEADLOCK FALSE
INVARIANTS
  StreamExact
  StreamThrottled
  IteratorYieldsAllRows
PROPERTIES
  StreamCompletes
  IteratorEnds
