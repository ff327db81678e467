\* With and without raiseOnFirstError: chains of three, two and two items, and
\* five items of a stream, two at a time.
SPECIFICATION MCSpec
CONSTANTS
  N = 7
  ConcurrencyLevel = 3
  MaxErrors = 2
  QueryOf <- TwoQueries
  Length = 5
  StreamLevel = 2
CHECK_DEADLOCK FALSE
INVARIANTS
  GroupConsistent
  FlowControl
PROPERTIES
  StopsTaking
  ImplementsExecuteAll
  StreamImplementsExecuteAll
  ExecutorsSettle
