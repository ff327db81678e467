CONSTANTS
    Tables <- MCTables
    Columns <- MCColumns
    DocValues <- MCDocValues
    Nesting <- MCNesting
    MaxNesting = 1
    Calls <- MCCalls
    BatchItems <- MCBatchItems
    Known <- MCKnown
    CustomQueries <- MCCustomQueries
    TreeKeys <- MCTreeKeys
    MaxRequests = 2
SPECIFICATION MCSpec
INVARIANTS
    ExecutesTheQueriesOfItsKey
    ParametersFitTheStatement
    OnlyRepeatableIsIdempotent
    CounterBatchesAreMarked
    CustomRowsFit
    CacheTreeIsAMap
CHECK_DEADLOCK FALSE
