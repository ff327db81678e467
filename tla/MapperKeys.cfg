CONSTANTS
    Tables <- MCTables
    Columns <- MCColumns
    DocValues <- MCDocValues
    Nesting <- MCNesting
    MaxNesting = 1
    Calls <- CollidingCalls
    BatchItems = {}
    Known <- MCKnown
    CustomQueries <- MCCustomQueries
    TreeKeys <- MCTreeKeys
    MaxRequests = 2
SPECIFICATION MCSpec
INVARIANT ExecutesItsOwnQueries
CHECK_DEADLOCK FALSE
