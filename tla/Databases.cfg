\* Three results, one of them may be cut off.
CONSTANTS
    Results <- SomeResults
    None = None
    Types <- SomeTypes
    Starts <- SomeStarts
    Sizes <- SomeSizes
    Chunks <- SomeChunks
    Absent = Absent
    MaxResults = 3
    MaxTorn = 1
SPECIFICATION FairSpec
INVARIANTS
    QueriesInv
    PagesAreWindows
PROPERTIES
    
    RedisKeepsPromise
    QueriesEnd
