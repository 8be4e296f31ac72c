\* Two threads share a client, two share a pool of one connector.
CONSTANTS
    Threads = {t1, t2, t3, t4}
    Direct = {t1, t2}
    Pooled = {c1}
    Shared = c0
    None = None
    MaxCalls = 2
SPECIFICATION FairSpec
INVARIANT PoolInv
PROPERTIES
    AnswersMatch
    CallsReturn
CHECK_DEADLOCK FALSE
