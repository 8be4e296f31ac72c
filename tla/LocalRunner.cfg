\* Runs with hits, also in cycles, and a run with a duration; two users.
CONSTANTS
    Arguments <- RunArgs
    HighWater = 1
    MaxTests = 2
SPECIFICATION FairSpec
INVARIANTS
    LocalInv
    UsersOfCycle
    AllReported
PROPERTIES
    RunnerEnds
CHECK_DEADLOCK FALSE
