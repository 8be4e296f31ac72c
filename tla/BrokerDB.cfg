\* Two runs that may be wiped, two results; the broker may stop or die once.
CONSTANTS
    RunIds <- TwoRuns
    Absent = Absent
    Torn = Torn
    HasMaxSize = TRUE
    Interrupted = TRUE
    MaxResults = 2
    MaxRestarts = 1
SPECIFICATION FairSpec
INVARIANTS
    DBInv
    CleanIsSynced
    TotalsAreComplete
    ReadableUntilRestart
PROPERTIES
    SyncedEventually
    MetadataSurvives
