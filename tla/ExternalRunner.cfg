\* One or two steps of one or two users, with and without a duration.
CONSTANTS
    HitsArgs <- Hits
    UsersArgs <- Users
    Durations <- DurationsOrNone
    NoDuration = NoDuration
    Timeout = 1
    MaxElapsed = 3
SPECIFICATION FairSpec
INVARIANTS
    RunnerInv
    AllStepsRun
PROPERTY Stops
