\* Two agents that may crash, one run.
CONSTANTS
    Agents = {a1, a2}
    RunIds = {r1}
    NoRun = NoRun
    BadObserver = {}
    SendFailures = FALSE
    Heartbeat = FALSE
    MayCrash = TRUE
    HasMaxAge = FALSE
    QueueBound = 2
    SlowAgents = FALSE
    ClientStops = FALSE
    ClientCommands = {}
SPECIFICATION FairSpec
PROPERTIES
    RunsDrain
    EveryRunEnds
