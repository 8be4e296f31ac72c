\* Two agents that may crash on one run, client stops, nothing else fails.
CONSTANTS
    Agents = {a1, a2}
    RunIds = {r1}
    NoRun = NoRun
    BadObserver = {}
    SendFailures = FALSE
    Heartbeat = FALSE
    MayCrash = TRUE
    HasMaxAge = FALSE
    QueueBound = 2
    SlowAgents = FALSE
    ClientStops = TRUE
    ClientCommands = {}
SPECIFICATION ClusterSpec
SYMMETRY Symmetry
VIEW NoOut
INVARIANT WorkIsTracked
PROPERTY EndedMeansDone
