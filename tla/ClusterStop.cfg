\* One agent that may crash, tests that never end on their own, client stops.
CONSTANTS
    Agents = {a1}
    RunIds = {r1, r2}
    NoRun = NoRun
    BadObserver = {}
    SendFailures = FALSE
    Heartbeat = FALSE
    MayCrash = TRUE
    HasMaxAge = FALSE
    QueueBound = 2
    SlowAgents = FALSE
    ClientStops = TRUE
    ClientCommands = {}
SPECIFICATION NoTestEndsSpec
PROPERTY StopIsEffective
