\* One agent, one run, and everything that can go wrong.
CONSTANTS
    Agents = {a1}
    RunIds = {r1}
    NoRun = NoRun
    BadObserver = {}
    SendFailures = FALSE
    Heartbeat = TRUE
    MayCrash = TRUE
    HasMaxAge = TRUE
    QueueBound = 2
    SlowAgents = TRUE
    ClientStops = TRUE
    ClientCommands = {"STOP"}
SPECIFICATION RoughSpec
INVARIANT AgentsSound
PROPERTY AgentsReturn
