\* One agent, a round of five beats, three looks.
CONSTANTS
    Agents <- OneAgent
    Interval = 4
    Register = 5
    Delay = 4
    Retries = 3
    Warmup = 1
    MaxLate = 1
    MaxBlock = 1
SPECIFICATION Spec
INVARIANTS
    HeartbeatInv
    LostInTime
    RosterInTime
PROPERTIES
    LiveBrokerKept
