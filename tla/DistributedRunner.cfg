\* A run of two agents, another run of one agent, every way to call a runner.
CONSTANTS
    Crew = {a1, a2}
    Others = {b1}
    Modes = {"run", "detach", "attach"}
    MaxHits = 1
SPECIFICATION FairSpec
INVARIANTS
    RunnerInv
    AloneIsComplete
PROPERTY RunnerReturns
CHECK_DEADLOCK FALSE
