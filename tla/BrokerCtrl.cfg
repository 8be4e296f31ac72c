\* Three agents, two runs of which one has a bad observer, failing sends.
CONSTANTS
    Agents = {a1, a2, a3}
    RunIds = {r1, r2}
    NoRun = NoRun
    BadObserver = {r2}
    SendFailures = TRUE
SPECIFICATION Spec
SYMMETRY Symmetry
INVARIANTS
    CtrlInv
    AnnouncedIsOver
PROPERTIES
    NoHandover
    BoardSpec
