SPECIFICATION FairSpec
CONSTANTS
    p1 = p1  p2 = p2
    Procs = {p1, p2}
    Setups <- AnySetup
CHECK_DEADLOCK FALSE
PROPERTIES ResultsAreBound ReplayEnds
