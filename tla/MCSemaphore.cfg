CONSTANTS
    Core <- TwoCores
    NPROC = 6
    QUANTUM = 1
    AGING = TRUE
    NSEM = 1
    InitialCount <- TwoUnits
    Home <- Pairs
    MaxHold = 2
    Makers = {}
    Freeable = {}
    Killers = {2}
SPECIFICATION Spec
INVARIANTS UnitsBounded WaitersInPlace
