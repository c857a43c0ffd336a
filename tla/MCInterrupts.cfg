CONSTANTS
    Core <- TwoCores
    NPROC = 4
    QUANTUM = 1
    AGING = TRUE
    WRAP = 4
    CYCLES = 2
    Home <- TwoAndNone
    Enables = {2, 3}
    MAIN = 2
SPECIFICATION FairSpec
INVARIANTS MasksRight TimersRight
PROPERTIES Preempted UartServed
