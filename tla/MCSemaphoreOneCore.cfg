CONSTANTS
    Core <- OneCore
    NPROC = 4
    QUANTUM = 1
    AGING = TRUE
    NSEM = 2
    InitialCount <- OneUnit
    Home <- Together
    MaxHold = 1
    Makers = {1}
    Freeable = {1}
    Killers = {}
SPECIFICATION FairSpec
INVARIANT WokenIsQueued
PROPERTIES RefinesSemaphore WaiterServed
