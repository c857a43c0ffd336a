CONSTANTS
    c1 = c1
    c2 = c2
    c3 = c3
    com = com
    queue = queue
    bad = bad
    NoCore = NoCore
    NoLock = NoLock
    Core <- ThreeCores
    Lock = {com, queue, bad}
    Used = {com, queue}
    Outer = {com}
SPECIFICATION FairSpec
INVARIANTS TypeOK MutualExclusion CoreNamesHolder LockWordHeld
PROPERTIES RefinesMutex SomeoneAcquires
