CONSTANTS
    Core <- TwoCores
    NPROC = 5
    QUANTUM = 1
    AGING = TRUE
    Creators = {0}
    Remote = FALSE
    Overlap = FALSE
    Interrupted = {"create"}
    KillAt = {"run", "newpid", "test", "fill", "marked", "created", "ready"}
    Prios = {2}
SPECIFICATION FairSpec
INVARIANTS ReadyListsRight NumprocExact PidsAreCurrent
PROPERTY NoStarvation
