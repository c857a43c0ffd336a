CONSTANTS
    NCORES = 4
    NPROC = 50
    NSEM = 100
    NLOCK = 150
SPECIFICATION Spec
INVARIANTS TablesSuffice SharedLocked
CHECK_DEADLOCK FALSE
