CONSTANTS
    p1 = p1
    p2 = p2
    a1 = a1
    a2 = a2
    None = None
    Proc = {p1, p2}
    Name = {a1, a2}
    DISKBLOCKTOTAL = 5
    FREEBLOCKMAX = 1
    DIRENTRIES = 2
    DISKBLOCKLEN = 1
    SeekApart = FALSE
    FailAt <- Fails2
    LateFailAt <- LateFails2
    Uninit = {0}
    Creates <- Creates2
    Deletes <- Deletes2
    Reads <- Reads2
    Tests <- Tests2
    CrashAt <- Survivable
    CrashAhead = FALSE
    LastSession = 1
SPECIFICATION Spec
INVARIANTS BlockHasOneOwner DiskIsCurrent
PROPERTY ClosedFileSurvives
\* A write that failed with the lock held stops every later command.
CHECK_DEADLOCK FALSE
