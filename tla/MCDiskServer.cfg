CONSTANTS
    p1 = p1
    p2 = p2
    b1 = b1
    b2 = b2
    v1 = v1
    v2 = v2
    None = None
    Zero = Zero
    Garbage = Garbage
    Proc = {p1, p2}
    Block = {b1, b2}
    Value = {v1, v2}
    Last = None
    Uses <- SharedBlock
    Puts <- OwnValue
    DOPEN_RETRY = 3
    MAXTRIES = 2
    WriteTries = 3
    LineEnd = "rn"
    Noisy <- Payload
    MaxNoise = 2
    CrashAt <- BetweenLines
    SlowBoot = TRUE
    KillAt <- Waiting
SPECIFICATION FairSpec
INVARIANTS DiskKeepsWrites FindsDaemon
PROPERTIES ReadIsCurrent TransferEnds
