CONSTANTS
    c1 = c1
    c2 = c2
    p1 = p1
    p2 = p2
    p3 = p3
    ready = ready
    sem = sem
    AnyCore = AnyCore
    NoCore = NoCore
    EMPTY = EMPTY
    Core = {c1, c2}
    Proc = {p1, p2, p3}
    Queue = {ready, sem}
    Locked = {sem}
    Owner <- Owners
    Crossing = FALSE
SPECIFICATION Spec
INVARIANT LinksAgree
PROPERTY RefinesProcQueues
