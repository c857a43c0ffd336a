CONSTANTS
    Core <- OneCore
    WORD = 256
    MemHeap = 96
    BOUND = 40
    FreeLists = 24
    HEADSIZE = 24
    Requests = {4, 16}
    DoubleFree = TRUE
SPECIFICATION Spec
INVARIANTS OneOwner ListsInOrder
