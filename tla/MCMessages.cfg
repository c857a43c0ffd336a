CONSTANTS
    Core <- TwoCores
    NPROC = 5
    QUANTUM = 1
    AGING = TRUE
    Home <- Apart
    Sender = {3, 4}
    Receiver = {2}
    HasLock = {2, 3, 4}
    Recvnow = FALSE
    Mortal = {2, 3}
    Reborn = {3}
    KillAt = {"run", "lock", "test", "block", "deposit", "take"}
    Windows = TRUE
SPECIFICATION Spec
 
PROPERTY RefinesMailbox
