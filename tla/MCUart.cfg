CONSTANTS
    c0 = c0
    c1 = c1
    p1 = p1
    p2 = p2
    p3 = p3
    NoByte = NoByte
    NoProc = NoProc
    Handler = Handler
    IrqCore = c0
    Core = {c0}
    Home <- Together
    Writer = {p1, p2}
    Reader = {p3}
    Byte = {0, 1}
    Written = {0}
    UART_IBLEN = 3
    UART_OBLEN = 2
SPECIFICATION Spec
INVARIANTS CountsAgree TransmitterRight
PROPERTY RefinesFifo
