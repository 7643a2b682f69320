CONSTANTS
    w1 = w1 w2 = w2 c1 = c1 c2 = c2
    Writers = {w1, w2}
    Printers = {c1, c2}
    intr = intr
    None = None
    Char = {0, 1}
    Echo = 2
    UART_TX_BUF_SIZE = 2
    MOD = 4
SPECIFICATION FairSpec
PROPERTIES
    InOrder
    Written
