CONSTANTS
    r1 = r1 r2 = r2 w1 = w1 w2 = w2
    Writers = {w1, w2}
    Readers = {r1}
    None = None
    Byte = {0, 1}
    PIPESIZE = 2
    MOD = 4
    MaxN = 2
SPECIFICATION Spec
INVARIANTS
    NoLostWakeup
    FreedUnused
PROPERTIES
    IsFifo
