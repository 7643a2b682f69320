CONSTANTS
    p1 = p1 p2 = p2 b1 = b1 b2 = b2 b3 = b3
    Procs = {p1, p2}
    None = None
    Block = {b1, b2, b3}
    NoBlock = NoBlock
    Value = {0, 1}
    NBUF = 2
    MaxPin = 1
SPECIFICATION Spec
INVARIANTS
    RefsExact
    NoLostWakeup
PROPERTIES
    
    BuffersSuffice
