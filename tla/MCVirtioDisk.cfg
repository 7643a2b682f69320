CONSTANTS
    p1 = p1 p2 = p2 p3 = p3
    Procs = {p1, p2, p3}
    None = None
    intr = intr
    NUM = 7
    RING = 3
    MOD = 6
SPECIFICATION Spec
SYMMETRY Sym
INVARIANTS
    OwnDescriptors
    NoLostWakeup

    
