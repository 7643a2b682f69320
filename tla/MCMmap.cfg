CONSTANTS
    p1 = p1
    p2 = p2
    f1 = f1
    Procs = {p1, p2}
    first = p1
    Files = {f1}
    Writable = {f1}
    PER_PROCESS_VMAS = 2
    NVMAS = 2
    MaxForks = 1
    TRAPFRAME = 3
    a = a
    b = b
    NoFrame = NoFrame
    Frames = {a, b}
    Maps <- MCMaps
SYMMETRY Sym
SPECIFICATION Spec
INVARIANTS RefsCover WritableAlone Layout 
CHECK_DEADLOCK FALSE
