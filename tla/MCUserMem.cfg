CONSTANTS
    p1 = p1
    p2 = p2
    Procs = {p1, p2}
    initproc = p1
    NPTE = 2
    NFRAMES = 18
    PGSIZE = 2
    Programs <- MCPrograms
    Sbrks <- MCSbrks
SPECIFICATION Spec
INVARIANTS Conserved Contained 
CHECK_DEADLOCK FALSE
