CONSTANTS
    p1 = p1
    p2 = p2
    f1 = f1
    Procs = {p1, p2}
    Files = {f1}
    NOFILE = 2
    NINODES = 3
    NBLOCKS = 4
    NDIRECT = 1
    NINDIRECT = 1
    DPB = 3
    Names <- MCNames
    Workloads <- MCWorkloads
SYMMETRY Sym
SPECIFICATION Spec
INVARIANTS
    InodeRefsExact LinksCounted  BlocksExact NoFsPanic NoLockCycle
CHECK_DEADLOCK FALSE
