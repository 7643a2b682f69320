CONSTANTS
    NPROC = 3
    c1 = c1
    c2 = c2
    CPUs = {c1, c2}
    None = None
    MaxPid = 3
    KillArgs = {2}
SPECIFICATION FairSpec
INVARIANTS
    OneStack
    ZombieNoticed
    ParentAlive
PROPERTIES
    BornUnkilled
    OrphanReaped
