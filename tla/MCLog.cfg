SPECIFICATION FairSpec
CONSTANTS
  p1 = p1  p2 = p2  b1 = b1  b2 = b2  v0 = v0  v1 = v1
  NoProc = NoProc  NoBuf = NoBuf
  Procs = {p1, p2}
  InitProc = p1
  Blocks = {b1, b2}
  Val = {v0, v1}
  Zero = v0
  MAXOPBLOCKS = 2
  OPWRITES = 1
  LOGSIZE = 4
  SIZE = 4
INVARIANTS IInv 
PROPERTIES WriteAhead CrashAtomic SleeperWoken
