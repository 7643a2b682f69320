-------------------------------- MODULE Mmap --------------------------------
(***************************************************************************)
(* Memory-mapped files: sys_mmap, sys_munmap, the table of VMAs, their     *)
(* inheritance by fork() and their removal by exit(), the page faults that *)
(* bring a page in or copy it on write, and copyin/copyout of a mapped     *)
(* page during read() and write() (kernel/proc.c, trap.c, vm.c, sysproc.c).*)
(*                                                                         *)
(* Addresses are page numbers and sizes numbers of pages; the area below   *)
(* TRAPFRAME is all a process has here (text, data, stack and heap are     *)
(* UserMem's).  A page-table entry is the frame and the permissions among  *)
(* "R" and "W"; contents of pages and files, and vma->offset that only     *)
(* selects contents, are left out.  Page-table pages are not counted, so   *)
(* mappages() always finds room.                                           *)
(*                                                                         *)
(* The steps are cut where another process can see or change what the      *)
(* handler uses: getref() without a lock, vma->used cleared before the     *)
(* VMA is last read, and the places that sleep for an inode.  The files    *)
(* of Files are open throughout, so that the references a VMA holds on its *)
(* file are left out and only the lock of the inode matters.               *)
(***************************************************************************)
EXTENDS Integers, FiniteSets, FiniteSetsExt, Kalloc

CONSTANTS
    Procs,              \* the entries of proc[]
    first,              \* the process that runs at the start
    Files,              \* the open files, which stand for their inodes too
    Writable,           \* those opened for writing as well as for reading
    PER_PROCESS_VMAS,   \* kernel/param.h
    NVMAS,              \* kernel/param.h
    TRAPFRAME,          \* the first page above the mapped area
    Maps,               \* arguments of mmap the processes use
    NoFrame,            \* the frame of an invalid page-table entry
    MaxForks            \* bound: how often the processes fork

Slots == 1..PER_PROCESS_VMAS
Area == 1..(TRAPFRAME - 1)
RW == {"R", "W"}

ASSUME MmapAssumption ==
    /\ first \in Procs
    /\ Writable \subseteq Files
    /\ NoFrame \notin Frames
    /\ PER_PROCESS_VMAS \in Nat \ {0} /\ NVMAS \in Nat \ {0}
    /\ TRAPFRAME \in Nat \ {0, 1}
    /\ Maps \subseteq [len : Nat, prot : SUBSET RW \ {{}},
                       flags : {"PRIVATE", "SHARED"}, file : Files]

VARIABLES
    pc,         \* where each process is
    loc,        \* the local variables of its call
    pt,         \* its page table
    nmp,        \* p->nmp: the lowest mapped page
    pvma,       \* p->vmas[]: indices into vmas[], 0 for none
    vma,        \* the global table vmas[]
    ilocked,    \* who holds the lock of the file's inode
    panicked,   \* the message of a kernel panic
    forks       \* how often fork() was called

procs == <<pc, loc>>
maps == <<pt, nmp, pvma, vma>>
rest == <<panicked, forks>>
vars == <<pc, loc, pt, nmp, pvma, vma, ilocked, panicked, forks, kvars>>

NoPTE == [frame |-> NoFrame, perm |-> {}]
NoVMA == [used |-> FALSE, file |-> CHOOSE f \in Files : TRUE, addr |-> 0,
          size |-> 0, prot |-> {}, flags |-> "PRIVATE"]
NoLoc == [back |-> "user", i |-> 1, s |-> 1, va |-> 0, n |-> 0, j |-> 0,
          whole |-> FALSE, shared |-> FALSE, frame |-> NoFrame, tmp |-> 0,
          file |-> CHOOSE f \in Files : TRUE, child |-> first]

Nobody == "nobody"

Init ==
    /\ kinit
    /\ pc = [p \in Procs |-> IF p = first THEN "user" ELSE "unused"]
    /\ loc = [p \in Procs |-> NoLoc]
    /\ pt = [p \in Procs |-> [v \in Area |-> NoPTE]]
    /\ nmp = [p \in Procs |-> TRAPFRAME]
    /\ pvma = [p \in Procs |-> [i \in Slots |-> 0]]
    /\ vma = [k \in 1..NVMAS |-> NoVMA]
    /\ ilocked = [f \in Files |-> Nobody]
    /\ panicked = ""
    /\ forks = 0

-----------------------------------------------------------------------------
(* Reading the state.                                                      *)

\* The pages of VMA k.
Pages(k) == vma[k].addr .. (vma[k].addr + vma[k].size - 1)

\* The slots of p whose VMA holds page v; the code takes the first.
SlotsAt(p, v) == {i \in Slots : pvma[p][i] # 0 /\ v \in Pages(pvma[p][i])}

\* walkaddr(): the frame at page v, if there is one.
Present(p, v) == v \in Area /\ pt[p][v] # NoPTE

\* What the MMU allows: an entry without "R" is a reserved encoding and
\* faults on every access.
Permits(pte, access) ==
    /\ "R" \in pte.perm
    /\ access = "store" => "W" \in pte.perm

\* Fault: fork() leaves a private page writable.
ForkPermKept(k) == vma[k].prot

\* The permissions fork() gives to an inherited page.
ForkPerm(k) ==
    IF vma[k].flags = "PRIVATE" THEN vma[k].prot \ {"W"} ELSE vma[k].prot

\* Fault: any count means the last reference.
AnyRef(f) == getref(f) >= 1

\* deallocvma() frees a frame when this holds.
LastRef(f) == getref(f) = 1

\* uvmunmap() of one page.
Unmapped(p, v) == pt' = [pt EXCEPT ![p][v] = NoPTE]

Goto(p, where) == pc' = [pc EXCEPT ![p] = where]

\* The machine halts.
Panic(why) ==
    /\ panicked' = why
    /\ pc' = [q \in Procs |-> "halted"]
    /\ UNCHANGED <<loc, maps, ilocked, forks, kvars>>

\* Return from deallocvma(): to user space, or to the next slot of exit().
Return(p) ==
    /\ Goto(p, loc[p].back)
    /\ loc' = [loc EXCEPT ![p] = [NoLoc EXCEPT !.back = loc[p].back,
                    !.i = IF loc[p].back = "exit" THEN loc[p].i + 1 ELSE 1]]

-----------------------------------------------------------------------------
(* mmap.                                                                   *)

\* The test of sys_mmap on the open file.
MayMap(m) == m.flags = "SHARED" /\ "W" \in m.prot => m.file \in Writable

FreeSlots(p) == {i \in Slots : pvma[p][i] = 0}
FreeVMAs == {k \in 1..NVMAS : ~vma[k].used}

\* sys_mmap() and allocvma(): the first free slot takes the first free VMA,
\* which goes below the others.  Room in the area is a bound of the model;
\* the code does not test for it.
Mmap(p, m) ==
    LET i == Min(FreeSlots(p))
        k == Min(FreeVMAs)
    IN  /\ pc[p] = "user"
        /\ MayMap(m)
        /\ FreeSlots(p) # {} /\ FreeVMAs # {}
        /\ nmp[p] - m.len \in Area
        /\ pvma' = [pvma EXCEPT ![p][i] = k]
        /\ vma' = [vma EXCEPT ![k] =
                [used |-> TRUE, file |-> m.file, addr |-> nmp[p] - m.len,
                 size |-> m.len, prot |-> m.prot, flags |-> m.flags]]
        /\ nmp' = [nmp EXCEPT ![p] = @ - m.len]
        /\ UNCHANGED <<procs, pt, ilocked, rest, kvars>>

-----------------------------------------------------------------------------
(* fork: the VMAs are inherited one by one.                               *)

ForkStart(p, c) ==
    /\ pc[p] = "user" /\ pc[c] = "unused"
    /\ forks < MaxForks
    /\ forks' = forks + 1
    /\ pc' = [pc EXCEPT ![p] = "fork", ![c] = "used"]
    /\ loc' = [loc EXCEPT ![p].child = c]
    /\ nmp' = [nmp EXCEPT ![c] = TRAPFRAME]
    /\ UNCHANGED <<pt, pvma, vma, ilocked, panicked, kvars>>

\* Give the child a VMA like the parent's, below its earlier ones, that
\* shares the pages present in the parent; a private page loses "W" on both
\* sides.  Without a free VMA the mapping is not inherited.
ForkVma(p) ==
    LET c == loc[p].child
        i == loc[p].i
        k == pvma[p][i]
        j == Min(FreeVMAs)
        base == nmp[c] - vma[k].size
        there == {v \in Pages(k) : Present(p, v)}
        entry(v) == [pt[p][v] EXCEPT !.perm = ForkPerm(k)]
    IN  /\ pc[p] = "fork" /\ i \in Slots
        /\ loc' = [loc EXCEPT ![p].i = @ + 1]
        /\ IF k = 0 \/ FreeVMAs = {}
           THEN UNCHANGED <<maps, kvars>>
           ELSE /\ pvma' = [pvma EXCEPT ![c][i] = j]
                /\ vma' = [vma EXCEPT ![j] = [vma[k] EXCEPT !.addr = base]]
                /\ nmp' = [nmp EXCEPT ![c] = base]
                /\ pt' = [pt EXCEPT
                       ![c] = [v \in Area |->
                                 IF v - base + vma[k].addr \in there
                                 THEN entry(v - base + vma[k].addr) ELSE @[v]],
                       ![p] = [v \in Area |->
                                 IF v \in there /\ vma[k].flags = "PRIVATE"
                                 THEN entry(v) ELSE @[v]]]
                /\ ref' = [f \in Frames |-> ref[f] +
                              Cardinality({v \in there : pt[p][v].frame = f})]
                /\ UNCHANGED freelist
        /\ UNCHANGED <<pc, ilocked, rest>>

\* The child becomes RUNNABLE.
ForkDone(p) ==
    /\ pc[p] = "fork" /\ loc[p].i \notin Slots
    /\ pc' = [pc EXCEPT ![p] = "user", ![loc[p].child] = "user"]
    /\ loc' = [loc EXCEPT ![p] = NoLoc]
    /\ UNCHANGED <<maps, ilocked, rest, kvars>>
-----------------------------------------------------------------------------
(* munmap and exit: deallocvma().                                          *)

\* Begin deallocvma(a, n) and return to "back" when it is done.  The VMA is
\* given up here, by used = 0, although the call goes on reading it.
Dealloc(p, a, n, back) ==
    LET s == Min({x \in SlotsAt(p, a) : vma[pvma[p][x]].used})
        k == pvma[p][s]
        whole == a = vma[k].addr /\ n = vma[k].size
        head == a = vma[k].addr /\ n < vma[k].size
        tail == a > vma[k].addr /\ a + n = vma[k].addr + vma[k].size
    IN  /\ whole \/ head \/ tail
        /\ vma' = [vma EXCEPT ![k] =
                CASE whole -> [@ EXCEPT !.used = FALSE]
                  [] head  -> [@ EXCEPT !.addr = @ + n, !.size = @ - n]
                  [] tail  -> [@ EXCEPT !.size = @ - n]]
        /\ Goto(p, "dflags")
        /\ loc' = [loc EXCEPT ![p].back = back, ![p].s = s, ![p].va = a,
                              ![p].n = n, ![p].whole = whole]
        /\ UNCHANGED <<pt, nmp, pvma, ilocked, rest, kvars>>

\* Fault: the first address of a VMA is not found.
FoundInside(p, a) ==
    \E s \in SlotsAt(p, a) : vma[pvma[p][s]].used /\ a > vma[pvma[p][s]].addr

\* deallocvma() finds a VMA in use that holds page a.
Found(p, a) == \E s \in SlotsAt(p, a) : vma[pvma[p][s]].used

\* sys_munmap() of n > 0 pages.
Munmap(p, a, n) ==
    /\ pc[p] = "user"
    /\ Found(p, a)
    /\ Dealloc(p, a, n, "user")

\* The VMA that p's call works on; it may be another process's by now.
Mine(p) == pvma[p][loc[p].s]

\* if (p->vmas[i]->flags == MAP_SHARED)
DeallocFlags(p) ==
    /\ pc[p] = "dflags"
    /\ Goto(p, "unmap")
    /\ loc' = [loc EXCEPT ![p].shared = vma[Mine(p)].flags = "SHARED"]
    /\ UNCHANGED <<maps, ilocked, rest, kvars>>

\* One turn of the loop over the pages.  A shared page that is present is
\* written back under the inode's lock, in the steps that follow; a private
\* one is freed if its count is 1 and otherwise only unmapped.
UnmapPage(p) ==
    LET v == loc[p].va + loc[p].j
        g == pt[p][v].frame
    IN  /\ pc[p] = "unmap" /\ loc[p].j < loc[p].n
        /\ \/ /\ ~Present(p, v)
              /\ loc' = [loc EXCEPT ![p].j = @ + 1]
              /\ UNCHANGED <<pc, pt, ilocked, kvars>>
           \/ /\ Present(p, v) /\ ~loc[p].shared
              /\ IF LastRef(g) THEN kfree(g) ELSE UNCHANGED kvars
              /\ Unmapped(p, v)
              /\ loc' = [loc EXCEPT ![p].j = @ + 1]
              /\ UNCHANGED <<pc, ilocked>>
           \/ /\ Present(p, v) /\ loc[p].shared
              /\ ilocked[vma[Mine(p)].file] = Nobody
              /\ ilocked' = [ilocked EXCEPT ![vma[Mine(p)].file] = p]
              /\ Goto(p, "wb")
              /\ UNCHANGED <<loc, pt, kvars>>
        /\ UNCHANGED <<nmp, pvma, vma, rest>>

\* After writei(): getref() decides whether the page is freed.
WriteBack(p) ==
    LET v == loc[p].va + loc[p].j
        g == pt[p][v].frame
    IN  /\ pc[p] = "wb"
        /\ IF LastRef(g)
           THEN /\ kfree(g)
                /\ Unmapped(p, v)
                /\ Goto(p, "wbend")
                /\ UNCHANGED loc
           ELSE /\ Goto(p, "wbdec")
                /\ loc' = [loc EXCEPT ![p].frame = g]
                /\ UNCHANGED <<pt, kvars>>
        /\ UNCHANGED <<nmp, pvma, vma, ilocked, rest>>

WriteBackDecref(p) ==
    /\ pc[p] = "wbdec"
    /\ decref(loc[p].frame)
    /\ Goto(p, "wbend")
    /\ UNCHANGED <<loc, maps, ilocked, rest>>

\* uvmunmap() without freeing, then iunlock() of the VMA's inode.
WriteBackEnd(p) ==
    LET f == vma[Mine(p)].file IN
    /\ pc[p] = "wbend"
    /\ IF ilocked[f] # p
       THEN Panic("iunlock")
       ELSE /\ Unmapped(p, loc[p].va + loc[p].j)
            /\ ilocked' = [ilocked EXCEPT ![f] = Nobody]
            /\ Goto(p, "unmap")
            /\ loc' = [loc EXCEPT ![p].j = @ + 1, ![p].frame = NoFrame]
            /\ UNCHANGED <<nmp, pvma, vma, rest, kvars>>

\* Fault: only the VMA that went away counts.
LowestReset(p, gone) == TRAPFRAME

\* nmp is set to the lowest VMA that is left.
Lowest(p, gone) ==
    Min({TRAPFRAME} \cup {vma[pvma[p][x]].addr : x \in {y \in Slots \ gone : pvma[p][y] # 0}})

\* End of the call: a whole VMA leaves the process (and drops its reference
\* to the file), and nmp is computed anew.  What an unused VMA that nobody
\* refers to still holds is never read again: the model forgets it.
DeallocEnd(p) ==
    LET gone == IF loc[p].whole THEN {loc[p].s} ELSE {} IN
    /\ pc[p] = "unmap" /\ loc[p].j >= loc[p].n
    /\ pvma' = [pvma EXCEPT ![p] = [s \in Slots |-> IF s \in gone THEN 0 ELSE @[s]]]
    /\ nmp' = [nmp EXCEPT ![p] = Lowest(p, gone)]
    /\ vma' = [k \in 1..NVMAS |->
                 IF vma[k].used \/ \E q \in Procs, s \in Slots : pvma'[q][s] = k
                 THEN vma[k] ELSE NoVMA]
    /\ Return(p)
    /\ UNCHANGED <<pt, ilocked, rest, kvars>>

\* exit(): deallocvma() of every slot.
Exit(p) ==
    /\ pc[p] = "user"
    /\ Goto(p, "exit")
    /\ UNCHANGED <<loc, maps, ilocked, rest, kvars>>

\* A slot whose VMA deallocvma() does not find is left as it is.
ExitVma(p) ==
    LET i == loc[p].i
        k == pvma[p][i]
    IN  /\ pc[p] = "exit" /\ i \in Slots
        /\ IF k # 0 /\ Found(p, vma[k].addr)
           THEN Dealloc(p, vma[k].addr, vma[k].size, "exit")
           ELSE /\ loc' = [loc EXCEPT ![p].i = @ + 1]
                /\ UNCHANGED <<pc, maps, ilocked, rest, kvars>>

ExitDone(p) ==
    /\ pc[p] = "exit" /\ loc[p].i \notin Slots
    /\ Goto(p, "zombie")
    /\ loc' = [loc EXCEPT ![p] = NoLoc]
    /\ UNCHANGED <<maps, ilocked, rest, kvars>>

\* freeproc() in wait(): freewalk() panics on an entry that is left.
Reap(p) ==
    /\ pc[p] = "zombie"
    /\ IF \E v \in Area : Present(p, v)
       THEN Panic("freewalk: leaf")
       ELSE /\ Goto(p, "unused")
            /\ UNCHANGED <<loc, maps, ilocked, rest, kvars>>

-----------------------------------------------------------------------------
(* Page faults, and system calls that use a mapped page as a buffer.       *)

\* The kernel touches address 0: whatever kerneltrap() does about the page,
\* devintr() does not know the cause and it panics.
kerneltrap == Panic("kerneltrap")

\* allocPhysicalVMA() takes the frame first, and goes on without one.
TakeFrame(p, v, back) ==
    IF OutOfMemory
    THEN kerneltrap
    ELSE /\ \E f \in freelist :
               /\ kalloc(f)
               /\ loc' = [loc EXCEPT ![p].va = v, ![p].frame = f, ![p].back = back,
                                     ![p].s = Min(SlotsAt(p, v))]
         /\ Goto(p, "fault")
         /\ UNCHANGED <<maps, ilocked, rest>>

\* usertrap() for a load or store the MMU refuses: a store to a page that
\* is present reads its count, a missing page is brought in, and an address
\* in no VMA ends the process.
Fault(p, v, access) ==
    /\ pc[p] = "user"
    /\ ~Permits(pt[p][v], access)
    /\ \/ /\ SlotsAt(p, v) # {} /\ Present(p, v) /\ access = "store"
          /\ Goto(p, "cow")
          /\ loc' = [loc EXCEPT ![p].va = v, ![p].tmp = getref(pt[p][v].frame)]
          /\ UNCHANGED <<maps, ilocked, rest, kvars>>
       \/ /\ SlotsAt(p, v) # {} /\ ~(Present(p, v) /\ access = "store")
          /\ TakeFrame(p, v, "user")
       \/ SlotsAt(p, v) = {} /\ Exit(p)

\* Copy on write, with the count that was read before.
Cow(p) ==
    LET v == loc[p].va IN
    /\ pc[p] = "cow"
    /\ IF loc[p].tmp > 1
       THEN IF OutOfMemory
            THEN kerneltrap
            ELSE /\ \E f \in freelist :
                       /\ kalloc(f)
                       /\ pt' = [pt EXCEPT ![p][v] = [frame |-> f, perm |-> @.perm \cup {"W"}]]
                 /\ Goto(p, "cowdec")
                 /\ loc' = [loc EXCEPT ![p].frame = pt[p][v].frame]
                 /\ UNCHANGED <<nmp, pvma, vma, ilocked, rest>>
       ELSE /\ pt' = IF loc[p].tmp = 1
                     THEN [pt EXCEPT ![p][v].perm = @ \cup {"W"}] ELSE pt
            /\ Return(p)
            /\ UNCHANGED <<nmp, pvma, vma, ilocked, rest, kvars>>

CowDecref(p) ==
    /\ pc[p] = "cowdec"
    /\ decref(loc[p].frame)
    /\ Return(p)
    /\ UNCHANGED <<maps, ilocked, rest>>

\* ilock() of the mapped file's inode, then readi() into the frame.
FaultRead(p) ==
    LET f == vma[Mine(p)].file IN
    /\ pc[p] = "fault"
    /\ ilocked[f] = Nobody
    /\ ilocked' = [ilocked EXCEPT ![f] = p]
    /\ Goto(p, "faultmap")
    /\ UNCHANGED <<loc, maps, rest, kvars>>

\* iunlock() and mappages().
FaultMap(p) ==
    LET k == Mine(p)
        v == loc[p].va
    IN  /\ pc[p] = "faultmap"
        /\ IF Present(p, v)
           THEN Panic("mappages: remap")
           ELSE /\ pt' = [pt EXCEPT ![p][v] = [frame |-> loc[p].frame, perm |-> vma[k].prot]]
                /\ ilocked' = [ilocked EXCEPT ![vma[k].file] = Nobody]
                /\ IF loc[p].back = "copy"
                   THEN /\ Goto(p, "copy")
                        /\ loc' = [loc EXCEPT ![p].frame = NoFrame, ![p].back = "user", ![p].s = 1]
                   ELSE Return(p)
                /\ UNCHANGED <<nmp, pvma, vma, rest, kvars>>

\* read() or write() of an open file with page v as the buffer: the file's
\* inode is locked around copyout() or copyin().  An address outside the
\* VMAs makes the call fail with nothing changed.
Syscall(p, f, v) ==
    /\ pc[p] = "user"
    /\ SlotsAt(p, v) # {}
    /\ ilocked[f] = Nobody
    /\ ilocked' = [ilocked EXCEPT ![f] = p]
    /\ Goto(p, "copy")
    /\ loc' = [loc EXCEPT ![p].file = f, ![p].va = v]
    /\ UNCHANGED <<maps, rest, kvars>>

\* check_vmas() for a page that walkaddr() did not find: the copy-on-write
\* in it is for pages that are present and is never reached from here.
check_vmas(p, v) == TakeFrame(p, v, "copy")

\* copyout() or copyin(): a page that is present is copied to or from
\* whatever its permissions are, a missing one is brought in first.
Copy(p) ==
    LET v == loc[p].va IN
    /\ pc[p] = "copy"
    /\ IF Present(p, v)
       THEN /\ ilocked' = [ilocked EXCEPT ![loc[p].file] = Nobody]
            /\ Return(p)
            /\ UNCHANGED <<maps, rest, kvars>>
       ELSE check_vmas(p, v)

-----------------------------------------------------------------------------
Calls(p) ==
    \/ \E m \in Maps : Mmap(p, m)
    \/ \E a \in Area, n \in 1..(TRAPFRAME - 1) : Munmap(p, a, n)
    \/ \E v \in Area, x \in {"load", "store"} : Fault(p, v, x)
    \/ \E f \in Files, v \in Area : Syscall(p, f, v)
    \/ Exit(p)

Steps(p) ==
    \/ ForkVma(p) \/ ForkDone(p)
    \/ DeallocFlags(p) \/ UnmapPage(p) \/ DeallocEnd(p)
    \/ WriteBack(p) \/ WriteBackDecref(p) \/ WriteBackEnd(p)
    \/ ExitVma(p) \/ ExitDone(p) \/ Reap(p)
    \/ Cow(p) \/ CowDecref(p) \/ FaultRead(p) \/ FaultMap(p)
    \/ Copy(p)

Next ==
    \E p \in Procs : (\E c \in Procs : ForkStart(p, c)) \/ Calls(p) \/ Steps(p)

Spec == Init /\ [][Next]_vars

-----------------------------------------------------------------------------
Mappers(f) == {<<p, v>> \in Procs \X Area : pt[p][v].frame = f}

\* Those that have given their reference up and are about to unmap the page.
Leaving(f) == {p \in Procs : pc[p] = "wbend" /\ loc[p].frame = f}

\* Frames taken by a fault that has not mapped them yet.
Taken(f) == {p \in Procs : pc[p] \in {"fault", "faultmap"} /\ loc[p].frame = f}

\* A frame is never on the free list, nor handed out a second time, while a
\* page table still maps it: its count covers all the entries that refer to
\* it.  The unlocked getref() of usertrap() and deallocvma() may leave the
\* count too high or lose the frame, but never frees it under a sharer.
RefsCover ==
    panicked = "" => \A f \in Frames :
        /\ f \in freelist => /\ Cardinality(Mappers(f)) <= Cardinality(Leaving(f))
                             /\ Taken(f) = {}
        /\ f \notin freelist =>
              Cardinality(Mappers(f)) + Cardinality(Taken(f)) <= ref[f] + Cardinality(Leaving(f))

\* A process that can store into a page of a MAP_PRIVATE mapping is the only
\* one that maps its frame: fork() takes "W" from both sides, and usertrap()
\* gives it back only on a copy or to the last sharer.  (A process between
\* decref() and uvmunmap() no longer counts.)
WritableAlone ==
    \A p \in Procs, v \in Area :
        ("W" \in pt[p][v].perm /\ \E s \in SlotsAt(p, v) : vma[pvma[p][s]].flags = "PRIVATE"
         /\ pc[p] = "user")
        => \A m \in Mappers(pt[p][v].frame) :
              m = <<p, v>> \/ m[1] \in Leaving(pt[p][v].frame)

\* A process in user mode has disjoint VMAs above nmp, and every page it has
\* mapped belongs to one, so that munmap() and exit() will find it.
Layout ==
    \A p \in Procs : pc[p] = "user" =>
        LET mine == {s \in Slots : pvma[p][s] # 0} IN
        /\ \A s, t \in mine : s # t => Pages(pvma[p][s]) \cap Pages(pvma[p][t]) = {}
        /\ \A s \in mine : nmp[p] <= vma[pvma[p][s]].addr
        /\ \A v \in Area : Present(p, v) => SlotsAt(p, v) # {}

\* wait() never meets a page left in the page table of a process that exited
\* (freewalk: leaf), and a fault never maps a page twice (mappages: remap).
NoMappingPanic == panicked \notin {"freewalk: leaf", "mappages: remap"}
=============================================================================
