------------------------------ MODULE UserMem ------------------------------
(***************************************************************************)
(* The memory of user processes other than mapped files: fork() copying    *)
(* it, exec() replacing it, sbrk() growing and shrinking it, text and data *)
(* brought in on demand, exit() and wait() freeing it, and what each of    *)
(* them does when kalloc() finds no frame (kernel/vm.c, proc.c, exec.c,    *)
(* trap.c, sysfile.c sys_exec).                                            *)
(*                                                                         *)
(* Sizes and addresses are in units of which PGSIZE make a page, so that a *)
(* size need not be a multiple of a page.  Programs start at address 0.    *)
(* Contents are left out, and free frames are only counted (kalloc's lock  *)
(* makes each allocation one step; a step of the model allocates at most   *)
(* one page and the tables on the way to it).                              *)
(***************************************************************************)
EXTENDS Integers, FiniteSetsExt, PageTable

CONSTANTS
    Procs,          \* the entries of proc[]
    initproc,       \* the first process
    NFRAMES,        \* how many frames kinit() puts on the free list
    PGSIZE,         \* units per page
    Programs,       \* the executables: [text : size, data : size]
    Sbrks           \* arguments of sbrk() the processes use

USERTOP == TRAPFRAME * PGSIZE

ASSUME UserMemAssumption ==
    /\ initproc \in Procs
    /\ NFRAMES \in Nat /\ PGSIZE \in Nat \ {0}
    /\ Programs \subseteq [text : Nat, data : Nat]
    /\ Sbrks \subseteq Int

VARIABLES
    pc,         \* where each process is
    loc,        \* the local variables of its call
    pt,         \* pt[p]["cur"] is its page table, ["new"] the one exec() builds
    sz,         \* p->sz
    seg,        \* p->text.size and p->data.size
    free,       \* the number of frames on the free list
    panicked,   \* the message of a kernel panic
    damaged     \* history: the processes whose segments no longer lie within
                \* their memory, after sbrk() or an exec() that failed

vars == <<pc, loc, pt, sz, seg, free, panicked, damaged>>

\* The pages that n units take.
PGROUNDUP(n) == (n + PGSIZE - 1) \div PGSIZE

\* Locals: the table uvmalloc() works on, its next page, its bounds; the
\* child of fork(); a frame that is in no table yet; the address of a fault
\* and whether the kernel itself took it, in copyin() or copyout().
NoLoc == [tab |-> "cur", a |-> 0, old |-> 0, new |-> 0, child |-> initproc,
          hand |-> 0, va |-> 0, kernel |-> FALSE, prog |-> [text |-> 0, data |-> 0]]

FirstTable == mappages(proc_pagetable, 0, "user", NFRAMES)

\* After userinit(): one page with initcode.
Init ==
    /\ pc = [p \in Procs |-> IF p = initproc THEN "user" ELSE "unused"]
    /\ loc = [p \in Procs |-> NoLoc]
    /\ pt = [p \in Procs |-> [cur |-> IF p = initproc THEN FirstTable ELSE NoTable,
                              new |-> NoTable]]
    /\ sz = [p \in Procs |-> IF p = initproc THEN PGSIZE ELSE 0]
    /\ seg = [p \in Procs |-> [text |-> 0, data |-> 0]]
    /\ free = NFRAMES - Frames(FirstTable) - 1
    /\ panicked = ""
    /\ damaged = {}

Goto(p, where) == pc' = [pc EXCEPT ![p] = where]

\* A system call or a trap of p ends.
Return(p) == Goto(p, "user") /\ loc' = [loc EXCEPT ![p] = NoLoc]

\* The machine halts.
Panic(why) ==
    /\ panicked' = why
    /\ pc' = [q \in Procs |-> "halted"]
    /\ UNCHANGED <<loc, pt, sz, seg, free, damaged>>

TextPages(p) == 0 .. (PGROUNDUP(seg[p].text) - 1)
DataPages(p) == {PGROUNDUP(seg[p].text) + i : i \in 0 .. (PGROUNDUP(seg[p].data) - 1)}

\* The pages of both segments, which exec() puts at the bottom.
Top(s) == PGROUNDUP(s.text) + PGROUNDUP(s.data)

\* That a program, its guard page and its stack stay below TRAPFRAME is a
\* bound of the model, as it is for sbrk(): the code does not test for it.
ASSUME ProgramsAssumption == \A prog \in Programs : Top(prog) + 2 <= TRAPFRAME

-----------------------------------------------------------------------------
(* sbrk and uvmalloc.                                                      *)

\* growproc(): growing runs uvmalloc(), shrinking uvmdealloc(), which does
\* nothing for a size that wrapped below zero.  That memory stays below
\* TRAPFRAME is a bound of the model.
Sbrk(p, n) ==
    LET new == sz[p] + n
        gone == PGROUNDUP(new) .. (PGROUNDUP(sz[p]) - 1)
    IN  /\ pc[p] = "user"
        /\ \/ /\ n > 0 /\ new <= USERTOP
              /\ Goto(p, "grow")
              /\ loc' = [loc EXCEPT ![p].a = PGROUNDUP(sz[p]),
                                    ![p].old = sz[p], ![p].new = new]
              /\ UNCHANGED <<pt, sz, free, damaged>>
           \/ /\ n < 0 /\ new >= 0
              /\ pt' = [pt EXCEPT ![p].cur = uvmunmap(@, gone)]
              /\ free' = free + Cardinality(gone \cap DOMAIN pt[p].cur.leaf)
              /\ sz' = [sz EXCEPT ![p] = new]
              /\ damaged' = IF new < Top(seg[p]) * PGSIZE THEN damaged \cup {p} ELSE damaged
              /\ UNCHANGED <<pc, loc>>
        /\ UNCHANGED <<seg, panicked>>

\* Fault: the last page mapped before the failure is kept.
UndoShort(p, t) ==
    uvmunmap(t, PGROUNDUP(loc[p].old) .. (loc[p].a - 2))

\* uvmdealloc(a, oldsz) after a failure in uvmalloc().
Undo(p, t) ==
    uvmunmap(t, PGROUNDUP(loc[p].old) .. (loc[p].a - 1))

\* uvmalloc() fails: sbrk() returns -1, exec() goes to "bad".
GrowFail(p, t) ==
    /\ pt' = [pt EXCEPT ![p][loc[p].tab] = Undo(p, t)]
    /\ free' = free + Frames(pt[p][loc[p].tab]) - Frames(Undo(p, t))
    /\ IF loc[p].tab = "new"
       THEN Goto(p, "bad") /\ UNCHANGED loc
       ELSE Return(p)

\* One page of uvmalloc().
GrowPage(p) ==
    LET t == pt[p][loc[p].tab]
        new == mappages(t, loc[p].a, "user", free - 1)
    IN  /\ pc[p] = "grow" /\ loc[p].a * PGSIZE < loc[p].new
        /\ IF free = 0
           THEN GrowFail(p, t) /\ UNCHANGED <<sz, seg, panicked, damaged>>
           ELSE IF Remap(t, loc[p].a)
           THEN Panic("mappages: remap")
           ELSE /\ IF CanMap(t, loc[p].a, free - 1)
                   THEN /\ pt' = [pt EXCEPT ![p][loc[p].tab] = new]
                        /\ free' = free - (Frames(new) - Frames(t))
                        /\ loc' = [loc EXCEPT ![p].a = @ + 1]
                        /\ UNCHANGED pc
                   ELSE GrowFail(p, new)
                /\ UNCHANGED <<sz, seg, panicked, damaged>>

\* uvmalloc() returns the new size.
GrowDone(p) ==
    /\ pc[p] = "grow" /\ loc[p].a * PGSIZE >= loc[p].new
    /\ IF loc[p].tab = "new"
       THEN Goto(p, "args") /\ UNCHANGED <<loc, sz>>
       ELSE /\ sz' = [sz EXCEPT ![p] = loc[p].new]
            /\ Return(p)
    /\ UNCHANGED <<pt, seg, free, panicked, damaged>>

-----------------------------------------------------------------------------
(* fork, exit and wait.                                                    *)

\* allocproc() takes a frame for the trapframe and those of an empty page
\* table, or gives all of them back; the child gets the parent's segments.
ForkStart(p, c) ==
    LET need == 1 + Frames(proc_pagetable) IN
    /\ pc[p] = "user" /\ pc[c] = "unused"
    /\ free >= need
    /\ free' = free - need
    /\ pt' = [pt EXCEPT ![c].cur = proc_pagetable]
    /\ seg' = [seg EXCEPT ![c] = seg[p]]
    /\ pc' = [pc EXCEPT ![p] = "fork", ![c] = "used"]
    /\ loc' = [loc EXCEPT ![p].child = c, ![p].a = PGROUNDUP(seg[p].text)]
    /\ UNCHANGED <<sz, panicked, damaged>>

\* The pages _uvmcopy() still has to copy.
ToCopy(p) ==
    {v \in DOMAIN pt[p].cur.leaf : v >= loc[p].a /\ v * PGSIZE < sz[p]}

\* _uvmcopy() of the next page that is present.
ForkPage(p) ==
    LET c == loc[p].child
        t == pt[c].cur
        v == Min(ToCopy(p))
        new == mappages(t, v, pt[p].cur.leaf[v], free - 1)
    IN  /\ pc[p] = "fork" /\ ToCopy(p) # {}
        /\ IF free > 0 /\ CanMap(t, v, free - 1)
           THEN /\ pt' = [pt EXCEPT ![c].cur = new]
                /\ free' = free - (Frames(new) - Frames(t))
                /\ loc' = [loc EXCEPT ![p].a = v + 1]
                /\ UNCHANGED pc
           ELSE /\ pt' = [pt EXCEPT ![c].cur = NoTable]
                /\ free' = free + Frames(t) + 1
                /\ pc' = [pc EXCEPT ![p] = "user", ![c] = "unused"]
                /\ loc' = [loc EXCEPT ![p] = NoLoc]
        /\ UNCHANGED <<sz, seg, panicked, damaged>>

ForkDone(p) ==
    LET c == loc[p].child IN
    /\ pc[p] = "fork" /\ ToCopy(p) = {}
    /\ sz' = [sz EXCEPT ![c] = sz[p]]
    /\ pc' = [pc EXCEPT ![p] = "user", ![c] = "user"]
    /\ loc' = [loc EXCEPT ![p] = NoLoc]
    /\ damaged' = IF p \in damaged THEN damaged \cup {c} ELSE damaged
    /\ UNCHANGED <<pt, seg, free, panicked>>

\* exit(): _deallocvma() of text and data.
Exit(p) ==
    IF p = initproc
    THEN Panic("init exiting")
    ELSE LET t == pt[p].cur
             gone == {v \in TextPages(p) \cup DataPages(p) : UserPage(t, v)}
         IN  /\ pt' = [pt EXCEPT ![p].cur = uvmunmap(t, gone)]
             /\ free' = free + Cardinality(gone)
             /\ Goto(p, "zombie")
             /\ loc' = [loc EXCEPT ![p] = NoLoc]
             /\ UNCHANGED <<sz, seg, panicked, damaged>>

CallExit(p) == pc[p] = "user" /\ p # initproc /\ Exit(p)

\* wait() of the parent: freeproc().
Reap(p) ==
    /\ pc[p] = "zombie"
    /\ IF LeafLeft(pt[p].cur, PGROUNDUP(sz[p]))
       THEN Panic("freewalk: leaf")
       ELSE /\ free' = free + Frames(pt[p].cur) + 1
            /\ pt' = [pt EXCEPT ![p].cur = NoTable]
            /\ sz' = [sz EXCEPT ![p] = 0]
            /\ damaged' = damaged \ {p}
            /\ Goto(p, "unused")
            /\ UNCHANGED <<loc, seg, panicked>>

-----------------------------------------------------------------------------
(* exec.                                                                   *)

\* sys_exec() keeps a frame for the argument strings; exec() makes an empty
\* page table.  Without the frames the call fails and nothing has changed.
ExecStart(p, prog) ==
    LET need == 1 + Frames(proc_pagetable) IN
    /\ pc[p] = "user"
    /\ free >= need
    /\ free' = free - need
    /\ pt' = [pt EXCEPT ![p].new = proc_pagetable]
    /\ Goto(p, "exec")
    /\ loc' = [loc EXCEPT ![p].hand = 1, ![p].prog = prog]
    /\ UNCHANGED <<sz, seg, panicked, damaged>>

\* A program header that cannot be read or is malformed: goto bad.
ExecBadHeader(p) ==
    /\ pc[p] = "exec"
    /\ Goto(p, "bad")
    /\ UNCHANGED <<loc, pt, sz, seg, free, panicked, damaged>>

\* allocvmaelf() makes the new segments those of the process; uvmalloc() of
\* the guard page and the stack comes next.
ExecSegments(p) ==
    LET prog == loc[p].prog
        top == Top(prog)
    IN  /\ pc[p] = "exec"
        /\ seg' = [seg EXCEPT ![p] = prog]
        /\ Goto(p, "grow")
        /\ loc' = [loc EXCEPT ![p].tab = "new", ![p].a = top,
                              ![p].old = top * PGSIZE, ![p].new = (top + 2) * PGSIZE]
        /\ UNCHANGED <<pt, sz, free, panicked, damaged>>

\* The arguments do not fit on the stack: goto bad.
ExecBadArgs(p) ==
    /\ pc[p] = "args"
    /\ Goto(p, "bad")
    /\ UNCHANGED <<loc, pt, sz, seg, free, panicked, damaged>>

\* uvmclear() of the guard page, and the commit to the new image: the old
\* page table is freed, and the argument strings with it.
ExecCommit(p) ==
    LET new == uvmclear(pt[p].new, PGROUNDUP(loc[p].old)) IN
    /\ pc[p] = "args"
    /\ IF LeafLeft(pt[p].cur, PGROUNDUP(sz[p]))
       THEN Panic("freewalk: leaf")
       ELSE /\ pt' = [pt EXCEPT ![p] = [cur |-> new, new |-> NoTable]]
            /\ free' = free + Frames(pt[p].cur) + loc[p].hand
            /\ sz' = [sz EXCEPT ![p] = loc[p].new]
            /\ damaged' = damaged \ {p}
            /\ Return(p)
            /\ UNCHANGED <<seg, panicked>>

\* Fault: the frame of the argument strings is not freed.
ExecBadLeak(p) ==
    /\ pc[p] = "bad"
    /\ free' = free + Frames(pt[p].new)
    /\ pt' = [pt EXCEPT ![p].new = NoTable]
    /\ damaged' = IF loc[p].tab = "new" THEN damaged \cup {p} ELSE damaged
    /\ Return(p)
    /\ UNCHANGED <<sz, seg, panicked>>

\* bad: the new page table and the argument strings are freed.  Nothing puts
\* the old segments back.
ExecBad(p) ==
    /\ pc[p] = "bad"
    /\ free' = free + Frames(pt[p].new) + loc[p].hand
    /\ pt' = [pt EXCEPT ![p].new = NoTable]
    /\ damaged' = IF loc[p].tab = "new" THEN damaged \cup {p} ELSE damaged
    /\ Return(p)
    /\ UNCHANGED <<sz, seg, panicked>>

-----------------------------------------------------------------------------
(* Page faults of user code, and copyin/copyout/copyinstr in system calls. *)

\* An access to a unit that no user page holds.
Missing(p, u) == ~UserPage(pt[p].cur, u \div PGSIZE)

\* Fault: the address after the last one of data counts as data.
InSegmentsWide(p, u) ==
    \/ u < seg[p].text
    \/ u >= PGROUNDUP(seg[p].text) * PGSIZE
       /\ u <= PGROUNDUP(seg[p].text) * PGSIZE + seg[p].data

InSegments(p, u) ==
    \/ u < seg[p].text
    \/ u >= PGROUNDUP(seg[p].text) * PGSIZE
       /\ u < PGROUNDUP(seg[p].text) * PGSIZE + seg[p].data

\* The kernel touches address 0: whatever kerneltrap() does about the page,
\* devintr() does not know the cause and it panics.
kerneltrap == Panic("kerneltrap")

\* allocPhysicalVMA() takes a frame for text or data, and goes on without one.
TakeFrame(p, u, kernel) ==
    IF free = 0
    THEN kerneltrap
    ELSE /\ free' = free - 1
         /\ Goto(p, "fault")
         /\ loc' = [loc EXCEPT ![p].hand = 1, ![p].va = u \div PGSIZE, ![p].kernel = kernel]
         /\ UNCHANGED <<pt, sz, seg, panicked, damaged>>

\* usertrap(): an access of user code outside the segments ends the process.
Access(p, u) ==
    /\ pc[p] = "user" /\ Missing(p, u)
    /\ IF InSegments(p, u) THEN TakeFrame(p, u, FALSE) ELSE Exit(p)

\* copyin(), copyout() and copyinstr(); outside the segments the system call
\* fails with nothing changed.
Copy(p, u) ==
    /\ pc[p] = "user" /\ Missing(p, u)
    /\ InSegments(p, u)
    /\ TakeFrame(p, u, TRUE)

\* After readi(): mappages().  When it fails the frame is freed and the
\* process marked killed; but a copy in the kernel then uses address 0.
FaultMap(p) ==
    LET t == pt[p].cur
        new == mappages(t, loc[p].va, "user", free)
    IN  /\ pc[p] = "fault"
        /\ IF Remap(t, loc[p].va)
           THEN Panic("mappages: remap")
           ELSE IF CanMap(t, loc[p].va, free)
           THEN /\ pt' = [pt EXCEPT ![p].cur = new]
                /\ free' = free + 1 - (Frames(new) - Frames(t))
                /\ Return(p)
                /\ UNCHANGED <<sz, seg, panicked, damaged>>
           ELSE IF loc[p].kernel
           THEN kerneltrap
           ELSE /\ pt' = [pt EXCEPT ![p].cur = new]
                /\ free' = free + 1 - (Frames(new) - Frames(t))
                /\ Goto(p, "killed")
                /\ loc' = [loc EXCEPT ![p] = NoLoc]
                /\ UNCHANGED <<sz, seg, panicked, damaged>>

Killed(p) == pc[p] = "killed" /\ Exit(p)

-----------------------------------------------------------------------------
Next ==
    \E p \in Procs :
        \/ \E n \in Sbrks : Sbrk(p, n)
        \/ GrowPage(p) \/ GrowDone(p)
        \/ \E c \in Procs : ForkStart(p, c)
        \/ ForkPage(p) \/ ForkDone(p)
        \/ CallExit(p) \/ Reap(p)
        \/ \E prog \in Programs : ExecStart(p, prog)
        \/ ExecBadHeader(p) \/ ExecSegments(p) \/ ExecBadArgs(p)
        \/ ExecCommit(p) \/ ExecBad(p)
        \/ \E u \in 0..(USERTOP - 1) : Access(p, u) \/ Copy(p, u)
        \/ FaultMap(p) \/ Killed(p)

Spec == Init /\ [][Next]_vars

-----------------------------------------------------------------------------
\* No frame is lost or counted twice, whatever call fails for want of memory
\* and at whichever point: the free frames and those in page tables, in
\* trapframes and in the hands of a running call are always all of them
\* (usertests' countfree() measures the same between its tests).
Conserved ==
    /\ free >= 0
    /\ panicked = "" =>
          free + MapThenSumSet(LAMBDA p : Frames(pt[p].cur) + Frames(pt[p].new) + loc[p].hand
                                          + IF pc[p] = "unused" THEN 0 ELSE 1, Procs) = NFRAMES

\* p->sz bounds the memory of a process: outside a call, no page is mapped
\* beyond it, so that sbrk() can grow into fresh pages and freewalk() finds
\* no leaf; a uvmalloc() that failed half way has removed what it mapped.
\* (A damaged process can fault a page of its segments in above p->sz.)
Contained ==
    \A p \in Procs \ damaged : pc[p] = "user" =>
        DOMAIN pt[p].cur.leaf \ {TRAMPOLINE, TRAPFRAME} \subseteq 0..(PGROUNDUP(sz[p]) - 1)

\* Growing, faulting, exec() and exit() panic over a page mapped twice or left
\* over only in a process that shrank its memory into its segments, or whose
\* exec() failed after it had replaced them.
NoImagePanic == panicked \in {"mappages: remap", "freewalk: leaf"} => damaged # {}
=============================================================================
