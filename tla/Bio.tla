-------------------------------- MODULE Bio ---------------------------------
(***************************************************************************)
(* The buffer cache of kernel/bio.c with the sleep-locks of sleeplock.c.   *)
(* bcache.lock and lk->lk are held only inside a step, so a step of the    *)
(* model is one critical section; the sleep-lock of a buffer is held over  *)
(* several.  The callers do what fs.c and log.c do: who changes a buffer   *)
(* pins it (log_write) or writes it (bwrite) before brelse, and a pin is   *)
(* taken back when the content has reached the disk.                       *)
(***************************************************************************)
EXTENDS Naturals, Sequences, FiniteSets

CONSTANTS
    Procs, None,
    Block, NoBlock,   \* block numbers; what an unused buffer caches
    Value,
    NBUF,
    MaxPin            \* bound on the pinned buffers (the size of the log)

Bufs == 1 .. NBUF

ASSUME BioAssumption ==
    /\ IsFiniteSet(Procs) /\ None \notin Procs
    /\ NoBlock \notin Block /\ Value # {}
    /\ NBUF \in Nat \ {0} /\ MaxPin \in Nat

VARIABLES
    order,                                  \* head.next ... head.prev
    blockno, valid, refcnt, data, locked,   \* struct buf; locked: the holder
    disk,                                   \* what the disk has
    pinned,                                 \* buffers with a pin of the log
    dirty,                                  \* changed since the last pin or bwrite
    pc, bp, want                            \* of each process

buf == <<order, blockno, valid, refcnt, data, locked>>
call == <<pc, bp, want>>
vars == <<order, blockno, valid, refcnt, data, locked, disk, pinned, dirty, pc, bp, want>>

\* binit() puts each buffer in front of those before it.
Init ==
    /\ order = [i \in Bufs |-> NBUF + 1 - i]
    /\ blockno = [b \in Bufs |-> NoBlock]
    /\ valid = [b \in Bufs |-> FALSE]
    /\ refcnt = [b \in Bufs |-> 0]
    /\ disk \in [Block -> Value]
    /\ data = [b \in Bufs |-> CHOOSE v \in Value : TRUE]
    /\ locked = [b \in Bufs |-> None]
    /\ pinned = {} /\ dirty = {}
    /\ pc = [p \in Procs |-> "idle"]
    /\ bp = [p \in Procs |-> 1]
    /\ want = [p \in Procs |-> NoBlock]

At(p, l) == pc[p] = l
Goto(p, l) == pc' = [pc EXCEPT ![p] = l]

-----------------------------------------------------------------------------
(* bget() and acquiresleep().                                              *)

Cached(n) == {b \in Bufs : blockno[b] = n}

\* Fault: a buffer is free when its lock is.
UnusedUnlocked == {i \in 1 .. Len(order) : locked[order[i]] = None}

\* Where in the list bget() finds a buffer it may recycle.
Unused == {i \in 1 .. Len(order) : refcnt[order[i]] = 0}

bget_hit(p, n) ==
    /\ At(p, "idle")
    /\ \E b \in Cached(n) :
         /\ refcnt' = [refcnt EXCEPT ![b] = @ + 1]
         /\ bp' = [bp EXCEPT ![p] = b]
    /\ want' = [want EXCEPT ![p] = n]
    /\ Goto(p, "lock")
    /\ UNCHANGED <<order, blockno, valid, data, locked, disk, pinned, dirty>>

\* The search goes from head.prev to the front.
bget_recycle(p, n) ==
    /\ At(p, "idle") /\ Cached(n) = {}
    /\ \E i \in Unused :
         /\ \A j \in Unused : j <= i
         /\ blockno' = [blockno EXCEPT ![order[i]] = n]
         /\ valid' = [valid EXCEPT ![order[i]] = FALSE]
         /\ refcnt' = [refcnt EXCEPT ![order[i]] = 1]
         /\ bp' = [bp EXCEPT ![p] = order[i]]
    /\ want' = [want EXCEPT ![p] = n]
    /\ Goto(p, "lock")
    /\ UNCHANGED <<order, data, locked, disk, pinned, dirty>>

\* panic("bget: no buffers")
bget_panic(p, n) ==
    /\ At(p, "idle") /\ Cached(n) = {} /\ Unused = {}
    /\ Goto(p, "panic")
    /\ UNCHANGED <<buf, disk, pinned, dirty, bp, want>>

acquiresleep(p) ==
    /\ At(p, "lock") /\ locked[bp[p]] = None
    /\ locked' = [locked EXCEPT ![bp[p]] = p]
    /\ Goto(p, "read")
    /\ UNCHANGED <<order, blockno, valid, refcnt, data, disk, pinned, dirty, bp, want>>

acquiresleep_wait(p) ==
    /\ At(p, "lock") /\ locked[bp[p]] # None
    /\ Goto(p, "asleep")
    /\ UNCHANGED <<buf, disk, pinned, dirty, bp, want>>

-----------------------------------------------------------------------------
(* bread() once the buffer is locked, and what callers do with it.         *)

\* Fault: valid is not looked at, so that the disk overwrites the cached copy.
ReadsAlways(b) == TRUE

Reads(b) == ~valid[b]

bread(p) ==
    /\ At(p, "read")
    /\ LET b == bp[p] IN
         IF Reads(b)
           THEN /\ data' = [data EXCEPT ![b] = disk[blockno[b]]]
                /\ valid' = [valid EXCEPT ![b] = TRUE]
           ELSE UNCHANGED <<data, valid>>
    /\ Goto(p, "have")
    /\ UNCHANGED <<order, blockno, refcnt, locked, disk, pinned, dirty, bp, want>>

modify(p, v) ==
    /\ At(p, "have")
    /\ data' = [data EXCEPT ![bp[p]] = v]
    /\ dirty' = dirty \cup {bp[p]}
    /\ UNCHANGED <<order, blockno, valid, refcnt, locked, disk, pinned, call>>

bwrite(p) ==
    /\ At(p, "have")
    /\ disk' = [disk EXCEPT ![blockno[bp[p]]] = data[bp[p]]]
    /\ dirty' = dirty \ {bp[p]}
    /\ UNCHANGED <<buf, pinned, call>>

\* log_write() of a block that is not in the log yet; one that is stays pinned.
bpin(p) ==
    /\ At(p, "have") /\ bp[p] \in dirty
    /\ LET b == bp[p] IN
         /\ b \notin pinned /\ Cardinality(pinned) < MaxPin
         /\ refcnt' = [refcnt EXCEPT ![b] = @ + 1]
         /\ pinned' = pinned \cup {b}
         /\ dirty' = dirty \ {b}
    /\ UNCHANGED <<order, blockno, valid, data, locked, disk, call>>

absorb(p) ==
    /\ At(p, "have") /\ bp[p] \in dirty \cap pinned
    /\ dirty' = dirty \ {bp[p]}
    /\ UNCHANGED <<buf, disk, pinned, call>>

\* Fault: the block leaves the log but its buffer keeps the reference.
bunpinLeaks(p) ==
    /\ At(p, "have") /\ bp[p] \in pinned \ dirty
    /\ disk[blockno[bp[p]]] = data[bp[p]]
    /\ pinned' = pinned \ {bp[p]}
    /\ UNCHANGED <<buf, disk, dirty, call>>

\* install_trans(): after the bwrite() of the block.
bunpin(p) ==
    /\ At(p, "have") /\ bp[p] \in pinned \ dirty
    /\ disk[blockno[bp[p]]] = data[bp[p]]
    /\ refcnt' = [refcnt EXCEPT ![bp[p]] = @ - 1]
    /\ pinned' = pinned \ {bp[p]}
    /\ UNCHANGED <<order, blockno, valid, data, locked, disk, dirty, call>>

-----------------------------------------------------------------------------
(* brelse().                                                               *)

\* Fault: the sleepers are not woken.
wakeupNobody(b) == pc

\* wakeup(lk) in releasesleep().
wakeup(b) == [p \in Procs |-> IF At(p, "asleep") /\ bp[p] = b THEN "lock" ELSE pc[p]]

releasesleep(p) ==
    /\ At(p, "have") /\ bp[p] \notin dirty
    /\ locked' = [locked EXCEPT ![bp[p]] = None]
    /\ pc' = [wakeup(bp[p]) EXCEPT ![p] = "unref"]
    /\ UNCHANGED <<order, blockno, valid, refcnt, data, disk, pinned, dirty, bp, want>>

\* Unlink b and put it after head.
MoveToFront(b) ==
    LET k == CHOOSE i \in 1 .. Len(order) : order[i] = b
    IN <<b>> \o (SubSeq(order, 1, k - 1) \o SubSeq(order, k + 1, Len(order)))

brelse(p) ==
    /\ At(p, "unref")
    /\ refcnt' = [refcnt EXCEPT ![bp[p]] = @ - 1]
    /\ order' = IF refcnt[bp[p]] = 1 THEN MoveToFront(bp[p]) ELSE order
    /\ Goto(p, "idle")
    /\ want' = [want EXCEPT ![p] = NoBlock]
    /\ bp' = [bp EXCEPT ![p] = 1]
    /\ UNCHANGED <<blockno, valid, data, locked, disk, pinned, dirty>>

-----------------------------------------------------------------------------

Begin(p) == \E n \in Block : bget_hit(p, n) \/ bget_recycle(p, n) \/ bget_panic(p, n)
Use(p) == (\E v \in Value : modify(p, v)) \/ bwrite(p) \/ bpin(p) \/ absorb(p) \/ bunpin(p)
Step(p) == acquiresleep(p) \/ acquiresleep_wait(p) \/ bread(p) \/ brelse(p)

Next == \E p \in Procs : Begin(p) \/ Step(p) \/ Use(p) \/ releasesleep(p)

Spec == Init /\ [][Next]_vars

-----------------------------------------------------------------------------
(* Properties.                                                             *)

\* Processes that count in b->refcnt.
Users(b) == {p \in Procs : bp[p] = b /\ pc[p] \in {"lock", "asleep", "read", "have", "unref"}}

\* refcnt counts the processes between bget() and brelse() and the log's pin,
\* so that a buffer is recycled only when nobody has it.
RefsExact == \A b \in Bufs :
    refcnt[b] = Cardinality(Users(b)) + (IF b \in pinned THEN 1 ELSE 0)

\* A process sleeps for the lock of a buffer only while another one has it.
NoLostWakeup == \A p \in Procs : At(p, "asleep") => locked[bp[p]] \in Procs \ {p}

\* bget() gives up only when the callers and the log really need NBUF buffers
\* at once: a buffer that nobody uses any more is always found again, whatever
\* was pinned, absorbed and recycled before.
BuffersSuffice ==
    [][\A p \in Procs, n \in Block : bget_panic(p, n) =>
         Cardinality(pinned) + Cardinality({q \in Procs : pc[q] \notin {"idle", "panic"}}) >= NBUF]_vars

\* What a caller of bread() would find in a block, and who has it locked.
Content == [n \in Block |->
    IF \E b \in Cached(n) : valid[b]
      THEN data[CHOOSE b \in Cached(n) : valid[b]]
      ELSE disk[n]]

Owner == [n \in Block |->
    IF \E p \in Procs : At(p, "have") /\ want[p] = n
      THEN CHOOSE p \in Procs : At(p, "have") /\ want[p] = n
      ELSE None]

Store == INSTANCE BlockStore WITH content <- Content, owner <- Owner

\* Through hits, recycling and concurrent calls the cache is one store of
\* blocks with a lock each: a caller of bread() has the block it asked for to
\* itself and finds in it what was last put there, also when the buffer was
\* given to another block in between.
CacheIsStore == Store!Spec

=============================================================================
