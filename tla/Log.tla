-------------------------------- MODULE Log --------------------------------
(***************************************************************************)
(* The write-ahead redo log of kernel/log.c, together with the part of the *)
(* buffer cache it relies on (kernel/bio.c) and with crashes.              *)
(*                                                                         *)
(* A process is outside a transaction ("idle"), trying or sleeping in      *)
(* begin_op ("begin", "asleep"), inside one ("op"), or it is the process   *)
(* whose end_op commits ("write_log" .. "finish").  The first process runs *)
(* recover_from_log before any other process exists ("read_head" ..        *)
(* "rclear").  Everything done under log.lock is one step; every block     *)
(* written to the disk is one step, so a crash falls between any two.      *)
(***************************************************************************)
EXTENDS Integers, Sequences, FiniteSets

CONSTANTS
    Procs,        \* processes that make file system calls
    InitProc,     \* the first process, which runs initlog()
    Blocks,       \* home block numbers
    Val,          \* contents of a block
    Zero,         \* contents of a block mkfs zeroed
    NoProc, NoBuf,
    MAXOPBLOCKS,  \* blocks begin_op() reserves for one call
    OPWRITES,     \* distinct blocks one call really writes
    LOGSIZE,      \* capacity of log.lh.block[]
    SIZE          \* log.size: blocks of the on-disk log, header included

ASSUME ProcsAssumption == IsFiniteSet(Procs) /\ InitProc \in Procs /\ NoProc \notin Procs
ASSUME ValAssumption == Zero \in Val /\ NoBuf \notin Val
ASSUME SizeAssumption ==
    /\ MAXOPBLOCKS \in Nat \ {0}
    /\ OPWRITES \in 1..MAXOPBLOCKS
    /\ LOGSIZE \in Nat /\ MAXOPBLOCKS <= LOGSIZE
    /\ SIZE \in Nat /\ SIZE > 1

\* What param.h and mkfs must give for the reservation to be enough: a call
\* writes fewer blocks than begin_op() reserves for it, a lone call fits in the
\* log on disk, and so do two calls together with what was logged when the
\* second was let in.  (The header takes one of the SIZE blocks and log_write()
\* tests for room before it absorbs, so there must be slack.  In the kernel
\* SIZE = LOGSIZE = 3 * MAXOPBLOCKS, and the first condition gives the others.)
ASSUME RoomAssumption ==
    /\ OPWRITES < MAXOPBLOCKS
    /\ OPWRITES < SIZE - 1
    /\ LOGSIZE - 2 * (MAXOPBLOCKS - OPWRITES) < SIZE - 1

VARIABLES
    home,         \* disk: the home blocks
    diskHead,     \* disk: the log header, as the sequence of its block numbers
    diskLog,      \* disk: the log blocks
    cache,        \* buffer cache: contents of each home block, or NoBuf
    pin,          \* references bpin() holds on a block's buffer
    holder,       \* process holding a buffer's sleep-lock
    lh,           \* log.lh
    outstanding,  \* log.outstanding
    committing,   \* log.committing
    pc,           \* where each process is
    tail,         \* loop index of write_log() and install_trans()
    wrote         \* blocks the current call of a process has written

disk == <<home, diskHead, diskLog>>
bufs == <<cache, pin, holder>>
log  == <<lh, outstanding, committing>>
vars == <<home, diskHead, diskLog, cache, pin, holder,
          lh, outstanding, committing, pc, tail, wrote>>

RecoverPC == {"read_head", "rinstall", "rclear"}
CommitPC  == {"write_log", "write_head", "install", "clear", "finish"}
InOpPC    == {"op", "panic"}
PC        == {"idle", "begin", "asleep"} \cup InOpPC \cup CommitPC \cup RecoverPC

LogIndex == 1..(SIZE - 1)

Logged   == {lh[i] : i \in 1..Len(lh)}
Holds(p) == \E b \in Blocks : holder[b] = p

\* What bread() returns for b: the cached copy, or the disk's.
Contents(b) == IF cache[b] = NoBuf THEN home[b] ELSE cache[b]

\* Other processes are forked by the first one, after it left initlog().
Booted == pc[InitProc] \notin RecoverPC

\* panic() spins with log.lock held.
LogLockFree == \A p \in Procs : pc[p] # "panic"

Init ==
    /\ home \in [Blocks -> Val]
    /\ diskHead = <<>>
    /\ diskLog = [i \in LogIndex |-> Zero]
    /\ cache = [b \in Blocks |-> NoBuf]
    /\ pin = [b \in Blocks |-> 0]
    /\ holder = [b \in Blocks |-> NoProc]
    /\ lh = <<>>
    /\ outstanding = 0
    /\ committing = FALSE
    /\ pc = [p \in Procs |-> IF p = InitProc THEN "read_head" ELSE "idle"]
    /\ tail = 0
    /\ wrote = [p \in Procs |-> {}]

-----------------------------------------------------------------------------
(* Buffers.                                                                *)

\* Load and lock a buffer.  Callers hold one at a time.  A call in a
\* transaction and a plain read (fileread takes no transaction) both do this.
bread(p, b) ==
    /\ Booted
    /\ pc[p] \in {"idle", "op"}
    /\ ~Holds(p)
    /\ holder[b] = NoProc
    /\ holder' = [holder EXCEPT ![b] = p]
    /\ cache' = [cache EXCEPT ![b] = Contents(b)]
    /\ UNCHANGED <<disk, pin, log, pc, tail, wrote>>

brelse(p, b) ==
    /\ pc[p] \in {"idle", "op"}
    /\ holder[b] = p
    /\ holder' = [holder EXCEPT ![b] = NoProc]
    /\ UNCHANGED <<disk, cache, pin, log, pc, tail, wrote>>

\* bget() recycles the buffer of a block nobody references.
recycle(b) ==
    /\ cache[b] # NoBuf
    /\ pin[b] = 0
    /\ holder[b] = NoProc
    /\ cache' = [cache EXCEPT ![b] = NoBuf]
    /\ UNCHANGED <<disk, pin, holder, log, pc, tail, wrote>>

-----------------------------------------------------------------------------
(* Transactions.                                                           *)

\* Fault: nobody is woken.
wakeupNobody(f) == f

\* wakeup(&log) makes every sleeper retry.
wakeup(f) == [p \in Procs |-> IF f[p] = "asleep" THEN "begin" ELSE f[p]]

call(p) ==
    /\ Booted
    /\ pc[p] = "idle"
    /\ ~Holds(p)
    /\ pc' = [pc EXCEPT ![p] = "begin"]
    /\ UNCHANGED <<disk, bufs, log, tail, wrote>>

LogFull == Len(lh) + (outstanding + 1) * MAXOPBLOCKS > LOGSIZE

\* Fault: log.committing is not tested.
begin_opWhileCommitting(p) ==
    /\ pc[p] = "begin"
    /\ LogLockFree
    /\ ~LogFull
    /\ outstanding' = outstanding + 1
    /\ pc' = [pc EXCEPT ![p] = "op"]
    /\ UNCHANGED <<disk, bufs, lh, committing, tail, wrote>>

begin_op(p) ==
    /\ pc[p] = "begin"
    /\ LogLockFree
    /\ ~committing /\ ~LogFull
    /\ outstanding' = outstanding + 1
    /\ pc' = [pc EXCEPT ![p] = "op"]
    /\ UNCHANGED <<disk, bufs, lh, committing, tail, wrote>>

begin_op_sleep(p) ==
    /\ pc[p] = "begin"
    /\ LogLockFree
    /\ committing \/ LogFull
    /\ pc' = [pc EXCEPT ![p] = "asleep"]
    /\ UNCHANGED <<disk, bufs, log, tail, wrote>>

\* Fault: one block of the log is never used.
TooBigEarly == Len(lh) >= LOGSIZE \/ Len(lh) >= SIZE - 2

TooBig == Len(lh) >= LOGSIZE \/ Len(lh) >= SIZE - 1

\* The caller has set the data of the buffer it holds to v; log_write()
\* records the block, absorbing a block that is already in the log.
log_write(p, b, v) ==
    /\ pc[p] = "op"
    /\ LogLockFree
    /\ holder[b] = p
    /\ b \in wrote[p] \/ Cardinality(wrote[p]) < OPWRITES
    /\ cache' = [cache EXCEPT ![b] = v]
    /\ wrote' = [wrote EXCEPT ![p] = @ \cup {b}]
    /\ IF TooBig \/ outstanding < 1
         THEN /\ pc' = [pc EXCEPT ![p] = "panic"]
              /\ UNCHANGED <<lh, pin>>
         ELSE /\ lh' = IF b \in Logged THEN lh ELSE Append(lh, b)
              /\ pin' = IF b \in Logged THEN pin ELSE [pin EXCEPT ![b] = @ + 1]
              /\ UNCHANGED pc
    /\ UNCHANGED <<disk, holder, outstanding, committing, tail>>

\* The last call out starts commit(), which does nothing on an empty log.
end_op(p) ==
    /\ pc[p] = "op"
    /\ LogLockFree
    /\ ~Holds(p)
    /\ outstanding' = outstanding - 1
    /\ wrote' = [wrote EXCEPT ![p] = {}]
    /\ IF committing
         THEN /\ pc' = [pc EXCEPT ![p] = "panic"]
              /\ UNCHANGED <<committing, tail>>
         ELSE IF outstanding' = 0
         THEN /\ committing' = TRUE
              /\ tail' = 1
              /\ pc' = [pc EXCEPT ![p] = IF lh = <<>> THEN "finish" ELSE "write_log"]
         ELSE /\ pc' = [wakeup(pc) EXCEPT ![p] = "idle"]
              /\ UNCHANGED <<committing, tail>>
    /\ UNCHANGED <<disk, bufs, lh>>

-----------------------------------------------------------------------------
(* commit(), run by one process without log.lock.                          *)

\* One iteration of write_log(): cached block to log block.
write_log(p) ==
    /\ pc[p] = "write_log"
    /\ holder[lh[tail]] = NoProc
    /\ diskLog' = [diskLog EXCEPT ![tail] = Contents(lh[tail])]
    /\ cache' = [cache EXCEPT ![lh[tail]] = Contents(lh[tail])]
    /\ tail' = tail + 1
    /\ pc' = [pc EXCEPT ![p] = IF tail = Len(lh) THEN "write_head" ELSE @]
    /\ UNCHANGED <<home, diskHead, pin, holder, log, wrote>>

\* Fault: the header stays in memory.
write_headNotWritten(p) ==
    /\ pc[p] = "write_head"
    /\ tail' = 1
    /\ pc' = [pc EXCEPT ![p] = "install"]
    /\ UNCHANGED <<disk, bufs, log, wrote>>

\* The header reaches the disk: the commit point.
write_head(p) ==
    /\ pc[p] = "write_head"
    /\ diskHead' = lh
    /\ tail' = 1
    /\ pc' = [pc EXCEPT ![p] = "install"]
    /\ UNCHANGED <<home, diskLog, bufs, log, wrote>>

\* One iteration of install_trans(): log block to home block.
Install ==
    /\ holder[lh[tail]] = NoProc
    /\ home' = [home EXCEPT ![lh[tail]] = diskLog[tail]]
    /\ cache' = [cache EXCEPT ![lh[tail]] = diskLog[tail]]
    /\ tail' = tail + 1

install_trans(p) ==
    /\ pc[p] = "install"
    /\ Install
    /\ pin' = [pin EXCEPT ![lh[tail]] = @ - 1]
    /\ pc' = [pc EXCEPT ![p] = IF tail = Len(lh) THEN "clear" ELSE @]
    /\ UNCHANGED <<diskHead, diskLog, holder, log, wrote>>

\* log.lh.n = 0; write_head().
clear(p) ==
    /\ pc[p] = "clear"
    /\ lh' = <<>>
    /\ diskHead' = <<>>
    /\ pc' = [pc EXCEPT ![p] = "finish"]
    /\ UNCHANGED <<home, diskLog, bufs, outstanding, committing, tail, wrote>>

finish(p) ==
    /\ pc[p] = "finish"
    /\ LogLockFree
    /\ committing' = FALSE
    /\ pc' = [wakeup(pc) EXCEPT ![p] = "idle"]
    /\ UNCHANGED <<disk, bufs, lh, outstanding, tail, wrote>>

-----------------------------------------------------------------------------
(* Crash, and recovery by the first process after the reboot.              *)

Crash ==
    /\ cache' = [b \in Blocks |-> NoBuf]
    /\ pin' = [b \in Blocks |-> 0]
    /\ holder' = [b \in Blocks |-> NoProc]
    /\ lh' = <<>>
    /\ outstanding' = 0
    /\ committing' = FALSE
    /\ pc' = [p \in Procs |-> IF p = InitProc THEN "read_head" ELSE "idle"]
    /\ tail' = 0
    /\ wrote' = [p \in Procs |-> {}]
    /\ UNCHANGED disk

\* Fault: the committed transaction is not replayed.
read_headAndForget ==
    /\ pc[InitProc] = "read_head"
    /\ lh' = diskHead
    /\ tail' = 1
    /\ pc' = [pc EXCEPT ![InitProc] = "rclear"]
    /\ UNCHANGED <<disk, bufs, outstanding, committing, wrote>>

read_head ==
    /\ pc[InitProc] = "read_head"
    /\ lh' = diskHead
    /\ tail' = 1
    /\ pc' = [pc EXCEPT ![InitProc] = IF diskHead = <<>> THEN "rclear" ELSE "rinstall"]
    /\ UNCHANGED <<disk, bufs, outstanding, committing, wrote>>

recover_install ==
    /\ pc[InitProc] = "rinstall"
    /\ Install
    /\ pc' = [pc EXCEPT ![InitProc] = IF tail = Len(lh) THEN "rclear" ELSE @]
    /\ UNCHANGED <<diskHead, diskLog, pin, holder, log, wrote>>

recover_clear ==
    /\ pc[InitProc] = "rclear"
    /\ lh' = <<>>
    /\ diskHead' = <<>>
    /\ pc' = [pc EXCEPT ![InitProc] = "idle"]
    /\ UNCHANGED <<home, diskLog, bufs, outstanding, committing, tail, wrote>>

Recover == read_head \/ recover_install \/ recover_clear
Commit(p) == write_log(p) \/ write_head(p) \/ install_trans(p) \/ clear(p) \/ finish(p)

Next ==
    \/ \E p \in Procs :
         \/ call(p) \/ begin_op(p) \/ begin_op_sleep(p) \/ end_op(p)
         \/ Commit(p)
    \/ \E p \in Procs, b \in Blocks : bread(p, b) \/ brelse(p, b)
    \/ \E p \in Procs, b \in Blocks, v \in Val : log_write(p, b, v)
    \/ \E b \in Blocks : recycle(b)
    \/ Recover
    \/ Crash

Spec == Init /\ [][Next]_vars

-----------------------------------------------------------------------------
(* Properties.                                                             *)

TypeOK ==
    /\ home \in [Blocks -> Val]
    /\ diskHead \in Seq(Blocks) /\ Len(diskHead) <= SIZE - 1
    /\ diskLog \in [LogIndex -> Val]
    /\ cache \in [Blocks -> Val \cup {NoBuf}]
    /\ pin \in [Blocks -> 0..1]
    /\ holder \in [Blocks -> Procs \cup {NoProc}]
    /\ lh \in Seq(Blocks) /\ Len(lh) <= SIZE - 1
    /\ outstanding \in Nat
    /\ committing \in BOOLEAN
    /\ pc \in [Procs -> PC]
    /\ tail \in 0..SIZE
    /\ wrote \in [Procs -> SUBSET Blocks]

\* What recovery would make of the disk: the home blocks overlaid with the
\* logged blocks of a committed transaction.
Overlay(h, head, logged) == [b \in Blocks |->
    IF \E i \in 1..Len(head) : head[i] = b
      THEN logged[CHOOSE i \in 1..Len(head) : head[i] = b]
      ELSE h[b]]

Durable == Overlay(home, diskHead, diskLog)

View == IF Booted THEN [b \in Blocks |-> Contents(b)] ELSE Durable

Abstract == INSTANCE AtomicDisk WITH
    durable <- Durable, view <- View, ops <- {p \in Procs : pc[p] \in InOpPC}

\* A process sleeping in begin_op() has someone left to wake it: a call that
\* has not reached end_op() or a commit that has not finished.
NoLostWakeup ==
    \A p \in Procs : pc[p] = "asleep" => outstanding > 0 \/ committing

-----------------------------------------------------------------------------
(* The inductive invariant behind the properties.                          *)

InOps == {p \in Procs : pc[p] \in InOpPC}

\* Only the first process recovers, and alone.
RecoverAlone ==
    /\ \A p \in Procs : pc[p] \in RecoverPC => p = InitProc
    /\ ~Booted => /\ \A p \in Procs \ {InitProc} : pc[p] = "idle"
                  /\ ~committing
                  /\ \A b \in Blocks : holder[b] = NoProc

\* A committing process shares the log with no other committer and no call.
OneCommitter ==
    /\ \A p, q \in Procs : pc[p] \in CommitPC /\ pc[q] \in CommitPC \cup InOpPC => p = q
    /\ committing <=> \E p \in Procs : pc[p] \in CommitPC

\* log.outstanding counts the calls between begin_op() and end_op().
OpsCounted == outstanding = Cardinality(InOps)

\* The log is empty unless a call or a commit is using it.
LogInUse ==
    /\ lh # <<>> => outstanding > 0 \/ committing \/ ~Booted
    /\ pc[InitProc] = "read_head" => lh = <<>>
    /\ \A p \in Procs :
         /\ pc[p] = "finish" => lh = <<>>
         /\ pc[p] = "write_head" => lh # <<>>
         /\ pc[p] \in {"write_log", "install", "rinstall"} => tail \in 1..Len(lh)

\* Absorption: a block is in the log once.
Distinct(s) == \A i, j \in 1..Len(s) : s[i] = s[j] => i = j

\* The header on disk is empty except from the commit point to the erasure.
HeadPhase ==
    /\ Distinct(lh) /\ Distinct(diskHead)
    /\ \A p \in Procs : pc[p] \in {"install", "clear", "rinstall", "rclear"} => diskHead = lh
    /\ diskHead # <<>> =>
         \/ pc[InitProc] = "read_head"
         \/ \E p \in Procs : pc[p] \in {"install", "clear", "rinstall", "rclear"}

\* i has been copied to its home location.
Installed(i) == \E p \in Procs :
    pc[p] \in {"clear", "rclear"} \/ (pc[p] \in {"install", "rinstall"} /\ i < tail)

\* i has been copied to the log.
Copied(i) == \E p \in Procs :
    \/ pc[p] \in {"write_head", "install", "clear"}
    \/ pc[p] = "write_log" /\ i < tail

LogContents ==
    \A i \in 1..Len(lh) :
        /\ Copied(i) => diskLog[i] = Contents(lh[i])
        /\ Installed(i) => home[lh[i]] = diskLog[i]

\* A logged block stays in the cache until it is installed, and a cached
\* block that is not in the log is what the disk holds.
CacheCoherent ==
    /\ \A b \in Blocks :
         /\ pin[b] > 0 \/ holder[b] # NoProc => cache[b] # NoBuf
         /\ b \notin Logged =>
              \/ Contents(b) = home[b]
              \/ \E p \in Procs : pc[p] = "panic" /\ holder[b] = p
    /\ \A i \in 1..Len(lh) : Booted /\ ~Installed(i) => pin[lh[i]] = 1
    /\ \A b \in Blocks : pin[b] = 1 =>
         Booted /\ \E i \in 1..Len(lh) : lh[i] = b /\ ~Installed(i)
    /\ ~Booted => \A b \in Blocks : Contents(b) = home[b]

IInv ==
    /\ TypeOK /\ RecoverAlone /\ OneCommitter /\ OpsCounted /\ LogInUse
    /\ HeadPhase /\ LogContents /\ CacheCoherent /\ NoLostWakeup

-----------------------------------------------------------------------------
\* Crash atomicity: through every interleaving of calls, commits and crashes
\* (crashes inside recovery included) the disk a reboot would recover changes
\* only at write_head(), and then to everything all the calls of the group
\* wrote; no call outside the group, and no half of one inside it, gets in.
CrashAtomic == Abstract!Spec

\* With no call outstanding and no commit running, everything any call ever
\* wrote survives a crash: end_op() of the last call returned only after the
\* commit, and commit() installed what it logged.
IdleIsDurable ==
    Booted /\ outstanding = 0 /\ ~committing => Durable = View

\* The write-ahead rule: a home block is overwritten only with contents that
\* recovery would put there anyway, and the log of a committed transaction is
\* not erased or reused before its blocks are home.
WriteAhead ==
    [][ /\ home' # home => Durable' = Durable
        /\ diskLog' # diskLog => diskHead = <<>>
        /\ diskHead' = <<>> => Durable' = Durable ]_vars

\* The reservation in begin_op() keeps log_write() from running out of log
\* and end_op() from meeting a commit.
NoPanic == \A p \in Procs : pc[p] # "panic"

\* A call takes finitely many steps once it has its buffers, and the
\* scheduler gives every runnable process the CPU again.
Fairness ==
    \A p \in Procs :
      /\ WF_vars(begin_op(p) \/ begin_op_sleep(p))
      /\ SF_vars(end_op(p))
      /\ SF_vars(Commit(p))
      /\ \A b \in Blocks : WF_vars(brelse(p, b))

FairSpec == Spec /\ Fairness

\* Every sleeper in begin_op() is woken (what the wakeup(&log) of end_op(),
\* in both of its branches, is for).
SleeperWoken == \A p \in Procs : pc[p] = "asleep" ~> pc[p] # "asleep"
=============================================================================
