-------------------------------- MODULE Proc --------------------------------
(***************************************************************************)
(* The life of processes in kernel/proc.c: allocproc, fork, the per-CPU    *)
(* scheduler, sched, yield, sleep, wakeup, exit, wait and kill, with       *)
(* p->lock and wait_lock as the locks they are.                            *)
(*                                                                         *)
(* A step is the code between two operations on these locks; a section     *)
(* that only holds p->lock and never blocks is one step.  p->lock stays    *)
(* held across swtch(): a process on a CPU that holds its own lock is      *)
(* giving its kernel stack up if it is not RUNNING, and has just been      *)
(* given it back if it is.  Files, memory and tickets are not part of this *)
(* module, and a CPU may pick any RUNNABLE process.                        *)
(***************************************************************************)
EXTENDS Integers, FiniteSets

CONSTANTS
    NPROC,
    CPUs,
    None,       \* a null pointer, a free lock
    MaxPid,     \* bound on the pids given out
    KillArgs    \* arguments of kill()

ASSUME ProcAssumption ==
    /\ NPROC \in Nat \ {0}
    /\ None \notin Nat \cup CPUs
    /\ MaxPid \in Nat
    /\ KillArgs \subseteq Nat

Procs == 0 .. NPROC - 1
initproc == 0

VARIABLES
    state, chan, killed, pid, parent,   \* fields of struct proc
    nextpid,
    plock,      \* p->lock: the CPU that holds it
    wait_lock,  \* the CPU that holds it
    cpu,        \* c->proc
    pc,         \* where the kernel thread of a process is, or will resume
    np,         \* np in fork()
    pp,         \* position of a loop over proc[]
    havekids    \* in wait()

locals == <<np, pp, havekids>>
vars   == <<state, chan, killed, pid, parent, nextpid,
            plock, wait_lock, cpu, pc, np, pp, havekids>>

\* Where a thread goes when it calls acquire(&wait_lock): interrupts are off
\* while it spins.
Acquiring == [forked |-> "fork_parent", exit |-> "reparent", waiting |-> "wait"]

\* Where a thread holds no spinlock: a timer interrupt may take its CPU away.
Preemptible == {"user", "fork_run"} \cup DOMAIN Acquiring

\* procinit() and userinit().
Init ==
    /\ state = [p \in Procs |-> IF p = initproc THEN "RUNNABLE" ELSE "UNUSED"]
    /\ chan = [p \in Procs |-> None]
    /\ killed = [p \in Procs |-> FALSE]
    /\ pid = [p \in Procs |-> IF p = initproc THEN 1 ELSE 0]
    /\ parent = [p \in Procs |-> None]
    /\ nextpid = 2
    /\ plock = [p \in Procs |-> None]
    /\ wait_lock = None
    /\ cpu = [c \in CPUs |-> None]
    /\ pc = [p \in Procs |-> IF p = initproc THEN "user" ELSE "none"]
    /\ np = [p \in Procs |-> None]
    /\ pp = [p \in Procs |-> 0]
    /\ havekids = [p \in Procs |-> FALSE]

\* c runs the thread of p, which is at l and not inside sched().
At(c, p, l) == cpu[c] = p /\ pc[p] = l /\ plock[p] # c

Goto(p, l) == pc' = [pc EXCEPT ![p] = l]
Locked(p, c) == plock[p] = None /\ plock' = [plock EXCEPT ![p] = c]
Unlocked(p) == plock' = [plock EXCEPT ![p] = None]

-----------------------------------------------------------------------------
(* scheduler(), sched() and the code on both sides of swtch().             *)

\* scheduler(): take the lock of a RUNNABLE process and swtch() to it.
dispatch(c, p) ==
    /\ cpu[c] = None
    /\ state[p] = "RUNNABLE"
    /\ Locked(p, c)
    /\ state' = [state EXCEPT ![p] = "RUNNING"]
    /\ cpu' = [cpu EXCEPT ![c] = p]
    /\ UNCHANGED <<chan, killed, pid, parent, nextpid, wait_lock, pc, locals>>

\* The resumed thread releases its lock: forkret(), the ends of yield() and
\* of sleep().
resume(c, p) ==
    /\ cpu[c] = p /\ plock[p] = c /\ state[p] = "RUNNING"
    /\ Unlocked(p)
    /\ \/ pc[p] # "asleep" /\ UNCHANGED <<pc, chan>>
       \/ pc[p] = "asleep" /\ Goto(p, "waiting") /\ chan' = [chan EXCEPT ![p] = None]
    /\ UNCHANGED <<state, killed, pid, parent, nextpid, wait_lock, cpu, locals>>

\* sched(): swtch() to the scheduler, which releases p->lock.  Nothing
\* resumes a zombie.
sched(c, p) ==
    /\ cpu[c] = p /\ plock[p] = c /\ state[p] # "RUNNING"
    /\ cpu' = [cpu EXCEPT ![c] = None]
    /\ Unlocked(p)
    /\ UNCHANGED <<state, chan, killed, pid, parent, nextpid, wait_lock, pc, locals>>

\* A timer interrupt, in usertrap() or in kerneltrap().
yield(c, p) ==
    /\ \E l \in Preemptible : At(c, p, l)
    /\ pc[p] = "user" => ~killed[p]
    /\ Locked(p, c)
    /\ state' = [state EXCEPT ![p] = "RUNNABLE"]
    /\ UNCHANGED <<chan, killed, pid, parent, nextpid, wait_lock, cpu, pc, locals>>

push_off(c, p) ==
    /\ \E l \in DOMAIN Acquiring : At(c, p, l)
    /\ Goto(p, Acquiring[pc[p]])
    /\ UNCHANGED <<state, chan, killed, pid, parent, nextpid, plock, wait_lock, cpu, locals>>

-----------------------------------------------------------------------------
(* fork().                                                                 *)

allocproc(c, p, q) ==
    /\ At(c, p, "user")
    /\ ~killed[p]
    /\ state[q] = "UNUSED"
    /\ nextpid <= MaxPid
    /\ Locked(q, c)
    /\ state' = [state EXCEPT ![q] = "USED"]
    /\ pid' = [pid EXCEPT ![q] = nextpid]
    /\ nextpid' = nextpid + 1
    /\ np' = [np EXCEPT ![p] = q]
    /\ pc' = [pc EXCEPT ![p] = "fork_copy", ![q] = "user"]
    /\ UNCHANGED <<chan, killed, parent, wait_lock, cpu, pp, havekids>>

\* Fault: killed is left as it is.
freeprocKeepsKilled(q) ==
    /\ pid' = [pid EXCEPT ![q] = 0]
    /\ parent' = [parent EXCEPT ![q] = None]
    /\ chan' = [chan EXCEPT ![q] = None]
    /\ state' = [state EXCEPT ![q] = "UNUSED"]
    /\ UNCHANGED killed

freeproc(q) ==
    /\ pid' = [pid EXCEPT ![q] = 0]
    /\ parent' = [parent EXCEPT ![q] = None]
    /\ chan' = [chan EXCEPT ![q] = None]
    /\ killed' = [killed EXCEPT ![q] = FALSE]
    /\ state' = [state EXCEPT ![q] = "UNUSED"]

\* A failed kalloc(), in allocproc() or in _uvmcopy().
fork_fail(c, p) ==
    /\ At(c, p, "fork_copy")
    /\ freeproc(np[p])
    /\ Unlocked(np[p])
    /\ pc' = [pc EXCEPT ![p] = "user", ![np[p]] = "none"]
    /\ np' = [np EXCEPT ![p] = None]
    /\ UNCHANGED <<nextpid, wait_lock, cpu, pp, havekids>>

\* Memory and files are copied, np->lock is released.
fork_copy(c, p) ==
    /\ At(c, p, "fork_copy")
    /\ Unlocked(np[p])
    /\ Goto(p, "forked")
    /\ UNCHANGED <<state, chan, killed, pid, parent, nextpid, wait_lock, cpu, locals>>

fork_parent(c, p) ==
    /\ At(c, p, "fork_parent")
    /\ wait_lock = None
    /\ parent' = [parent EXCEPT ![np[p]] = p]
    /\ Goto(p, "fork_run")
    /\ UNCHANGED <<state, chan, killed, pid, nextpid, plock, wait_lock, cpu, locals>>

fork_run(c, p) ==
    /\ At(c, p, "fork_run")
    /\ plock[np[p]] = None
    /\ state' = [state EXCEPT ![np[p]] = "RUNNABLE"]
    /\ np' = [np EXCEPT ![p] = None]
    /\ Goto(p, "user")
    /\ UNCHANGED <<chan, killed, pid, parent, nextpid, plock, wait_lock, cpu, pp, havekids>>

-----------------------------------------------------------------------------
(* exit().                                                                 *)

\* One iteration of wakeup(ch), called by p, which goes to l after the last.
wakeup(p, ch, l) ==
    LET q == pp[p] IN
    /\ q # p => plock[q] = None
    /\ state' = IF q # p /\ state[q] = "SLEEPING" /\ chan[q] = ch
                  THEN [state EXCEPT ![q] = "RUNNABLE"] ELSE state
    /\ IF q = NPROC - 1 THEN pp' = [pp EXCEPT ![p] = 0] /\ Goto(p, l)
                        ELSE pp' = [pp EXCEPT ![p] = q + 1] /\ UNCHANGED pc

\* exit() is called by the process, or by usertrap() because it was killed.
\* The first process never returns from user/init.c, and exit() panics if it
\* does.
exit(c, p) ==
    /\ At(c, p, "user")
    /\ p # initproc
    /\ Goto(p, "exit")
    /\ UNCHANGED <<state, chan, killed, pid, parent, nextpid, plock, wait_lock, cpu, locals>>

\* Faults: the wakeup of init is forgotten; a zombie child is not handed over.
reparentSilently(c, p) ==
    /\ At(c, p, "reparent")
    /\ wait_lock = None
    /\ wait_lock' = c
    /\ parent' = [q \in Procs |-> IF parent[q] = p THEN initproc ELSE parent[q]]
    /\ Goto(p, "exit_wakeparent")
    /\ UNCHANGED <<state, chan, killed, pid, nextpid, plock, cpu, locals>>

reparentLiving(c, p) ==
    /\ At(c, p, "reparent")
    /\ wait_lock = None
    /\ wait_lock' = c
    /\ parent' = [q \in Procs |-> IF parent[q] = p /\ state[q] # "ZOMBIE"
                                    THEN initproc ELSE parent[q]]
    /\ Goto(p, IF \E q \in Procs : parent[q] = p THEN "exit_wakeinit" ELSE "exit_wakeparent")
    /\ UNCHANGED <<state, chan, killed, pid, nextpid, plock, cpu, locals>>

\* acquire(&wait_lock), and reparent() but for its wakeup(initproc), which
\* exit_wakeinit runs once: nobody else reads p->parent before the release.
reparent(c, p) ==
    /\ At(c, p, "reparent")
    /\ wait_lock = None
    /\ wait_lock' = c
    /\ parent' = [q \in Procs |-> IF parent[q] = p THEN initproc ELSE parent[q]]
    /\ Goto(p, IF \E q \in Procs : parent[q] = p THEN "exit_wakeinit" ELSE "exit_wakeparent")
    /\ UNCHANGED <<state, chan, killed, pid, nextpid, plock, cpu, locals>>

exit_wakeinit(c, p) ==
    /\ At(c, p, "exit_wakeinit")
    /\ wakeup(p, initproc, "exit_wakeparent")
    /\ UNCHANGED <<chan, killed, pid, parent, nextpid, plock, wait_lock, cpu, np, havekids>>

exit_wakeparent(c, p) ==
    /\ At(c, p, "exit_wakeparent")
    /\ wakeup(p, parent[p], "exit_zombie")
    /\ UNCHANGED <<chan, killed, pid, parent, nextpid, plock, wait_lock, cpu, np, havekids>>

exit_zombie(c, p) ==
    /\ At(c, p, "exit_zombie")
    /\ Locked(p, c)
    /\ state' = [state EXCEPT ![p] = "ZOMBIE"]
    /\ wait_lock' = None
    /\ Goto(p, "none")
    /\ UNCHANGED <<chan, killed, pid, parent, nextpid, cpu, locals>>

-----------------------------------------------------------------------------
(* wait().                                                                 *)

sys_wait(c, p) ==
    /\ At(c, p, "user")
    /\ ~killed[p]
    /\ Goto(p, "waiting")
    /\ UNCHANGED <<state, chan, killed, pid, parent, nextpid, plock, wait_lock, cpu, locals>>

\* acquire(&wait_lock), on entry or at the end of sleep().
wait(c, p) ==
    /\ At(c, p, "wait")
    /\ wait_lock = None
    /\ wait_lock' = c
    /\ Goto(p, "wait_scan")
    /\ UNCHANGED <<state, chan, killed, pid, parent, nextpid, plock, cpu, locals>>

wait_return(p) ==
    /\ wait_lock' = None
    /\ pp' = [pp EXCEPT ![p] = 0]
    /\ havekids' = [havekids EXCEPT ![p] = FALSE]
    /\ Goto(p, "user")

\* Fault: q->lock is not taken.
VisitsUnlocked(c, p, q) == At(c, p, "wait_scan") /\ pp[p] = q

\* The loop is at q, with q->lock held if q is a child.
Visits(c, p, q) ==
    /\ At(c, p, "wait_scan")
    /\ pp[p] = q
    /\ parent[q] = p => plock[q] = None

ZombieChild(p, q) == parent[q] = p /\ state[q] = "ZOMBIE"

wait_next(c, p, q) ==
    /\ Visits(c, p, q)
    /\ ~ZombieChild(p, q)
    /\ pp' = [pp EXCEPT ![p] = q + 1]
    /\ havekids' = [havekids EXCEPT ![p] = @ \/ parent[q] = p]
    /\ UNCHANGED <<state, chan, killed, pid, parent, nextpid, plock, wait_lock, cpu, pc, np>>

wait_reap(c, p, q) ==
    /\ Visits(c, p, q)
    /\ ZombieChild(p, q)
    /\ freeproc(q)
    /\ wait_return(p)
    /\ UNCHANGED <<nextpid, plock, cpu, np>>

\* copyout() of the status failed: the zombie stays.  init passes no address.
wait_copyout(c, p, q) ==
    /\ Visits(c, p, q)
    /\ ZombieChild(p, q)
    /\ p # initproc
    /\ wait_return(p)
    /\ UNCHANGED <<state, chan, killed, pid, parent, nextpid, plock, cpu, np>>

\* Fault: the loop may stop before the last slot.
ScannedShort(c, p) == At(c, p, "wait_scan") /\ pp[p] \in {NPROC - 1, NPROC}

\* The end of the loop.
Scanned(c, p) == At(c, p, "wait_scan") /\ pp[p] = NPROC

wait_none(c, p) ==
    /\ Scanned(c, p)
    /\ ~havekids[p] \/ (plock[p] = None /\ killed[p])
    /\ wait_return(p)
    /\ UNCHANGED <<state, chan, killed, pid, parent, nextpid, plock, cpu, np>>

\* killed(p) was false; it may be true by the time sleep() is called.
wait_notkilled(c, p) ==
    /\ Scanned(c, p)
    /\ havekids[p] /\ plock[p] = None /\ ~killed[p]
    /\ pp' = [pp EXCEPT ![p] = 0]
    /\ havekids' = [havekids EXCEPT ![p] = FALSE]
    /\ Goto(p, "wait_sleep")
    /\ UNCHANGED <<state, chan, killed, pid, parent, nextpid, plock, wait_lock, cpu, np>>

\* sleep(p, &wait_lock), up to its sched().
sleep(c, p) ==
    /\ At(c, p, "wait_sleep")
    /\ Locked(p, c)
    /\ wait_lock' = None
    /\ chan' = [chan EXCEPT ![p] = p]
    /\ state' = [state EXCEPT ![p] = "SLEEPING"]
    /\ Goto(p, "asleep")
    /\ UNCHANGED <<killed, pid, parent, nextpid, cpu, locals>>

-----------------------------------------------------------------------------
(* kill().                                                                 *)

\* The loop stops at a slot with the pid it was given.
kill(c, p, q) ==
    /\ At(c, p, "user")
    /\ ~killed[p]
    /\ pid[q] \in KillArgs
    /\ plock[q] = None
    /\ killed' = [killed EXCEPT ![q] = TRUE]
    /\ state' = IF state[q] = "SLEEPING" THEN [state EXCEPT ![q] = "RUNNABLE"] ELSE state
    /\ UNCHANGED <<chan, pid, parent, nextpid, plock, wait_lock, cpu, pc, locals>>

-----------------------------------------------------------------------------

Fork(c, p) == fork_copy(c, p) \/ fork_fail(c, p) \/ fork_parent(c, p) \/ fork_run(c, p)
Exit(c, p) == reparent(c, p) \/ exit_wakeinit(c, p) \/ exit_wakeparent(c, p)
                \/ exit_zombie(c, p)
Wait(c, p) == wait(c, p) \/ wait_none(c, p) \/ wait_notkilled(c, p) \/ sleep(c, p)
                \/ \E q \in Procs : wait_next(c, p, q) \/ wait_reap(c, p, q)
                                      \/ wait_copyout(c, p, q)

\* What CPU c does, in process p.
Step(c, p) ==
    \/ dispatch(c, p) \/ resume(c, p) \/ sched(c, p) \/ yield(c, p) \/ push_off(c, p)
    \/ (\E q \in Procs : allocproc(c, p, q) \/ kill(c, p, q))
    \/ exit(c, p) \/ sys_wait(c, p)
    \/ Fork(c, p) \/ Exit(c, p) \/ Wait(c, p)

Next == \E c \in CPUs, p \in Procs : Step(c, p)

Spec == Init /\ [][Next]_vars

-----------------------------------------------------------------------------
(* Properties.                                                             *)

\* A kernel stack is used by one CPU at most, no CPU is on the stack of a
\* slot that freeproc() has given back, and a process that the scheduler or
\* wait() can take (its lock is free) is on a CPU exactly when it is RUNNING.
\* This is why p->lock is held across swtch().
OneStack ==
    /\ \A c, d \in CPUs : cpu[c] # None /\ cpu[c] = cpu[d] => c = d
    /\ \A c \in CPUs : cpu[c] # None => state[cpu[c]] \notin {"UNUSED", "USED"}
    /\ \A p \in Procs : plock[p] = None =>
         (state[p] = "RUNNING" <=> \E c \in CPUs : cpu[c] = p)

\* A parent asleep in wait() has no exited child, unless it is init and the
\* process that is handing the child over is still going to wake it.  The
\* wakeup in exit() comes before the child is a ZOMBIE, so this rests on
\* wait_lock.
ZombieNoticed ==
    \A p, q \in Procs :
        state[p] = "SLEEPING" /\ chan[p] = p /\ ZombieChild(p, q) =>
            /\ p = initproc
            /\ \E r \in Procs : pc[r] = "exit_wakeinit" /\ pp[r] <= p

\* Every process that runs or has exited has a parent to reap it, and that
\* parent has not exited itself: reparent() leaves no orphan behind, also
\* when the parent exits while a fork() of its own child is under way.
ParentAlive ==
    \A q \in Procs \ {initproc} :
        /\ state[q] \notin {"UNUSED", "USED"} => parent[q] # None
        /\ parent[q] # None => state[parent[q]] \notin {"UNUSED", "USED", "ZOMBIE"}

\* A process starts out unkilled: allocproc() takes p->killed as it finds it,
\* so this depends on everything that ever wrote to the slot before.
BornUnkilled ==
    [][\A q \in Procs : state[q] = "UNUSED" /\ state'[q] = "USED" => ~killed'[q]]_vars

\* A thread that is given a CPU gets somewhere before the next interrupt, and
\* those who spin for a lock get it; timer interrupts and the return to user
\* space of a killed process happen; every RUNNABLE process is picked again
\* and again; init keeps calling wait().
Fairness ==
    /\ \A p \in Procs :
        /\ WF_vars(\E c \in CPUs :
               resume(c, p) \/ sched(c, p) \/ yield(c, p) \/ (killed[p] /\ exit(c, p)))
        /\ SF_vars(\E c \in CPUs : dispatch(c, p))
        /\ SF_vars(\E c \in CPUs : push_off(c, p) \/ Fork(c, p) \/ Exit(c, p) \/ Wait(c, p))
    /\ SF_vars(\E c \in CPUs : sys_wait(c, initproc))

FairSpec == Spec /\ Fairness

\* Nothing stays a zombie for want of a parent: a process that exits as, or
\* becomes, a child of init is reaped.
OrphanReaped ==
    \A q \in Procs \ {initproc} : ZombieChild(initproc, q) ~> state[q] = "UNUSED"

=============================================================================
