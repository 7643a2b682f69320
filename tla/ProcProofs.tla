----------------------------- MODULE ProcProofs -----------------------------
(* The process table of Proc.tla: a kernel stack is used by one CPU, every *)
(* process has a living parent, no exit() goes unnoticed by a wait() that  *)
(* sleeps, and a new process is not killed before it starts, for any       *)
(* number of processes and CPUs.                                           *)
EXTENDS Proc, TLAPS

\* Where a thread has its CPU to itself: interrupts are off.
Busy == {"fork_copy", "fork_parent", "reparent", "wait", "exit_wakeinit", "exit_wakeparent",
         "exit_zombie", "wait_scan", "wait_sleep"}
\* Where it has wait_lock.
Crit == {"exit_wakeinit", "exit_wakeparent", "exit_zombie", "wait_scan", "wait_sleep"}
\* Where it has handed its children over.
Leaving == {"exit_wakeinit", "exit_wakeparent", "exit_zombie"}
Exiting == {"exit", "reparent"} \cup Leaving
Forking == {"fork_copy", "forked", "fork_parent", "fork_run"}

States == {"UNUSED", "USED", "SLEEPING", "RUNNABLE", "RUNNING", "ZOMBIE"}
PCs == Busy \cup {"user", "forked", "fork_run", "exit", "waiting", "asleep", "none"}

TypeOK ==
    /\ state \in [Procs -> States]
    /\ chan \in [Procs -> Procs \cup {None}]
    /\ killed \in [Procs -> BOOLEAN]
    /\ pid \in [Procs -> Nat]
    /\ parent \in [Procs -> Procs \cup {None}]
    /\ nextpid \in Nat \ {0}
    /\ plock \in [Procs -> CPUs \cup {None}]
    /\ wait_lock \in CPUs \cup {None}
    /\ cpu \in [CPUs -> Procs \cup {None}]
    /\ pc \in [Procs -> PCs]
    /\ np \in [Procs -> Procs \cup {None}]
    /\ pp \in [Procs -> 0 .. NPROC]
    /\ havekids \in [Procs -> BOOLEAN]

\* A thread on a CPU has its lock, on a way in or out, or is RUNNING.
OnCpu == \A c \in CPUs : cpu[c] # None =>
    \/ plock[cpu[c]] = c
    \/ plock[cpu[c]] = None /\ state[cpu[c]] = "RUNNING"

\* Where the thread of a process can be, by its state.
Where == \A p \in Procs :
    /\ pc[p] = "none" <=> state[p] \in {"UNUSED", "ZOMBIE"}
    /\ state[p] = "USED" => pc[p] = "user"
    /\ pc[p] \in Busy => state[p] = "RUNNING" /\ plock[p] = None

\* fork() works on a slot of its own.
Forks ==
    /\ \A r \in Procs : pc[r] \in Forking => np[r] \in Procs /\ state[np[r]] = "USED"
    /\ \A r \in Procs : pc[r] \notin Forking => np[r] = None
    /\ \A r, s \in Procs : np[r] # None /\ np[r] = np[s] => r = s

\* init lives, and who has handed its children over gets no other.
Family ==
    /\ parent[initproc] = None /\ pc[initproc] \notin Exiting
    /\ state[initproc] \notin {"UNUSED", "USED", "ZOMBIE"}
    /\ \A r \in Procs : pc[r] = "fork_run" => parent[np[r]] # None
    /\ \A p, q \in Procs : pc[p] \in Leaving => parent[q] # p

\* wait_lock has one holder.
WaitLocked == \A p \in Procs : pc[p] \in Crit => wait_lock # None /\ cpu[wait_lock] = p

Loops == \A p \in Procs :
    /\ pc[p] \notin {"exit_wakeinit", "exit_wakeparent", "wait_scan"} => pp[p] = 0
    /\ pc[p] # "wait_scan" => pp[p] < NPROC

\* Asleep in wait().
Sleeps(p) == state[p] = "SLEEPING" /\ chan[p] = p

\* wait() has seen the slots before pp; exit() has woken the parent before.
Noticing ==
    /\ \A p, q \in Procs : pc[p] = "wait_scan" /\ q < pp[p] => ~ZombieChild(p, q)
    /\ \A p, q \in Procs : pc[p] = "wait_sleep" => ~ZombieChild(p, q)
    /\ \A p \in Procs : pc[p] = "exit_zombie" \/ (pc[p] = "exit_wakeparent" /\ pp[p] > parent[p])
         => ~Sleeps(parent[p])

IInv == /\ TypeOK /\ OnCpu /\ Where /\ Forks /\ Family /\ WaitLocked /\ Loops /\ Noticing
        /\ OneStack /\ ParentAlive /\ ZombieNoticed

\* A slot has pid 0 while it is free, and is not marked killed then.
Unkilled ==
    /\ \A q \in Procs : pid[q] = 0 <=> state[q] = "UNUSED"
    /\ \A q \in Procs : state[q] = "UNUSED" => ~killed[q]

-----------------------------------------------------------------------------
(* Types.                                                                  *)

\* init has a slot, and the loops over proc[] stay in the table.
LEMMA Slots ==
  /\ initproc \in Procs /\ None \notin Procs /\ None \notin CPUs /\ 0 \in 0 .. NPROC
  /\ \A p \in Procs : p \in 0 .. NPROC /\ p + 1 \in 0 .. NPROC
  BY ProcAssumption DEF Procs, initproc

\* The table is not empty, and slots are numbers.
LEMMA Sizes == NPROC \in Nat /\ 0 < NPROC /\ \A p \in Procs : p \in Nat /\ p < NPROC
  BY ProcAssumption DEF Procs

\* acquire(&wait_lock) turns interrupts off before it spins.
LEMMA PushOff ==
  ASSUME NEW c \in CPUs, NEW p \in Procs, push_off(c, p)
  PROVE  \/ At(c, p, "forked") /\ Goto(p, "fork_parent")
         \/ At(c, p, "exit") /\ Goto(p, "reparent")
         \/ At(c, p, "waiting") /\ Goto(p, "wait")
  <1>1. DOMAIN Acquiring = {"forked", "exit", "waiting"}
    BY Zenon DEF Acquiring
  <1>2. /\ Acquiring["forked"] = "fork_parent" /\ Acquiring["exit"] = "reparent"
        /\ Acquiring["waiting"] = "wait"
    BY Zenon DEF Acquiring
  <1>3. PICK l \in {"forked", "exit", "waiting"} : At(c, p, l)
    BY <1>1, Zenon DEF push_off
  <1>4. pc[p] = l /\ Goto(p, Acquiring[l])
    BY <1>3, Zenon DEF push_off, At
  <1> QED
    BY <1>2, <1>3, <1>4, Zenon

\* A thread that is not inside sched() is RUNNING, and its lock is free.
LEMMA AtRuns ==
  ASSUME OnCpu, None \notin Procs, NEW c \in CPUs, NEW p \in Procs, NEW l, At(c, p, l)
  PROVE  pc[p] = l /\ cpu[c] = p /\ plock[p] = None /\ state[p] = "RUNNING"
  BY Zenon DEF OnCpu, At

\* An iteration of wakeup() looks at one slot, and the loop covers all.
LEMMA WakeupSlot ==
  ASSUME TypeOK, Loops, NEW p \in Procs, NEW ch, NEW l, pc[p] # "wait_scan", wakeup(p, ch, l)
  PROVE  /\ pp[p] \in Procs
         /\ \/ state' = state
            \/ state[pp[p]] = "SLEEPING" /\ chan[pp[p]] = ch
                      /\ state' = [state EXCEPT ![pp[p]] = "RUNNABLE"]
         /\ pp[p] # p /\ chan[pp[p]] = ch => state'[pp[p]] # "SLEEPING"
         /\ \/ pp' = [pp EXCEPT ![p] = 0] /\ pc' = [pc EXCEPT ![p] = l] /\ pp[p] = NPROC - 1
            \/ pp' = [pp EXCEPT ![p] = pp[p] + 1] /\ pc' = pc /\ pp[p] < NPROC - 1
  <1>1. pp[p] \in Procs
    BY ProcAssumption DEF TypeOK, Loops, Procs
  <1>2. /\ state' = state \/ (state[pp[p]] = "SLEEPING" /\ chan[pp[p]] = ch
                                /\ state' = [state EXCEPT ![pp[p]] = "RUNNABLE"])
        /\ pp[p] # p /\ chan[pp[p]] = ch => state'[pp[p]] # "SLEEPING"
    BY <1>1, Zenon DEF wakeup, TypeOK
  <1>3. \/ pp' = [pp EXCEPT ![p] = 0] /\ pc' = [pc EXCEPT ![p] = l] /\ pp[p] = NPROC - 1
        \/ pp' = [pp EXCEPT ![p] = pp[p] + 1] /\ pc' = pc /\ pp[p] < NPROC - 1
    BY <1>1, ProcAssumption DEF wakeup, Goto, Procs
  <1> QED
    BY <1>1, <1>2, <1>3, Zenon

\* Types are kept.
LEMMA NextType ==
  ASSUME TypeOK, Loops, NEW c \in CPUs, NEW p \in Procs, Step(c, p)
  PROVE  TypeOK'
  <1> USE Slots DEF TypeOK, locals, States, PCs, Busy
  <1>1. CASE dispatch(c, p)
    BY <1>1, Zenon DEF dispatch, Locked
  <1>2. CASE resume(c, p)
    BY <1>2 DEF resume, Unlocked, Goto
  <1>3. CASE sched(c, p)
    BY <1>3, Zenon DEF sched, Unlocked
  <1>4. CASE yield(c, p)
    BY <1>4 DEF yield, At, Locked
  <1>5. CASE push_off(c, p)
    BY <1>5, PushOff, Zenon DEF push_off, Goto
  <1>6. ASSUME NEW q \in Procs, allocproc(c, p, q) PROVE TypeOK'
    BY <1>6 DEF allocproc, At, Locked
  <1>7. ASSUME NEW q \in Procs, kill(c, p, q) PROVE TypeOK'
    BY <1>7, Zenon DEF kill, At
  <1>8. CASE exit(c, p)
    BY <1>8, Zenon DEF exit, At, Goto
  <1>9. CASE sys_wait(c, p)
    BY <1>9, Zenon DEF sys_wait, At, Goto
  <1>10. CASE fork_copy(c, p)
    BY <1>10, Zenon DEF fork_copy, At, Goto, Unlocked
  <1>11. CASE fork_fail(c, p)
    BY <1>11, Zenon DEF fork_fail, At, freeproc, Unlocked
  <1>12. CASE fork_parent(c, p)
    BY <1>12, Zenon DEF fork_parent, At, Goto
  <1>13. CASE fork_run(c, p)
    BY <1>13, Zenon DEF fork_run, At, Goto
  <1>14. CASE reparent(c, p)
    BY <1>14, Zenon DEF reparent, At, Goto
  <1>15. CASE exit_wakeinit(c, p)
    <2>1. pc[p] # "wait_scan"
      BY <1>15, Zenon DEF exit_wakeinit, At
    <2> QED
      BY <1>15, <2>1, WakeupSlot DEF exit_wakeinit
  <1>16. CASE exit_wakeparent(c, p)
    <2>1. pc[p] # "wait_scan"
      BY <1>16, Zenon DEF exit_wakeparent, At
    <2> QED
      BY <1>16, <2>1, WakeupSlot DEF exit_wakeparent
  <1>17. CASE exit_zombie(c, p)
    BY <1>17, Zenon DEF exit_zombie, At, Goto, Locked
  <1>18. CASE wait(c, p)
    BY <1>18, Zenon DEF wait, At, Goto
  <1>19. CASE wait_none(c, p)
    BY <1>19, Zenon DEF wait_none, Scanned, At, Goto, wait_return
  <1>20. CASE wait_notkilled(c, p)
    BY <1>20, Zenon DEF wait_notkilled, Scanned, At, Goto
  <1>21. CASE sleep(c, p)
    BY <1>21, Zenon DEF sleep, At, Goto, Locked
  <1>22. ASSUME NEW q \in Procs, wait_next(c, p, q) PROVE TypeOK'
    BY <1>22, Zenon DEF wait_next, Visits, At
  <1>23. ASSUME NEW q \in Procs, wait_reap(c, p, q) PROVE TypeOK'
    BY <1>23, Zenon DEF wait_reap, freeproc, wait_return, Goto
  <1>24. ASSUME NEW q \in Procs, wait_copyout(c, p, q) PROVE TypeOK'
    BY <1>24, Zenon DEF wait_copyout, wait_return, Goto
  <1> QED
    BY <1>1, <1>2, <1>3, <1>4, <1>5, <1>6, <1>7, <1>8, <1>9, <1>10, <1>11, <1>12,
       <1>13, <1>14, <1>15, <1>16, <1>17, <1>18, <1>19, <1>20, <1>21, <1>22, <1>23,
       <1>24, Zenon
       DEF Step, Fork, Exit, Wait

-----------------------------------------------------------------------------
(* Kernel stacks.                                                         *)

\* What yield() changes: a thread that runs takes its lock, to be switched out.
Yielded(c, p) ==
    /\ pc[p] \in {"user", "fork_run", "forked", "exit", "waiting"}
    /\ cpu[c] = p /\ plock[p] = None /\ state[p] = "RUNNING"
    /\ state' = [state EXCEPT ![p] = "RUNNABLE"] /\ plock' = [plock EXCEPT ![p] = c]
    /\ UNCHANGED <<chan, killed, pid, parent, wait_lock, cpu, pc, np, pp>>

\* A timer interrupt switches out a thread that runs and holds no lock.
LEMMA Yields ==
  ASSUME OnCpu, NEW c \in CPUs, NEW p \in Procs, yield(c, p)
  PROVE  Yielded(c, p)
  <1>1. DOMAIN Acquiring = {"forked", "exit", "waiting"}
    BY Zenon DEF Acquiring
  <1>2. PICK l \in {"user", "fork_run", "forked", "exit", "waiting"} : At(c, p, l)
    BY <1>1, Zenon DEF yield, Preemptible
  <1>3. pc[p] = l /\ cpu[c] = p /\ plock[p] = None /\ state[p] = "RUNNING"
    BY <1>2, AtRuns, Slots, Zenon
  <1> QED
    BY <1>3, Zenon DEF yield, Locked, Yielded, locals

\* What push_off() changes: a thread that runs spins for wait_lock next.
Pushed(p, l) ==
    /\ pc[p] \in {"forked", "exit", "waiting"} /\ plock[p] = None /\ state[p] = "RUNNING"
    /\ l = "fork_parent" <=> pc[p] = "forked"
    /\ l = "reparent" <=> pc[p] = "exit"
    /\ pc' = [pc EXCEPT ![p] = l]
    /\ UNCHANGED <<state, chan, killed, pid, parent, plock, wait_lock, cpu, np, pp>>

\* acquire() turns interrupts off before it spins for wait_lock.
LEMMA PushedOff ==
  ASSUME OnCpu, NEW c \in CPUs, NEW p \in Procs, push_off(c, p)
  PROVE  \E l \in {"fork_parent", "reparent", "wait"} : Pushed(p, l) /\ cpu[c] = p
  <1>1. UNCHANGED <<state, chan, killed, pid, parent, plock, wait_lock, cpu, np, pp>>
    BY Zenon DEF push_off, locals
  <1>2. PICK k \in {"forked", "exit", "waiting"} : At(c, p, k)
    BY PushOff, Zenon
  <1>3. pc[p] = k /\ cpu[c] = p /\ plock[p] = None /\ state[p] = "RUNNING"
    BY <1>2, AtRuns, Slots, Zenon
  <1>4. PICK l \in {"fork_parent", "reparent", "wait"} :
          /\ pc' = [pc EXCEPT ![p] = l]
          /\ (l = "fork_parent" <=> k = "forked") /\ (l = "reparent" <=> k = "exit")
    BY <1>3, PushOff DEF Goto, At
  <1> QED
    BY <1>1, <1>3, <1>4, Zenon DEF Pushed

\* A thread is where its state says, and fork() keeps its slot.
LEMMA NextWhere ==
  ASSUME TypeOK, Loops, OnCpu, Where, Forks, NEW c \in CPUs, NEW p \in Procs, Step(c, p)
  PROVE  (Where /\ Forks)'
  <1> USE Slots DEF TypeOK, locals, Busy, Forking, Where, Forks
  <1>1. CASE dispatch(c, p)
    BY <1>1 DEF dispatch, Locked
  <1>2. CASE resume(c, p)
    BY <1>2 DEF resume, Unlocked, Goto
  <1>3. CASE sched(c, p)
    BY <1>3 DEF sched, Unlocked
  <1>4. CASE yield(c, p)
    <2>1. Yielded(c, p)
      BY <1>4, Yields, Zenon
    <2> QED
      BY <2>1 DEF Yielded
  <1>5. CASE push_off(c, p)
    <2>1. PICK l \in {"fork_parent", "reparent", "wait"} : Pushed(p, l) /\ cpu[c] = p
      BY <1>5, PushedOff, Zenon
    <2> QED
      BY <2>1 DEF Pushed
  <1>6. ASSUME NEW q \in Procs, allocproc(c, p, q) PROVE (Where /\ Forks)'
    BY <1>6, AtRuns DEF allocproc, At, Locked
  <1>7. ASSUME NEW q \in Procs, kill(c, p, q) PROVE (Where /\ Forks)'
    BY <1>7, AtRuns DEF kill, At
  <1>8. CASE exit(c, p)
    BY <1>8, AtRuns DEF exit, At, Goto
  <1>9. CASE sys_wait(c, p)
    BY <1>9, AtRuns DEF sys_wait, At, Goto
  <1>10. CASE fork_copy(c, p)
    BY <1>10, AtRuns DEF fork_copy, At, Goto, Unlocked
  <1>11. CASE fork_fail(c, p)
    BY <1>11, AtRuns DEF fork_fail, At, freeproc, Unlocked
  <1>12. CASE fork_parent(c, p)
    BY <1>12, AtRuns DEF fork_parent, At, Goto
  <1>13. CASE fork_run(c, p)
    BY <1>13, AtRuns DEF fork_run, At, Goto
  <1>14. CASE reparent(c, p)
    BY <1>14, AtRuns DEF reparent, At, Goto
  <1>15. CASE exit_wakeinit(c, p)
    <2>1. pc[p] = "exit_wakeinit" /\ state[p] = "RUNNING" /\ plock[p] = None
      BY <1>15, AtRuns, Zenon DEF exit_wakeinit
    <2> QED
      BY <1>15, <2>1, WakeupSlot DEF exit_wakeinit
  <1>16. CASE exit_wakeparent(c, p)
    <2>1. pc[p] = "exit_wakeparent" /\ state[p] = "RUNNING" /\ plock[p] = None
      BY <1>16, AtRuns, Zenon DEF exit_wakeparent
    <2> QED
      BY <1>16, <2>1, WakeupSlot DEF exit_wakeparent
  <1>17. CASE exit_zombie(c, p)
    BY <1>17, AtRuns DEF exit_zombie, At, Goto, Locked
  <1>18. CASE wait(c, p)
    BY <1>18, AtRuns DEF wait, At, Goto
  <1>19. CASE wait_none(c, p)
    BY <1>19, AtRuns DEF wait_none, Scanned, At, Goto, wait_return
  <1>20. CASE wait_notkilled(c, p)
    BY <1>20, AtRuns DEF wait_notkilled, Scanned, At, Goto
  <1>21. CASE sleep(c, p)
    BY <1>21, AtRuns DEF sleep, At, Goto, Locked
  <1>22. ASSUME NEW q \in Procs, wait_next(c, p, q) PROVE (Where /\ Forks)'
    BY <1>22, AtRuns DEF wait_next, Visits, At
  <1>23. ASSUME NEW q \in Procs, wait_reap(c, p, q) PROVE (Where /\ Forks)'
    BY <1>23, AtRuns DEF wait_reap, Visits, At, Goto, ZombieChild, freeproc, wait_return
  <1>24. ASSUME NEW q \in Procs, wait_copyout(c, p, q) PROVE (Where /\ Forks)'
    BY <1>24, AtRuns DEF wait_copyout, Visits, At, Goto, wait_return
  <1> QED
    BY <1>1, <1>2, <1>3, <1>4, <1>5, <1>6, <1>7, <1>8, <1>9, <1>10, <1>11, <1>12,
       <1>13, <1>14, <1>15, <1>16, <1>17, <1>18, <1>19, <1>20, <1>21, <1>22, <1>23,
       <1>24, Zenon
       DEF Step, Fork, Exit, Wait

\* p->lock, held over swtch(), keeps a stack to one CPU.
LEMMA NextOnCpu ==
  ASSUME TypeOK, Loops, OnCpu, Where, Forks, OneStack, NEW c \in CPUs, NEW p \in Procs,
         Step(c, p)
  PROVE  (OnCpu /\ OneStack)'
  <1> USE Slots DEF TypeOK, locals, Busy, Forking, OnCpu, OneStack, Where, Forks
  <1>1. CASE dispatch(c, p)
    BY <1>1 DEF dispatch, Locked
  <1>2. CASE resume(c, p)
    BY <1>2 DEF resume, Unlocked, Goto
  <1>3. CASE sched(c, p)
    BY <1>3 DEF sched, Unlocked
  <1>4. CASE yield(c, p)
    <2>1. Yielded(c, p)
      BY <1>4, Yields, Zenon
    <2> QED
      BY <2>1 DEF Yielded
  <1>5. CASE push_off(c, p)
    <2>1. PICK l \in {"fork_parent", "reparent", "wait"} : Pushed(p, l) /\ cpu[c] = p
      BY <1>5, PushedOff
    <2> QED
      BY <2>1 DEF Pushed
  <1>6. ASSUME NEW q \in Procs, allocproc(c, p, q) PROVE (OnCpu /\ OneStack)'
    BY <1>6, AtRuns DEF allocproc, At, Locked
  <1>7. ASSUME NEW q \in Procs, kill(c, p, q) PROVE (OnCpu /\ OneStack)'
    BY <1>7, AtRuns DEF kill, At
  <1>8. CASE exit(c, p)
    BY <1>8, AtRuns DEF exit, At, Goto
  <1>9. CASE sys_wait(c, p)
    BY <1>9, AtRuns DEF sys_wait, At, Goto
  <1>10. CASE fork_copy(c, p)
    BY <1>10, AtRuns DEF fork_copy, At, Goto, Unlocked
  <1>11. CASE fork_fail(c, p)
    BY <1>11, AtRuns DEF fork_fail, At, freeproc, Unlocked
  <1>12. CASE fork_parent(c, p)
    BY <1>12, AtRuns DEF fork_parent, At, Goto
  <1>13. CASE fork_run(c, p)
    BY <1>13, AtRuns DEF fork_run, At, Goto
  <1>14. CASE reparent(c, p)
    BY <1>14, AtRuns DEF reparent, At, Goto
  <1>15. CASE exit_wakeinit(c, p)
    <2>1. pc[p] = "exit_wakeinit" /\ state[p] = "RUNNING" /\ plock[p] = None
      BY <1>15, AtRuns DEF exit_wakeinit
    <2> QED
      BY <1>15, <2>1, WakeupSlot DEF exit_wakeinit
  <1>16. CASE exit_wakeparent(c, p)
    <2>1. pc[p] = "exit_wakeparent" /\ state[p] = "RUNNING" /\ plock[p] = None
      BY <1>16, AtRuns DEF exit_wakeparent
    <2> QED
      BY <1>16, <2>1, WakeupSlot DEF exit_wakeparent
  <1>17. CASE exit_zombie(c, p)
    BY <1>17, AtRuns DEF exit_zombie, At, Goto, Locked
  <1>18. CASE wait(c, p)
    BY <1>18, AtRuns DEF wait, At, Goto
  <1>19. CASE wait_none(c, p)
    BY <1>19, AtRuns DEF wait_none, Scanned, At, Goto, wait_return
  <1>20. CASE wait_notkilled(c, p)
    BY <1>20, AtRuns DEF wait_notkilled, Scanned, At, Goto
  <1>21. CASE sleep(c, p)
    BY <1>21, AtRuns DEF sleep, At, Goto, Locked
  <1>22. ASSUME NEW q \in Procs, wait_next(c, p, q) PROVE (OnCpu /\ OneStack)'
    BY <1>22, AtRuns DEF wait_next, Visits, At
  <1>23. ASSUME NEW q \in Procs, wait_reap(c, p, q) PROVE (OnCpu /\ OneStack)'
    BY <1>23, AtRuns DEF wait_reap, Visits, At, Goto, ZombieChild, freeproc, wait_return
  <1>24. ASSUME NEW q \in Procs, wait_copyout(c, p, q) PROVE (OnCpu /\ OneStack)'
    BY <1>24, AtRuns DEF wait_copyout, Visits, At, Goto, wait_return
  <1> QED
    BY <1>1, <1>2, <1>3, <1>4, <1>5, <1>6, <1>7, <1>8, <1>9, <1>10, <1>11, <1>12,
       <1>13, <1>14, <1>15, <1>16, <1>17, <1>18, <1>19, <1>20, <1>21, <1>22, <1>23,
       <1>24, Zenon
       DEF Step, Fork, Exit, Wait

-----------------------------------------------------------------------------
(* Parents and wait_lock.                                                  *)

\* Every process has a living parent.
LEMMA NextFamily ==
  ASSUME TypeOK, Loops, OnCpu, Where, Forks, Family, ParentAlive, NEW c \in CPUs,
  NEW p \in Procs, Step(c, p)
  PROVE  (Family /\ ParentAlive)'
  <1> USE Slots DEF TypeOK, locals, Busy, Forking, Leaving, Exiting, Where, Forks, Family,
                ParentAlive
  <1>1. CASE dispatch(c, p)
    BY <1>1 DEF dispatch, Locked
  <1>2. CASE resume(c, p)
    BY <1>2 DEF resume, Unlocked, Goto
  <1>3. CASE sched(c, p)
    BY <1>3 DEF sched, Unlocked
  <1>4. CASE yield(c, p)
    <2>1. Yielded(c, p)
      BY <1>4, Yields, Zenon
    <2> QED
      BY <2>1 DEF Yielded
  <1>5. CASE push_off(c, p)
    <2>1. PICK l \in {"fork_parent", "reparent", "wait"} : Pushed(p, l) /\ cpu[c] = p
      BY <1>5, PushedOff
    <2> QED
      BY <2>1 DEF Pushed
  <1>6. ASSUME NEW q \in Procs, allocproc(c, p, q) PROVE (Family /\ ParentAlive)'
    BY <1>6, AtRuns DEF allocproc, At, Locked
  <1>7. ASSUME NEW q \in Procs, kill(c, p, q) PROVE (Family /\ ParentAlive)'
    BY <1>7, AtRuns DEF kill, At
  <1>8. CASE exit(c, p)
    BY <1>8, AtRuns DEF exit, At, Goto
  <1>9. CASE sys_wait(c, p)
    BY <1>9, AtRuns DEF sys_wait, At, Goto
  <1>10. CASE fork_copy(c, p)
    BY <1>10, AtRuns DEF fork_copy, At, Goto, Unlocked
  <1>11. CASE fork_fail(c, p)
    BY <1>11, AtRuns DEF fork_fail, At, freeproc, Unlocked
  <1>12. CASE fork_parent(c, p)
    BY <1>12, AtRuns DEF fork_parent, At, Goto
  <1>13. CASE fork_run(c, p)
    BY <1>13, AtRuns DEF fork_run, At, Goto
  <1>14. CASE reparent(c, p)
    BY <1>14, AtRuns DEF reparent, At, Goto
  <1>15. CASE exit_wakeinit(c, p)
    <2>1. pc[p] = "exit_wakeinit" /\ state[p] = "RUNNING" /\ plock[p] = None
      BY <1>15, AtRuns DEF exit_wakeinit
    <2> QED
      BY <1>15, <2>1, WakeupSlot DEF exit_wakeinit
  <1>16. CASE exit_wakeparent(c, p)
    <2>1. pc[p] = "exit_wakeparent" /\ state[p] = "RUNNING" /\ plock[p] = None
      BY <1>16, AtRuns DEF exit_wakeparent
    <2> QED
      BY <1>16, <2>1, WakeupSlot DEF exit_wakeparent
  <1>17. CASE exit_zombie(c, p)
    BY <1>17, AtRuns DEF exit_zombie, At, Goto, Locked
  <1>18. CASE wait(c, p)
    BY <1>18, AtRuns DEF wait, At, Goto
  <1>19. CASE wait_none(c, p)
    BY <1>19, AtRuns DEF wait_none, Scanned, At, Goto, wait_return
  <1>20. CASE wait_notkilled(c, p)
    BY <1>20, AtRuns DEF wait_notkilled, Scanned, At, Goto
  <1>21. CASE sleep(c, p)
    BY <1>21, AtRuns DEF sleep, At, Goto, Locked
  <1>22. ASSUME NEW q \in Procs, wait_next(c, p, q) PROVE (Family /\ ParentAlive)'
    BY <1>22, AtRuns DEF wait_next, Visits, At
  <1>23. ASSUME NEW q \in Procs, wait_reap(c, p, q) PROVE (Family /\ ParentAlive)'
    BY <1>23, AtRuns DEF wait_reap, Visits, At, Goto, ZombieChild, freeproc, wait_return
  <1>24. ASSUME NEW q \in Procs, wait_copyout(c, p, q) PROVE (Family /\ ParentAlive)'
    BY <1>24, AtRuns DEF wait_copyout, Visits, At, Goto, wait_return
  <1> QED
    BY <1>1, <1>2, <1>3, <1>4, <1>5, <1>6, <1>7, <1>8, <1>9, <1>10, <1>11, <1>12,
       <1>13, <1>14, <1>15, <1>16, <1>17, <1>18, <1>19, <1>20, <1>21, <1>22, <1>23,
       <1>24, Zenon
       DEF Step, Fork, Exit, Wait

\* wait_lock keeps exit() and wait() apart.
LEMMA NextWaitLocked ==
  ASSUME TypeOK, Loops, OnCpu, OneStack, Where, WaitLocked, NEW c \in CPUs, NEW p \in Procs,
         Step(c, p)
  PROVE  WaitLocked'
  <1> USE Slots DEF TypeOK, locals, Busy, Crit, OnCpu, OneStack, Where, WaitLocked
  <1>1. CASE dispatch(c, p)
    BY <1>1 DEF dispatch, Locked
  <1>2. CASE resume(c, p)
    BY <1>2 DEF resume, Unlocked, Goto
  <1>3. CASE sched(c, p)
    BY <1>3 DEF sched, Unlocked
  <1>4. CASE yield(c, p)
    <2>1. Yielded(c, p)
      BY <1>4, Yields
    <2> QED
      BY <2>1, Zenon DEF Yielded
  <1>5. CASE push_off(c, p)
    <2>1. PICK l \in {"fork_parent", "reparent", "wait"} : Pushed(p, l) /\ cpu[c] = p
      BY <1>5, PushedOff
    <2> QED
      BY <2>1 DEF Pushed
  <1>6. ASSUME NEW q \in Procs, allocproc(c, p, q) PROVE WaitLocked'
    BY <1>6, AtRuns DEF allocproc, At, Locked
  <1>7. ASSUME NEW q \in Procs, kill(c, p, q) PROVE WaitLocked'
    BY <1>7, AtRuns, Zenon DEF kill, At
  <1>8. CASE exit(c, p)
    BY <1>8, AtRuns DEF exit, At, Goto
  <1>9. CASE sys_wait(c, p)
    BY <1>9, AtRuns DEF sys_wait, At, Goto
  <1>10. CASE fork_copy(c, p)
    BY <1>10, AtRuns DEF fork_copy, At, Goto, Unlocked
  <1>11. CASE fork_fail(c, p)
    BY <1>11, AtRuns DEF fork_fail, At, freeproc, Unlocked
  <1>12. CASE fork_parent(c, p)
    BY <1>12, AtRuns DEF fork_parent, At, Goto
  <1>13. CASE fork_run(c, p)
    BY <1>13, AtRuns DEF fork_run, At, Goto
  <1>14. CASE reparent(c, p)
    BY <1>14, AtRuns DEF reparent, At, Goto
  <1>15. CASE exit_wakeinit(c, p)
    <2>1. pc[p] = "exit_wakeinit" /\ state[p] = "RUNNING" /\ plock[p] = None
      BY <1>15, AtRuns, Zenon DEF exit_wakeinit
    <2> QED
      BY <1>15, <2>1, WakeupSlot DEF exit_wakeinit
  <1>16. CASE exit_wakeparent(c, p)
    <2>1. pc[p] = "exit_wakeparent" /\ state[p] = "RUNNING" /\ plock[p] = None
      BY <1>16, AtRuns, Zenon DEF exit_wakeparent
    <2> QED
      BY <1>16, <2>1, WakeupSlot DEF exit_wakeparent
  <1>17. CASE exit_zombie(c, p)
    BY <1>17, AtRuns DEF exit_zombie, At, Goto, Locked
  <1>18. CASE wait(c, p)
    BY <1>18, AtRuns DEF wait, At, Goto
  <1>19. CASE wait_none(c, p)
    BY <1>19, AtRuns DEF wait_none, Scanned, At, Goto, wait_return
  <1>20. CASE wait_notkilled(c, p)
    BY <1>20, AtRuns DEF wait_notkilled, Scanned, At, Goto
  <1>21. CASE sleep(c, p)
    BY <1>21, AtRuns DEF sleep, At, Goto, Locked
  <1>22. ASSUME NEW q \in Procs, wait_next(c, p, q) PROVE WaitLocked'
    BY <1>22, AtRuns, Zenon DEF wait_next, Visits, At
  <1>23. ASSUME NEW q \in Procs, wait_reap(c, p, q) PROVE WaitLocked'
    BY <1>23, AtRuns DEF wait_reap, Visits, At, Goto, ZombieChild, freeproc, wait_return
  <1>24. ASSUME NEW q \in Procs, wait_copyout(c, p, q) PROVE WaitLocked'
    BY <1>24, AtRuns DEF wait_copyout, Visits, At, Goto, wait_return
  <1> QED
    BY <1>1, <1>2, <1>3, <1>4, <1>5, <1>6, <1>7, <1>8, <1>9, <1>10, <1>11, <1>12,
       <1>13, <1>14, <1>15, <1>16, <1>17, <1>18, <1>19, <1>20, <1>21, <1>22, <1>23,
       <1>24, Zenon
       DEF Step, Fork, Exit, Wait

\* The loops over proc[] start at its beginning.
LEMMA NextLoops ==
  ASSUME TypeOK, Loops, OnCpu, Where, Forks, NEW c \in CPUs, NEW p \in Procs, Step(c, p)
  PROVE  Loops'
  <1> USE Slots, Sizes DEF TypeOK, locals, Loops
  <1>1. CASE dispatch(c, p)
    BY <1>1, Zenon DEF dispatch, Locked
  <1>2. CASE resume(c, p)
    BY <1>2, Zenon DEF resume, Unlocked, Goto
  <1>3. CASE sched(c, p)
    BY <1>3, Zenon DEF sched, Unlocked
  <1>4. CASE yield(c, p)
    <2>1. Yielded(c, p)
      BY <1>4, Yields
    <2> QED
      BY <2>1, Zenon DEF Yielded
  <1>5. CASE push_off(c, p)
    <2>1. PICK l \in {"fork_parent", "reparent", "wait"} : Pushed(p, l) /\ cpu[c] = p
      BY <1>5, PushedOff, Zenon
    <2> QED
      BY <2>1, Zenon DEF Pushed
  <1>6. ASSUME NEW q \in Procs, allocproc(c, p, q) PROVE Loops'
    BY <1>6, AtRuns DEF allocproc, At, Where
  <1>7. ASSUME NEW q \in Procs, kill(c, p, q) PROVE Loops'
    BY <1>7, AtRuns, Zenon DEF kill, At
  <1>8. CASE exit(c, p)
    BY <1>8, AtRuns DEF exit, At, Goto
  <1>9. CASE sys_wait(c, p)
    BY <1>9, AtRuns DEF sys_wait, At, Goto
  <1>10. CASE fork_copy(c, p)
    BY <1>10, AtRuns DEF fork_copy, At, Goto, Unlocked
  <1>11. CASE fork_fail(c, p)
    BY <1>11, AtRuns DEF fork_fail, At, Where, Forks, Forking
  <1>12. CASE fork_parent(c, p)
    BY <1>12, AtRuns DEF fork_parent, At, Goto
  <1>13. CASE fork_run(c, p)
    BY <1>13, AtRuns DEF fork_run, At, Goto
  <1>14. CASE reparent(c, p)
    BY <1>14, AtRuns DEF reparent, At, Goto
  <1>15. CASE exit_wakeinit(c, p)
    <2>1. pc[p] = "exit_wakeinit" /\ state[p] = "RUNNING" /\ plock[p] = None
      BY <1>15, AtRuns, Zenon DEF exit_wakeinit
    <2> QED
      BY <1>15, <2>1, WakeupSlot DEF exit_wakeinit
  <1>16. CASE exit_wakeparent(c, p)
    <2>1. pc[p] = "exit_wakeparent" /\ state[p] = "RUNNING" /\ plock[p] = None
      BY <1>16, AtRuns, Zenon DEF exit_wakeparent
    <2> QED
      BY <1>16, <2>1, WakeupSlot DEF exit_wakeparent
  <1>17. CASE exit_zombie(c, p)
    BY <1>17, AtRuns DEF exit_zombie, At, Goto, Locked
  <1>18. CASE wait(c, p)
    BY <1>18, AtRuns DEF wait, At, Goto
  <1>19. CASE wait_none(c, p)
    BY <1>19, AtRuns DEF wait_none, Scanned, At, Goto, wait_return
  <1>20. CASE wait_notkilled(c, p)
    BY <1>20, AtRuns DEF wait_notkilled, Scanned, At, Goto
  <1>21. CASE sleep(c, p)
    BY <1>21, AtRuns DEF sleep, At, Goto, Locked
  <1>22. ASSUME NEW q \in Procs, wait_next(c, p, q) PROVE Loops'
    BY <1>22, AtRuns DEF wait_next, Visits, At
  <1>23. ASSUME NEW q \in Procs, wait_reap(c, p, q) PROVE Loops'
    BY <1>23, AtRuns DEF wait_reap, Visits, At, Goto, ZombieChild, freeproc, wait_return
  <1>24. ASSUME NEW q \in Procs, wait_copyout(c, p, q) PROVE Loops'
    BY <1>24, AtRuns DEF wait_copyout, Visits, At, Goto, wait_return
  <1> QED
    BY <1>1, <1>2, <1>3, <1>4, <1>5, <1>6, <1>7, <1>8, <1>9, <1>10, <1>11, <1>12,
       <1>13, <1>14, <1>15, <1>16, <1>17, <1>18, <1>19, <1>20, <1>21, <1>22, <1>23,
       <1>24, Zenon
       DEF Step, Fork, Exit, Wait

-----------------------------------------------------------------------------
(* exit() and wait().                                                      *)

\* A step that neither puts a process to sleep, makes a zombie or hands one
\* over, nor moves a thread that has wait_lock, other than out of wait().
Quiet ==
    /\ \A q \in Procs : Sleeps(q)' => Sleeps(q)
    /\ \A q \in Procs : state'[q] = "ZOMBIE" => state[q] = "ZOMBIE" /\ parent'[q] = parent[q]
    /\ \A q \in Procs : pc'[q] \in Crit => pc'[q] = pc[q] /\ pp'[q] = pp[q]
              /\ parent'[q] = parent[q]
    /\ \A q \in Procs : pc[q] = "exit_wakeinit" => pc'[q] = pc[q] /\ pp'[q] = pp[q]

\* A quiet step brings no zombie to a parent that has looked or sleeps.
LEMMA QuietSteps ==
  ASSUME TypeOK, Family, Where, ParentAlive, Noticing, ZombieNoticed, Quiet
  PROVE  (Noticing /\ ZombieNoticed)'
  <1>1. ASSUME NEW p \in Procs, NEW q \in Procs, ZombieChild(p, q)' PROVE ZombieChild(p, q)
    BY <1>1, Zenon DEF ZombieChild, Quiet
  <1>2. ASSUME NEW p \in Procs, pc'[p] \in {"exit_zombie",
  "exit_wakeparent"} PROVE parent[p] \in Procs
    <2>1. pc[p] \in {"exit_zombie", "exit_wakeparent"}
      BY <1>2, Zenon DEF Quiet, Crit
    <2>2. pc[p] \in Exiting /\ pc[p] \in Busy
      BY <2>1, Zenon DEF Exiting, Leaving, Busy
    <2>3. p # initproc /\ state[p] = "RUNNING"
      BY <2>2, Zenon DEF Family, Where
    <2> QED
      BY <2>3, Zenon DEF TypeOK, ParentAlive
  <1>3. Noticing'
    BY <1>1, <1>2, Zenon DEF Noticing, Quiet, Crit
  <1>4. ZombieNoticed'
    BY <1>1 DEF ZombieNoticed, Quiet, Crit, Sleeps
  <1> QED
    BY <1>3, <1>4, Zenon

\* wait_lock has one holder at a time.
LEMMA OneHolder ==
  ASSUME WaitLocked, NEW p \in Procs, NEW q \in Procs, pc[p] \in Crit, pc[q] \in Crit
  PROVE  p = q /\ wait_lock # None
  BY Zenon DEF WaitLocked


\* Everything that holds but what exit() and wait() tell each other.
Rest == TypeOK /\ OnCpu /\ Where /\ Forks /\ Family /\ WaitLocked /\ Loops /\ OneStack
          /\ ParentAlive

\* reparent() hands zombies to init, and is going to wake it.
LEMMA Noticed_reparent ==
  ASSUME Rest, Noticing, ZombieNoticed, NEW c \in CPUs, NEW p \in Procs, reparent(c, p)
  PROVE  (Noticing /\ ZombieNoticed)'
  <1>1. pc[p] = "reparent" /\ state[p] = "RUNNING"
    BY AtRuns, Slots, Zenon DEF reparent, Rest
  <1>2. \A q \in Procs : pc[q] \notin Crit
    BY Zenon DEF reparent, Rest, WaitLocked
  <1>3. pp[p] = 0 /\ parent[p] \in Procs
    BY <1>1, Zenon DEF Rest, TypeOK, Loops, Family, ParentAlive, Exiting
  <1>4. /\ parent' = [q \in Procs |-> IF parent[q] = p THEN initproc ELSE parent[q]]
        /\ UNCHANGED <<state, chan, pp>>
        /\ \/ pc' = [pc EXCEPT ![p] = "exit_wakeinit"]
           \/ pc' = [pc EXCEPT ![p] = "exit_wakeparent"] /\ \A q \in Procs : parent[q] # p
    BY Zenon DEF reparent, Goto, locals
  <1>5. Noticing'
    <2>1. \A q \in Procs : pc'[q] \in Crit => q = p
      BY <1>2, <1>4, Zenon DEF Rest, TypeOK
    <2>2. pc'[p] \in {"exit_wakeinit", "exit_wakeparent"} /\ ~(pp'[p] > parent'[p])
      <3>1. parent'[p] \in Procs
        BY <1>3, <1>4, Slots, Zenon
      <3> QED
        BY <1>3, <1>4, <3>1, Sizes DEF Rest, TypeOK
    <2> QED
      BY <2>1, <2>2, Zenon DEF Noticing, Crit
  <1>6. ZombieNoticed'
    <2>1. ASSUME NEW y \in Procs, NEW q \in Procs, Sleeps(y)', ZombieChild(y, q)'
          PROVE  y = initproc /\ \E r \in Procs : pc'[r] = "exit_wakeinit" /\ pp'[r] <= y
      <3>1. parent[q] = p
        <4>1. Sleeps(y) /\ state[q] = "ZOMBIE" /\ (parent[q] = p \/ parent[q] = y)
          BY <1>4, <2>1, Zenon DEF Sleeps, ZombieChild
        <4> QED
          BY <1>2, <4>1, Zenon DEF ZombieNoticed, ZombieChild, Sleeps, Crit
      <3>2. y = initproc
        BY <1>4, <2>1, <3>1, Zenon DEF ZombieChild
      <3>3. pc'[p] = "exit_wakeinit" /\ pp'[p] = 0
        BY <1>3, <1>4, <3>1, Zenon DEF Rest, TypeOK
      <3> QED
        BY <3>2, <3>3 DEF initproc
    <2> QED
      BY <2>1, Zenon DEF ZombieNoticed, Sleeps
  <1> QED
    BY <1>5, <1>6, Zenon

\* The wakeup of init goes round the whole table.
LEMMA Noticed_exit_wakeinit ==
  ASSUME Rest, Noticing, ZombieNoticed, NEW c \in CPUs, NEW p \in Procs, exit_wakeinit(c, p)
  PROVE  (Noticing /\ ZombieNoticed)'
  <1>1. pc[p] = "exit_wakeinit" /\ state[p] = "RUNNING"
    BY AtRuns, Slots, Zenon DEF exit_wakeinit, Rest
  <1>2. \A q \in Procs : pc[q] \in Crit => q = p
    BY <1>1, OneHolder, Zenon DEF Rest, Crit
  <1>3. p # initproc /\ parent[p] \in Procs
    BY <1>1, Zenon DEF Rest, TypeOK, Family, ParentAlive, Exiting, Leaving
  <1>4. /\ pp[p] \in Procs
        /\ state' = state \/ state' = [state EXCEPT ![pp[p]] = "RUNNABLE"]
        /\ pp[p] # p /\ chan[pp[p]] = initproc => state'[pp[p]] # "SLEEPING"
        /\ \/ pp' = [pp EXCEPT ![p] = 0] /\ pc' = [pc EXCEPT ![p] = "exit_wakeparent"]
           \/ pc' = pc
    BY <1>1, WakeupSlot DEF exit_wakeinit, Rest
  <1>5. UNCHANGED <<chan, parent>>
    BY Zenon DEF exit_wakeinit
  <1>6. Noticing'
    BY <1>1, <1>2, <1>3, <1>4, <1>5, Sizes DEF Rest, TypeOK, Noticing, Crit
  <1>7. ASSUME NEW x \in Procs, NEW q \in Procs, Sleeps(x)', ZombieChild(x, q)' PROVE FALSE
    <2>1. Sleeps(x) /\ ZombieChild(x, q)
      BY <1>4, <1>5, <1>7, Zenon DEF Sleeps, ZombieChild, Rest, TypeOK
    <2>2. x = initproc /\ pp[p] <= initproc
      BY <1>2, <2>1, Zenon DEF ZombieNoticed, Sleeps, Crit
    <2>3. pp[p] = initproc
      <3>1. pp[p] \in Nat
        BY <1>4, Sizes, Zenon
      <3> QED
        BY <2>2, <3>1 DEF initproc
    <2> QED
      BY <1>3, <1>4, <1>5, <1>7, <2>2, <2>3, Zenon DEF Sleeps
  <1>8. ZombieNoticed'
    BY <1>7, Zenon DEF ZombieNoticed, Sleeps
  <1> QED
    BY <1>6, <1>8, Zenon

\* When the loop of exit() is past the parent, the parent does not sleep.
LEMMA Noticed_exit_wakeparent ==
  ASSUME Rest, Noticing, ZombieNoticed, NEW c \in CPUs, NEW p \in Procs, exit_wakeparent(c, p)
  PROVE  (Noticing /\ ZombieNoticed)'
  <1>1. pc[p] = "exit_wakeparent" /\ state[p] = "RUNNING"
    BY AtRuns, Slots, Zenon DEF exit_wakeparent, Rest
  <1>2. \A q \in Procs : pc[q] \in Crit => q = p
    BY <1>1, OneHolder, Zenon DEF Rest, Crit
  <1>3. PICK x \in Procs : x = parent[p]
    BY <1>1, Zenon DEF Rest, TypeOK, Family, ParentAlive, Exiting, Leaving
  <1>4. /\ pp[p] \in Procs
        /\ state' = state \/ state' = [state EXCEPT ![pp[p]] = "RUNNABLE"]
        /\ pp[p] # p /\ chan[pp[p]] = x => state'[pp[p]] # "SLEEPING"
        /\ \/ pp' = [pp EXCEPT ![p] = 0] /\ pc' = [pc EXCEPT ![p] = "exit_zombie"]
                  /\ pp[p] = NPROC - 1
           \/ pp' = [pp EXCEPT ![p] = pp[p] + 1] /\ pc' = pc
    BY <1>1, <1>3, WakeupSlot, Zenon DEF exit_wakeparent, Rest
  <1>5. UNCHANGED <<chan, parent>>
    BY Zenon DEF exit_wakeparent
  <1>6. \A y \in Procs : Sleeps(y)' => Sleeps(y)
    BY <1>4, <1>5, Zenon DEF Sleeps, Rest, TypeOK
  <1>7. pp[p] >= x => ~Sleeps(x)'
    <2>1. CASE pp[p] > x
      BY <1>1, <1>3, <1>6, <2>1, Zenon DEF Noticing
    <2>2. CASE pp[p] = x
      <3>1. CASE x = p
        BY <1>1, <1>6, <3>1, Zenon DEF Sleeps
      <3>2. CASE x # p
        BY <1>4, <1>5, <2>2, <3>2, Zenon DEF Sleeps
      <3> QED
        BY <3>1, <3>2, Zenon
    <2> QED
      BY <1>4, <2>1, <2>2, Sizes
  <1>8. Noticing'
    <2>1. pc'[p] = "exit_zombie" \/ (pc'[p] = "exit_wakeparent"
              /\ pp'[p] > parent'[p]) => ~Sleeps(x)'
      BY <1>1, <1>3, <1>4, <1>5, <1>7, Sizes DEF Rest, TypeOK
    <2>2. \A q \in Procs : q # p => pc'[q] = pc[q] /\ pc'[q] \notin Crit
      BY <1>2, <1>4, Zenon DEF Rest, TypeOK
    <2>3. pc'[p] \notin {"wait_scan", "wait_sleep"} /\ x = parent'[p]
      BY <1>1, <1>3, <1>4, <1>5, Zenon DEF Rest, TypeOK
    <2> QED
      BY <2>1, <2>2, <2>3, Zenon DEF Noticing, Crit
  <1>9. ZombieNoticed'
    <2>1. ASSUME NEW y \in Procs, NEW q \in Procs, Sleeps(y)', ZombieChild(y, q)' PROVE FALSE
      <3>1. Sleeps(y) /\ ZombieChild(y, q)
        BY <1>4, <1>5, <1>6, <2>1, Zenon DEF ZombieChild, Rest, TypeOK
      <3> QED
        BY <1>1, <1>2, <3>1, Zenon DEF ZombieNoticed, Sleeps, Crit
    <2> QED
      BY <2>1, Zenon DEF ZombieNoticed, Sleeps
  <1> QED
    BY <1>8, <1>9, Zenon

\* A new zombie: its parent is awake.
LEMMA Noticed_exit_zombie ==
  ASSUME Rest, Noticing, ZombieNoticed, NEW c \in CPUs, NEW p \in Procs, exit_zombie(c, p)
  PROVE  (Noticing /\ ZombieNoticed)'
  <1>1. pc[p] = "exit_zombie" /\ state[p] = "RUNNING"
    BY AtRuns, Slots, Zenon DEF exit_zombie, Rest
  <1>2. \A q \in Procs : pc[q] \in Crit => q = p
    BY <1>1, OneHolder, Zenon DEF Rest, Crit
  <1>3. /\ state' = [state EXCEPT ![p] = "ZOMBIE"] /\ pc' = [pc EXCEPT ![p] = "none"]
        /\ UNCHANGED <<chan, parent, pp>>
    BY Zenon DEF exit_zombie, Goto, locals
  <1>4. Noticing'
    BY <1>2, <1>3, Zenon DEF Noticing, Crit, Rest, TypeOK
  <1>5. ZombieNoticed'
    <2>1. ASSUME NEW y \in Procs, NEW q \in Procs, Sleeps(y)', ZombieChild(y, q)' PROVE FALSE
      <3>1. Sleeps(y) /\ parent[q] = y
        BY <1>3, <2>1, Zenon DEF Sleeps, ZombieChild, Rest, TypeOK
      <3>2. CASE q = p
        BY <1>1, <3>1, <3>2, Zenon DEF Noticing
      <3>3. CASE q # p
        <4>1. ZombieChild(y, q)
          BY <1>3, <2>1, <3>3, Zenon DEF ZombieChild, Rest, TypeOK
        <4> QED
          BY <1>1, <1>2, <3>1, <4>1, Zenon DEF ZombieNoticed, Sleeps, Crit
      <3> QED
        BY <3>2, <3>3, Zenon
    <2> QED
      BY <2>1, Zenon DEF ZombieNoticed, Sleeps
  <1> QED
    BY <1>4, <1>5, Zenon

\* wait() starts with nothing seen, sees one slot at a time, and sleeps when
\* it has seen them all.
LEMMA Noticed_wait ==
  ASSUME Rest, Noticing, ZombieNoticed, NEW c \in CPUs, NEW p \in Procs, wait(c, p)
  PROVE  (Noticing /\ ZombieNoticed)'
  <1>1. \A q \in Procs : pc[q] \notin Crit
    BY Zenon DEF wait, Rest, WaitLocked
  <1>2. pc[p] = "wait" /\ pp[p] = 0
    BY DEF wait, At, Rest, Loops
  <1>3. pc' = [pc EXCEPT ![p] = "wait_scan"] /\ UNCHANGED <<state, chan, parent, pp>>
    BY Zenon DEF wait, Goto, locals
  <1>4. Noticing'
    BY <1>1, <1>2, <1>3, Sizes DEF Noticing, Crit, Rest, TypeOK
  <1>5. ZombieNoticed'
    BY <1>1, <1>3, Zenon DEF ZombieNoticed, ZombieChild, Crit, Rest, TypeOK
  <1> QED
    BY <1>4, <1>5, Zenon

\* wait() goes on to the next slot when this one is no zombie of its own.
LEMMA Noticed_wait_next ==
  ASSUME Rest, Noticing, ZombieNoticed, NEW c \in CPUs, NEW p \in Procs, NEW q \in Procs,
         wait_next(c, p, q)
  PROVE  (Noticing /\ ZombieNoticed)'
  <1>1. pc[p] = "wait_scan" /\ pp[p] = q /\ ~ZombieChild(p, q)
    BY Zenon DEF wait_next, Visits, At
  <1>2. \A r \in Procs : pc[r] \in Crit => r = p
    BY <1>1, OneHolder, Zenon DEF Rest, Crit
  <1>3. pp' = [pp EXCEPT ![p] = q + 1] /\ UNCHANGED <<state, chan, parent, pc>>
    BY Zenon DEF wait_next
  <1>4. ASSUME NEW x \in Procs, x < pp'[p] PROVE ~ZombieChild(p, x)
    <2>1. x = q \/ x < pp[p]
      BY <1>1, <1>3, <1>4, Sizes DEF Rest, TypeOK
    <2> QED
      BY <1>1, <2>1, Zenon DEF Noticing
  <1>5. Noticing'
    BY <1>1, <1>2, <1>3, <1>4 DEF Noticing, ZombieChild, Crit
  <1>6. ZombieNoticed'
    BY <1>1, <1>2, <1>3, Zenon DEF ZombieNoticed, ZombieChild, Crit
  <1> QED
    BY <1>5, <1>6, Zenon

\* At the end of its loop wait() has seen every slot.
LEMMA Noticed_wait_notkilled ==
  ASSUME Rest, Noticing, ZombieNoticed, NEW c \in CPUs, NEW p \in Procs, wait_notkilled(c, p)
  PROVE  (Noticing /\ ZombieNoticed)'
  <1>1. pc[p] = "wait_scan" /\ pp[p] = NPROC
    BY Zenon DEF wait_notkilled, Scanned, At
  <1>2. \A r \in Procs : pc[r] \in Crit => r = p
    BY <1>1, OneHolder, Zenon DEF Rest, Crit
  <1>3. pc' = [pc EXCEPT ![p] = "wait_sleep"] /\ UNCHANGED <<state, chan, parent>>
    BY Zenon DEF wait_notkilled, Goto
  <1>4. \A q \in Procs : ~ZombieChild(p, q)
    BY <1>1, Sizes, Zenon DEF Noticing
  <1>5. Noticing'
    BY <1>1, <1>2, <1>3, <1>4, Zenon DEF Noticing, ZombieChild, Crit, Rest, TypeOK
  <1>6. ZombieNoticed'
    BY <1>1, <1>2, <1>3, Zenon DEF ZombieNoticed, ZombieChild, Crit, Rest, TypeOK
  <1> QED
    BY <1>5, <1>6, Zenon

\* wait() goes to sleep with wait_lock held, so no zombie has come since.
LEMMA Noticed_sleep ==
  ASSUME Rest, Noticing, ZombieNoticed, NEW c \in CPUs, NEW p \in Procs, sleep(c, p)
  PROVE  (Noticing /\ ZombieNoticed)'
  <1>1. pc[p] = "wait_sleep" /\ state[p] = "RUNNING"
    BY AtRuns, Slots, Zenon DEF sleep, Rest
  <1>2. \A r \in Procs : pc[r] \in Crit => r = p
    BY <1>1, OneHolder, Zenon DEF Rest, Crit
  <1>3. /\ pc' = [pc EXCEPT ![p] = "asleep"] /\ state' = [state EXCEPT ![p] = "SLEEPING"]
        /\ chan' = [chan EXCEPT ![p] = p] /\ UNCHANGED parent
    BY Zenon DEF sleep, Goto
  <1>4. Noticing'
    BY <1>2, <1>3, Zenon DEF Noticing, Crit, Rest, TypeOK
  <1>5. ZombieNoticed'
    <2>1. ASSUME NEW y \in Procs, NEW q \in Procs, Sleeps(y)', ZombieChild(y, q)' PROVE FALSE
      <3>1. ZombieChild(y, q)
        BY <1>3, <2>1, Zenon DEF ZombieChild, Rest, TypeOK
      <3>2. CASE y = p
        BY <1>1, <3>1, <3>2, Zenon DEF Noticing
      <3>3. CASE y # p
        <4>1. Sleeps(y)
          BY <1>3, <2>1, <3>3, Zenon DEF Sleeps, Rest, TypeOK
        <4> QED
          BY <1>1, <1>2, <3>1, <4>1, Zenon DEF ZombieNoticed, Sleeps, Crit
      <3> QED
        BY <3>2, <3>3, Zenon
    <2> QED
      BY <2>1, Zenon DEF ZombieNoticed, Sleeps
  <1> QED
    BY <1>4, <1>5, Zenon

\* A thread that leaves wait(), or moves where it does not have wait_lock, is
\* not noticed by the others.
LEMMA QuietMove ==
  ASSUME TypeOK, NEW p \in Procs, NEW l \in PCs \ Crit, pc[p] # "exit_wakeinit",
         pc' = [pc EXCEPT ![p] = l], UNCHANGED <<state, chan, parent>>,
         \A q \in Procs \ {p} : pp'[q] = pp[q]
  PROVE  Quiet
  <1>1. \A q \in Procs : q # p => pc'[q] = pc[q] /\ pp'[q] = pp[q]
    BY Zenon DEF TypeOK
  <1>2. pc'[p] = l /\ l \notin Crit
    BY Zenon DEF TypeOK
  <1> QED
    BY <1>1, <1>2, Zenon DEF Quiet, Sleeps

\* A step on one slot is not noticed if the slot becomes neither a zombie nor
\* asleep, and had no thread in wait() or exit().
LEMMA QuietSlot ==
  ASSUME TypeOK, NEW q \in Procs, NEW s \in States \ {"ZOMBIE", "SLEEPING"},
         state' = [state EXCEPT ![q] = s], UNCHANGED <<parent, chan, pp>>,
         \A r \in Procs : pc'[r] = pc[r] \/ (pc[r] \notin Crit /\ pc'[r] \notin Crit)
  PROVE  Quiet
  <1>1. \A r \in Procs : r # q => state'[r] = state[r]
    BY Zenon DEF TypeOK
  <1>2. state'[q] \notin {"ZOMBIE", "SLEEPING"}
    BY Zenon DEF TypeOK
  <1>3. "exit_wakeinit" \in Crit
    BY Zenon DEF Crit
  <1>4. \A r \in Procs : Sleeps(r)' => Sleeps(r)
    BY <1>1, <1>2, Zenon DEF Sleeps
  <1> QED
    BY <1>1, <1>2, <1>3, <1>4, Zenon DEF Quiet

\* The same for the steps that free a slot, whose parent is forgotten.
LEMMA QuietFree ==
  ASSUME TypeOK, NEW q \in Procs, freeproc(q), pc[q] \notin Crit, NEW p \in Procs,
         NEW l \in PCs \ Crit, pc[p] # "exit_wakeinit", \A r \in Procs \ {p} : pp'[r] = pp[r],
         \A r \in Procs \ {p, q} : pc'[r] = pc[r], pc'[p] = l, pc'[q] \notin Crit
  PROVE  Quiet
  <1>1. \A r \in Procs : r # q => state'[r] = state[r] /\ chan'[r] = chan[r]
            /\ parent'[r] = parent[r]
    BY Zenon DEF TypeOK, freeproc
  <1>2. state'[q] = "UNUSED"
    BY Zenon DEF TypeOK, freeproc
  <1>3. \A r \in Procs : Sleeps(r)' => Sleeps(r)
    BY <1>1, <1>2, Zenon DEF Sleeps
  <1>4. pc[q] # "exit_wakeinit"
    BY Zenon DEF Crit
  <1> QED
    BY <1>1, <1>2, <1>3, <1>4, Zenon DEF Quiet

\* No exit() goes unnoticed by a wait() that sleeps.
LEMMA NextNoticing ==
  ASSUME Rest, Noticing, ZombieNoticed, NEW c \in CPUs, NEW p \in Procs, Step(c, p)
  PROVE  (Noticing /\ ZombieNoticed)'
  <1> USE Slots
  <1>q. ASSUME Quiet PROVE (Noticing /\ ZombieNoticed)'
    BY <1>q, QuietSteps, Zenon DEF Rest
  <1>t. TypeOK
    BY Zenon DEF Rest
  <1>s. {"RUNNING", "RUNNABLE", "USED"} \subseteq States \ {"ZOMBIE", "SLEEPING"}
    BY Zenon DEF States
  <1>l. {"user", "none", "exit", "forked", "fork_run", "fork_parent", "reparent", "wait",
         "waiting"} \subseteq PCs \ Crit
    BY DEF PCs, Busy, Crit
  <1>1. CASE dispatch(c, p)
    BY <1>1, <1>q, <1>t, <1>s, QuietSlot, Zenon DEF dispatch, locals
  <1>2. CASE resume(c, p)
    <2>1. UNCHANGED <<state, parent, pp>>
      BY <1>2, Zenon DEF resume, locals
    <2>2. \A q \in Procs : Sleeps(q)' => Sleeps(q)
      BY <1>2, <1>t, <2>1, Zenon DEF resume, Sleeps, TypeOK
    <2>3. \A q \in Procs : pc'[q] = pc[q] \/ (pc[q] = "asleep" /\ pc'[q] = "waiting")
      BY <1>2, <1>t, Zenon DEF resume, Goto, TypeOK
    <2> QED
      BY <1>q, <1>l, <2>1, <2>2, <2>3, Zenon DEF Quiet, Crit
  <1>3. CASE sched(c, p)
    BY <1>3, <1>q, Zenon DEF Quiet, Sleeps, sched, locals
  <1>4. CASE yield(c, p)
    <2>1. Yielded(c, p)
      BY <1>4, Yields DEF Rest
    <2> QED
      BY <2>1, <1>q, <1>t, <1>s, QuietSlot, Zenon DEF Yielded
  <1>5. CASE push_off(c, p)
    <2>1. PICK l \in {"fork_parent", "reparent", "wait"} : Pushed(p, l)
      BY <1>5, PushedOff, Zenon DEF Rest
    <2>2. l \in PCs \ Crit
      BY <1>l
    <2> QED
      BY <1>q, <1>t, <2>1, <2>2, QuietMove, Zenon DEF Pushed
  <1>6. ASSUME NEW q \in Procs, allocproc(c, p, q) PROVE (Noticing /\ ZombieNoticed)'
    <2>1. pc[p] = "user" /\ pc[q] = "none"
      BY <1>6, Zenon DEF allocproc, At, Rest, Where
    <2>2. pc' = [pc EXCEPT ![p] = "fork_copy", ![q] = "user"]
      BY <1>6, Zenon DEF allocproc
    <2>3. \A r \in Procs : pc'[r] = pc[r] \/ (pc[r] \notin Crit /\ pc'[r] \notin Crit)
      BY <1>t, <2>1, <2>2 DEF TypeOK, Crit
    <2> QED
      BY <1>6, <1>q, <1>t, <1>s, <2>3, QuietSlot, Zenon DEF allocproc
  <1>7. ASSUME NEW q \in Procs, kill(c, p, q) PROVE (Noticing /\ ZombieNoticed)'
    BY <1>7, <1>q, <1>t, <1>s, QuietSlot DEF kill, Quiet, Sleeps, locals
  <1>8. CASE exit(c, p)
    BY <1>8, <1>q, <1>t, <1>l, QuietMove, Zenon DEF exit, At, Goto, locals
  <1>9. CASE sys_wait(c, p)
    BY <1>9, <1>q, <1>t, <1>l, QuietMove, Zenon DEF sys_wait, At, Goto, locals
  <1>10. CASE fork_copy(c, p)
    BY <1>10, <1>q, <1>t, <1>l, QuietMove, Zenon DEF fork_copy, At, Goto, locals
  <1>11. CASE fork_fail(c, p)
    <2>1. pc[p] = "fork_copy" /\ np[p] \in Procs /\ state[np[p]] = "USED"
      BY <1>11, Zenon DEF fork_fail, At, Rest, Forks, Forking
    <2>2. pc[np[p]] = "user"
      BY <2>1, Zenon DEF Rest, Where
    <2>3. pc[np[p]] \notin Crit /\ "none" \notin Crit /\ "user" \in PCs \ Crit
              /\ pc[p] # "exit_wakeinit"
      BY <1>l, <2>1, <2>2, Zenon DEF Crit
    <2>4. pp' = pp /\ pc' = [pc EXCEPT ![p] = "user", ![np[p]] = "none"] /\ freeproc(np[p])
      BY <1>11, Zenon DEF fork_fail
    <2>5. \A r \in Procs \ {p, np[p]} : pc'[r] = pc[r]
      BY <1>t, <2>1, <2>4, Zenon DEF TypeOK
    <2>6. pc'[p] = "user" /\ pc'[np[p]] = "none"
      BY <1>t, <2>1, <2>2, <2>4 DEF TypeOK
    <2> QED
      BY <1>q, <1>t, <2>1, <2>3, <2>4, <2>5, <2>6, QuietFree, Zenon
  <1>12. CASE fork_parent(c, p)
    <2>1. pc[p] = "fork_parent" /\ np[p] \in Procs /\ state[np[p]] = "USED"
      BY <1>12, Zenon DEF fork_parent, At, Rest, Forks, Forking
    <2>2. pc[np[p]] = "user"
      BY <2>1, Zenon DEF Rest, Where
    <2>3. \A r \in Procs : (r # p => pc'[r] = pc[r]) /\ (r # np[p] => parent'[r] = parent[r])
      BY <1>12, <1>t, <2>1, Zenon DEF fork_parent, Goto, TypeOK
    <2>4. pc'[p] = "fork_run" /\ UNCHANGED <<state, chan, pp>>
      BY <1>12, <1>t, Zenon DEF fork_parent, Goto, TypeOK, locals
    <2> QED
      BY <1>q, <2>1, <2>2, <2>3, <2>4, Zenon DEF Quiet, Sleeps, Crit
  <1>13. CASE fork_run(c, p)
    <2>1. pc[p] = "fork_run" /\ np[p] \in Procs
      BY <1>13, Zenon DEF fork_run, At, Rest, Forks, Forking
    <2>2. \A r \in Procs : pc'[r] = pc[r] \/ (pc[r] \notin Crit /\ pc'[r] \notin Crit)
      BY <1>13, <1>t, <2>1 DEF fork_run, Goto, TypeOK, Crit
    <2> QED
      BY <1>13, <1>q, <1>t, <1>s, <2>1, <2>2, QuietSlot, Zenon DEF fork_run
  <1>14. CASE reparent(c, p)
    BY <1>14, Noticed_reparent, Zenon
  <1>15. CASE exit_wakeinit(c, p)
    BY <1>15, Noticed_exit_wakeinit, Zenon
  <1>16. CASE exit_wakeparent(c, p)
    BY <1>16, Noticed_exit_wakeparent, Zenon
  <1>17. CASE exit_zombie(c, p)
    BY <1>17, Noticed_exit_zombie, Zenon
  <1>18. CASE wait(c, p)
    BY <1>18, Noticed_wait, Zenon
  <1>19. CASE wait_none(c, p)
    <2>1. /\ pc[p] = "wait_scan" /\ pc' = [pc EXCEPT ![p] = "user"]
          /\ UNCHANGED <<state, chan, parent>>
      BY <1>19, Zenon DEF wait_none, wait_return, Goto, Scanned, At
    <2>2. \A q \in Procs \ {p} : pp'[q] = pp[q]
      BY <1>19, <1>t, Zenon DEF wait_none, wait_return, TypeOK
    <2> QED
      BY <1>q, <1>t, <1>l, <2>1, <2>2, QuietMove, Zenon
  <1>20. CASE wait_notkilled(c, p)
    BY <1>20, Noticed_wait_notkilled, Zenon
  <1>21. CASE sleep(c, p)
    BY <1>21, Noticed_sleep, Zenon
  <1>22. ASSUME NEW q \in Procs, wait_next(c, p, q) PROVE (Noticing /\ ZombieNoticed)'
    BY <1>22, Noticed_wait_next, Zenon
  <1>23. ASSUME NEW q \in Procs, wait_reap(c, p, q) PROVE (Noticing /\ ZombieNoticed)'
    <2>1. pc[p] = "wait_scan" /\ state[q] = "ZOMBIE" /\ freeproc(q)
              /\ pc' = [pc EXCEPT ![p] = "user"]
      BY <1>23, Zenon DEF wait_reap, Visits, ZombieChild, wait_return, Goto, At
    <2>2. pc[q] = "none"
      BY <2>1, Zenon DEF Rest, Where
    <2>3. pc[q] \notin Crit /\ pc'[q] \notin Crit /\ pc'[p] = "user"
              /\ \A r \in Procs \ {p} : pc'[r] = pc[r]
      BY <1>t, <2>1, <2>2, Zenon DEF TypeOK, Crit
    <2>4. \A r \in Procs \ {p} : pp'[r] = pp[r]
      BY <1>23, <1>t, Zenon DEF wait_reap, wait_return, TypeOK
    <2>5. pc[p] # "exit_wakeinit"
      BY <2>1, Zenon
    <2> QED
      BY <1>q, <1>t, <1>l, <2>1, <2>3, <2>4, <2>5, QuietFree, Zenon
  <1>24. ASSUME NEW q \in Procs, wait_copyout(c, p, q) PROVE (Noticing /\ ZombieNoticed)'
    <2>1. /\ pc[p] = "wait_scan" /\ pc' = [pc EXCEPT ![p] = "user"]
          /\ UNCHANGED <<state, chan, parent>>
      BY <1>24, Zenon DEF wait_copyout, wait_return, Goto, Visits, At
    <2>2. \A r \in Procs \ {p} : pp'[r] = pp[r]
      BY <1>24, <1>t DEF wait_copyout, wait_return, TypeOK
    <2> QED
      BY <1>q, <1>t, <1>l, <2>1, <2>2, QuietMove, Zenon
  <1> QED
    BY <1>1, <1>2, <1>3, <1>4, <1>5, <1>6, <1>7, <1>8, <1>9, <1>10, <1>11, <1>12,
       <1>13, <1>14, <1>15, <1>16, <1>17, <1>18, <1>19, <1>20, <1>21, <1>22, <1>23,
       <1>24, Zenon
       DEF Step, Fork, Exit, Wait

-----------------------------------------------------------------------------
(* The theorems.                                                           *)

\* The invariant holds when userinit() has made the first process.
LEMMA InitInv == Init => IInv
  <1> SUFFICES ASSUME Init PROVE IInv
    BY Zenon
  <1> USE Slots, Sizes DEF Init
  <1>1. TypeOK
    BY DEF TypeOK, States, PCs
  <1>2. OnCpu /\ Where /\ Forks /\ Family
    BY Zenon DEF OnCpu, Where, Forks, Family, Busy, Forking, Leaving, Exiting
  <1>3. WaitLocked /\ Loops /\ Noticing
    BY Zenon DEF WaitLocked, Loops, Noticing, Crit, ZombieChild
  <1>4. OneStack /\ ParentAlive /\ ZombieNoticed
    BY Zenon DEF OneStack, ParentAlive, ZombieNoticed, initproc
  <1> QED
    BY <1>1, <1>2, <1>3, <1>4, Zenon DEF IInv

\* Every step of every kernel thread keeps the invariant.
LEMMA StepInv ==
  ASSUME IInv, NEW c \in CPUs, NEW p \in Procs, Step(c, p)
  PROVE  IInv'
  <1> USE DEF IInv
  <1>1. TypeOK' /\ Loops'
    BY NextType, NextLoops, Zenon
  <1>2. (Where /\ Forks)' /\ (OnCpu /\ OneStack)'
    BY NextWhere, NextOnCpu, Zenon
  <1>3. (Family /\ ParentAlive)' /\ WaitLocked'
    BY NextFamily, NextWaitLocked, Zenon
  <1>4. (Noticing /\ ZombieNoticed)'
    BY NextNoticing, Zenon DEF Rest
  <1> QED
    BY <1>1, <1>2, <1>3, <1>4, Zenon

\* So does every step of the specification.
LEMMA NextInv ==
  ASSUME IInv, [Next]_vars
  PROVE  IInv'
  <1>1. CASE UNCHANGED vars
    <2> USE <1>1 DEF vars, IInv
    <2>1. (TypeOK /\ OnCpu /\ Where /\ Forks)'
      BY Zenon DEF TypeOK, OnCpu, Where, Forks
    <2>2. (Family /\ WaitLocked /\ Loops /\ Noticing)'
      BY Zenon DEF Family, WaitLocked, Loops, Noticing, Sleeps, ZombieChild
    <2>3. (OneStack /\ ParentAlive /\ ZombieNoticed)'
      BY Zenon DEF OneStack, ParentAlive, ZombieNoticed, ZombieChild
    <2> QED
      BY <2>1, <2>2, <2>3, Zenon
  <1>2. CASE Next
    BY <1>2, StepInv DEF Next
  <1> QED
    BY <1>1, <1>2, Zenon

\* The inductive invariant holds in every state of the process table.
THEOREM Invariance == Spec => []IInv
  <1>1. IInv /\ [Next]_vars => IInv'
    BY NextInv
  <1> QED
    BY <1>1, InitInv, PTL DEF Spec

\* No two CPUs are on one kernel stack, and none is on a stack given back.
THEOREM StacksKeptApart == Spec => []OneStack
  <1>1. IInv => OneStack
    BY DEF IInv
  <1> QED
    BY <1>1, Invariance, PTL

\* reparent() leaves no orphan behind.
THEOREM NoOrphans == Spec => []ParentAlive
  <1>1. IInv => ParentAlive
    BY DEF IInv
  <1> QED
    BY <1>1, Invariance, PTL

\* A parent does not sleep in wait() on a child that has exited.
THEOREM ExitsNoticed == Spec => []ZombieNoticed
  <1>1. IInv => ZombieNoticed
    BY DEF IInv
  <1> QED
    BY <1>1, Invariance, PTL

\* A step that neither takes, frees nor kills a slot.
LEMMA SameFree ==
  ASSUME Unkilled, UNCHANGED <<pid, killed>>,
         \A q \in Procs : state'[q] = "UNUSED" <=> state[q] = "UNUSED"
  PROVE  Unkilled'
  BY Zenon DEF Unkilled

\* freeproc() clears what kill() set, and kill() finds no free slot.
LEMMA StepUnkilled ==
  ASSUME 0 \notin KillArgs, IInv, Unkilled, NEW c \in CPUs, NEW p \in Procs, Step(c, p)
  PROVE  Unkilled'
  <1> USE Slots
  <1>t. TypeOK
    BY Zenon DEF IInv
  <1>1. CASE UNCHANGED <<state, pid, killed>>
    BY <1>1, SameFree, Zenon
  <1>2. ASSUME NEW q \in Procs, NEW s \in States, state[q] # "UNUSED", s # "UNUSED",
               state' = [state EXCEPT ![q] = s], UNCHANGED <<pid, killed>>
        PROVE  Unkilled'
    <2>1. \A r \in Procs : state'[r] = "UNUSED" <=> state[r] = "UNUSED"
      BY <1>2, <1>t, Zenon DEF TypeOK
    <2> QED
      BY <1>2, <2>1, SameFree, Zenon
  <1>s. {"RUNNING", "RUNNABLE", "SLEEPING", "ZOMBIE"} \subseteq States
    BY DEF States
  <1>3. CASE dispatch(c, p)
    BY <1>2, <1>3, <1>s, Zenon DEF dispatch
  <1>4. CASE yield(c, p)
    <2>1. Yielded(c, p)
      BY <1>4, Yields DEF IInv
    <2> QED
      BY <1>2, <1>s, <2>1, Zenon DEF Yielded
  <1>5. ASSUME NEW q \in Procs, allocproc(c, p, q) PROVE Unkilled'
    <2>1. \A r \in Procs : r # q => pid'[r] = pid[r] /\ state'[r] = state[r]
      BY <1>5, <1>t, Zenon DEF allocproc, TypeOK
    <2>2. pid'[q] = nextpid /\ state'[q] = "USED" /\ killed' = killed /\ nextpid # 0
      BY <1>5, <1>t, Zenon DEF allocproc, TypeOK
    <2> QED
      BY <2>1, <2>2, Zenon DEF Unkilled
  <1>6. ASSUME NEW q \in Procs, kill(c, p, q) PROVE Unkilled'
    <2>1. state[q] # "UNUSED"
      BY <1>6, Zenon DEF kill, Unkilled
    <2>2. \A r \in Procs : state'[r] = "UNUSED" <=> state[r] = "UNUSED"
      BY <1>6, <1>t, <2>1, Zenon DEF kill, TypeOK
    <2>3. pid' = pid /\ \A r \in Procs : r # q => killed'[r] = killed[r]
      BY <1>6, <1>t, Zenon DEF kill, TypeOK
    <2> QED
      BY <2>1, <2>2, <2>3, Zenon DEF Unkilled
  <1>7. ASSUME NEW q \in Procs, freeproc(q) PROVE Unkilled'
    <2>1. \A r \in Procs : r # q => pid'[r] = pid[r] /\ state'[r] = state[r]
              /\ killed'[r] = killed[r]
      BY <1>7, <1>t, Zenon DEF freeproc, TypeOK
    <2>2. pid'[q] = 0 /\ state'[q] = "UNUSED" /\ ~killed'[q]
      BY <1>7, <1>t, Zenon DEF freeproc, TypeOK
    <2> QED
      BY <2>1, <2>2, Zenon DEF Unkilled
  <1>8. CASE fork_fail(c, p)
    <2>1. np[p] \in Procs
      BY <1>8, Zenon DEF fork_fail, At, IInv, Forks, Forking
    <2> QED
      BY <1>7, <1>8, <2>1, Zenon DEF fork_fail
  <1>9. CASE fork_run(c, p)
    <2>1. np[p] \in Procs /\ state[np[p]] = "USED"
      BY <1>9 DEF fork_run, At, IInv, Forks, Forking
    <2> QED
      BY <1>2, <1>9, <1>s, <2>1, Zenon DEF fork_run
  <1>10. CASE exit_wakeinit(c, p) \/ exit_wakeparent(c, p)
    <2>1. PICK ch, l : wakeup(p, ch, l) /\ UNCHANGED <<pid, killed>>
      BY <1>10, Zenon DEF exit_wakeinit, exit_wakeparent
    <2>2. \A r \in Procs : state'[r] = "UNUSED" <=> state[r] = "UNUSED"
      BY <1>t, <2>1, Zenon DEF wakeup, TypeOK
    <2> QED
      BY <2>1, <2>2, SameFree, Zenon
  <1>11. CASE exit_zombie(c, p)
    <2>1. state[p] = "RUNNING"
      BY <1>11, AtRuns DEF exit_zombie, IInv
    <2> QED
      BY <1>2, <1>11, <1>s, <2>1, Zenon DEF exit_zombie
  <1>12. CASE sleep(c, p)
    <2>1. state[p] = "RUNNING"
      BY <1>12, AtRuns DEF sleep, IInv
    <2> QED
      BY <1>2, <1>12, <1>s, <2>1, Zenon DEF sleep
  <1>13. ASSUME NEW q \in Procs, wait_reap(c, p, q) PROVE Unkilled'
    BY <1>7, <1>13, Zenon DEF wait_reap
  <1>14. \/ UNCHANGED <<state, pid, killed>>
         \/ dispatch(c, p) \/ yield(c, p) \/ fork_fail(c, p) \/ fork_run(c, p)
         \/ exit_wakeinit(c, p) \/ exit_wakeparent(c, p) \/ exit_zombie(c, p) \/ sleep(c, p)
         \/ \E q \in Procs : allocproc(c, p, q) \/ kill(c, p, q) \/ wait_reap(c, p, q)
    BY Zenon DEF Step, Fork, Exit, Wait, resume, sched, push_off, exit, sys_wait, fork_copy,
       fork_parent,
         reparent, wait, wait_none, wait_notkilled, wait_next, wait_copyout
  <1> QED
    BY <1>1, <1>3, <1>4, <1>5, <1>6, <1>8, <1>9, <1>10, <1>11, <1>12, <1>13, <1>14, Zenon

\* Only kill() and freeproc() write to killed.
LEMMA KilledBy ==
  ASSUME NEW c \in CPUs, NEW p \in Procs, Step(c, p)
  PROVE  \/ killed' = killed
         \/ fork_fail(c, p) \/ \E q \in Procs : kill(c, p, q) \/ wait_reap(c, p, q)
  BY Zenon DEF Step, Fork, Exit, Wait, dispatch, resume, sched, yield, push_off, allocproc, exit,
     sys_wait,
       fork_copy, fork_parent, fork_run, reparent, exit_wakeinit, exit_wakeparent, exit_zombie,
       wait, wait_none, wait_notkilled, sleep, wait_next, wait_copyout

\* A process starts out unkilled, provided nobody calls kill(0): the pid of
\* a free slot is 0.
THEOREM BornClean == ASSUME 0 \notin KillArgs PROVE Spec => BornUnkilled
  <1>1. Init => Unkilled
    BY Slots DEF Init, Unkilled
  <1>2. IInv /\ Unkilled /\ [Next]_vars => Unkilled'
    <2>1. ASSUME IInv, Unkilled, UNCHANGED vars PROVE Unkilled'
      BY <2>1, Zenon DEF vars, Unkilled
    <2> QED
      BY <2>1, StepUnkilled, Zenon DEF Next
  <1>3. IInv /\ Unkilled /\ [Next]_vars =>
          [\A q \in Procs : state[q] = "UNUSED" /\ state'[q] = "USED" => ~killed'[q]]_vars
    <2> SUFFICES ASSUME IInv, Unkilled, NEW c \in CPUs, NEW p \in Procs, Step(c, p),
    NEW q \in Procs,
                        state[q] = "UNUSED", state'[q] = "USED"
                 PROVE  ~killed'[q]
      BY Zenon DEF Next
    <2>1. ~killed[q]
      BY DEF Unkilled
    <2>2. CASE \E r \in Procs : kill(c, p, r)
      BY <2>2, Zenon DEF kill, IInv, TypeOK
    <2>3. CASE fork_fail(c, p) \/ \E r \in Procs : wait_reap(c, p, r)
      BY <2>1, <2>3, Zenon DEF fork_fail, wait_reap, freeproc, IInv, TypeOK
    <2> QED
      BY <2>1, <2>2, <2>3, KilledBy
  <1> QED
    BY <1>1, <1>2, <1>3, Invariance, PTL DEF Spec, BornUnkilled

=============================================================================
