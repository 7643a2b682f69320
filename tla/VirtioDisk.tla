----------------------------- MODULE VirtioDisk -----------------------------
(***************************************************************************)
(* The disk driver of kernel/virtio_disk.c with the device it talks to.    *)
(* A process has the sleep-lock of the buffer it transfers, so a buffer is *)
(* named by its process.  vdisk_lock is held inside a step, except by the  *)
(* interrupt handler, which goes round its loop, and by a process between  *)
(* its write of the avail ring and of avail->idx: the device takes no lock *)
(* and sees both.  The indices of the rings are 16-bit counters.           *)
(***************************************************************************)
EXTENDS Naturals, FiniteSets

CONSTANTS
    Procs, None,
    NUM,        \* descriptors
    RING,       \* slots of each ring; the code has NUM of them as well
    MOD,        \* 2^16: where the ring indices wrap
    intr        \* the interrupt handler as holder of vdisk_lock

Desc == 0 .. NUM - 1
Slot == 0 .. RING - 1

ASSUME VirtioAssumption ==
    /\ IsFiniteSet(Procs) /\ None \notin Procs \cup Desc /\ intr \notin Procs \cup {None}
    /\ NUM \in Nat /\ NUM >= 3
    /\ RING \in Nat /\ 3 * RING >= NUM
    /\ MOD \in Nat /\ MOD % RING = 0 /\ MOD > RING

VARIABLES
    free,                       \* disk.free, as the set of free descriptors
    next,                       \* desc[i].next; None without VRING_DESC_F_NEXT
    addr,                       \* the buffer desc[i].addr points into, or None
    info,                       \* info[i].b
    status,                     \* info[i].status is 0
    avail, availidx,            \* the avail ring
    used, usedidx,              \* the used ring, written by the device
    used_idx,                   \* disk.used_idx
    disk,                       \* b->disk
    lock,                       \* vdisk_lock
    pc, idx0,                   \* of each process
    seen, inflight, irq,        \* device: avail read up to, chains, interrupt
    moved                       \* device: transfers done for running calls

driver == <<free, next, addr, info, status, avail, availidx, used_idx, disk, lock, pc, idx0>>
device == <<used, usedidx, seen, inflight, irq, moved>>
vars == <<free, next, addr, info, status, avail, availidx, used, usedidx, used_idx,
          disk, lock, pc, idx0, seen, inflight, irq, moved>>

Init ==
    /\ free = Desc
    /\ next = [i \in Desc |-> None] /\ addr = [i \in Desc |-> None]
    /\ info = [i \in Desc |-> None] /\ status = [i \in Desc |-> TRUE]
    /\ avail = [k \in Slot |-> 0] /\ availidx = 0
    /\ used = [k \in Slot |-> 0] /\ usedidx = 0 /\ used_idx = 0
    /\ disk = [p \in Procs |-> FALSE]
    /\ lock = None
    /\ pc = [p \in Procs |-> "idle"] /\ idx0 = [p \in Procs |-> 0]
    /\ seen = 0 /\ inflight = {} /\ irq = FALSE /\ moved = {}

Goto(p, l) == pc' = [pc EXCEPT ![p] = l]

\* Fault: nobody is woken.
wakeupNobody(from, to, who) == pc

\* wakeup(): the sleepers at from go on at to.
wakeup(from, to, who) == [p \in Procs |-> IF pc[p] = from /\ p \in who THEN to ELSE pc[p]]

-----------------------------------------------------------------------------
(* virtio_disk_rw().                                                       *)

virtio_disk_rw(p) ==
    /\ pc[p] = "idle"
    /\ Goto(p, "alloc")
    /\ UNCHANGED <<free, next, addr, info, status, avail, availidx, used_idx, disk, lock, idx0, device>>

\* What three calls of alloc_desc() return: the first three that are free.
alloc3_desc(i, j, k) == i < j /\ j < k /\ \A d \in free : d <= k => d \in {i, j, k}

\* Fault: the third descriptor is not marked as used.
TakenShort(i, j, k) == {i, j}

Taken(i, j, k) == {i, j, k}

rw_submit(p) ==
    /\ pc[p] = "alloc" /\ lock = None
    /\ \E i, j, k \in free :
         /\ alloc3_desc(i, j, k)
         /\ free' = free \ Taken(i, j, k)
         /\ next' = [next EXCEPT ![i] = j, ![j] = k, ![k] = None]
         /\ addr' = [addr EXCEPT ![i] = None, ![j] = p, ![k] = None]
         /\ status' = [status EXCEPT ![i] = FALSE]
         /\ info' = [info EXCEPT ![i] = p]
         /\ avail' = [avail EXCEPT ![availidx % RING] = i]
         /\ idx0' = [idx0 EXCEPT ![p] = i]
    /\ disk' = [disk EXCEPT ![p] = TRUE]
    /\ lock' = p
    /\ Goto(p, "notify")
    /\ UNCHANGED <<availidx, used_idx, device>>

\* The 16-bit increment of a ring index.
PlusOne(k) == (k + 1) % MOD

\* b->disk is still 1 here, so the call goes to sleep on b.
rw_notify(p) ==
    /\ pc[p] = "notify"
    /\ availidx' = PlusOne(availidx)
    /\ lock' = None
    /\ Goto(p, "sleep_b")
    /\ UNCHANGED <<free, next, addr, info, status, avail, used_idx, disk, idx0, device>>

\* alloc3_desc() gives back what it got, and free_desc() calls wakeup().
rw_nodesc(p) ==
    /\ pc[p] = "alloc" /\ lock = None /\ Cardinality(free) < 3
    /\ pc' = [(IF free = {} THEN pc ELSE wakeup("sleep_free", "alloc", Procs))
                EXCEPT ![p] = "sleep_free"]
    /\ UNCHANGED <<free, next, addr, info, status, avail, availidx, used_idx, disk, lock, idx0, device>>

\* Fault: an if in place of the while around sleep(b).
StillBusyIgnored(p) == FALSE

StillBusy(p) == disk[p]

rw_sleep(p) ==
    /\ pc[p] = "woken" /\ lock = None /\ StillBusy(p)
    /\ Goto(p, "sleep_b")
    /\ UNCHANGED <<free, next, addr, info, status, avail, availidx, used_idx, disk, lock, idx0, device>>

\* What free_chain(i) frees.
Chain(i) == {i, next[i], next[next[i]]}

rw_done(p) ==
    /\ pc[p] = "woken" /\ lock = None /\ ~StillBusy(p)
    /\ info' = [info EXCEPT ![idx0[p]] = None]
    /\ free' = free \cup Chain(idx0[p])
    /\ next' = [i \in Desc |-> IF i \in Chain(idx0[p]) THEN None ELSE next[i]]
    /\ addr' = [i \in Desc |-> IF i \in Chain(idx0[p]) THEN None ELSE addr[i]]
    /\ pc' = [wakeup("sleep_free", "alloc", Procs) EXCEPT ![p] = "idle"]
    /\ idx0' = [idx0 EXCEPT ![p] = 0]
    /\ moved' = moved \ {p}
    /\ UNCHANGED <<status, avail, availidx, used_idx, disk, lock, used, usedidx, seen, inflight, irq>>

\* kill() ends a sleep early.
kill(p) ==
    /\ \/ pc[p] = "sleep_b" /\ Goto(p, "woken")
       \/ pc[p] = "sleep_free" /\ Goto(p, "alloc")
    /\ UNCHANGED <<free, next, addr, info, status, avail, availidx, used_idx, disk, lock, idx0, device>>

-----------------------------------------------------------------------------
(* virtio_disk_intr().                                                     *)

intr_ack ==
    /\ irq /\ lock = None
    /\ irq' = FALSE
    /\ lock' = intr
    /\ UNCHANGED <<free, next, addr, info, status, avail, availidx, used, usedidx, used_idx,
                   disk, pc, idx0, seen, inflight, moved>>

intr_entry ==
    /\ lock = intr /\ used_idx # usedidx
    /\ LET b == info[used[used_idx % RING]] IN
         /\ disk' = [disk EXCEPT ![b] = FALSE]
         /\ pc' = wakeup("sleep_b", "woken", {b})
    /\ used_idx' = PlusOne(used_idx)
    /\ UNCHANGED <<free, next, addr, info, status, avail, availidx, lock, idx0, device>>

intr_end ==
    /\ lock = intr /\ used_idx = usedidx
    /\ lock' = None
    /\ UNCHANGED <<free, next, addr, info, status, avail, availidx, used_idx, disk, pc, idx0, device>>

-----------------------------------------------------------------------------
(* The device: it reads the avail ring in order and finishes in any order. *)

dev_fetch ==
    /\ seen # availidx
    /\ inflight' = inflight \cup {avail[seen % RING]}
    /\ seen' = PlusOne(seen)
    /\ UNCHANGED <<driver, used, usedidx, irq, moved>>

dev_finish(i) ==
    /\ i \in inflight
    /\ inflight' = inflight \ {i}
    /\ moved' = moved \cup ({addr[next[i]]} \cap Procs)
    /\ status' = [status EXCEPT ![i] = TRUE]
    /\ used' = [used EXCEPT ![usedidx % RING] = i]
    /\ usedidx' = PlusOne(usedidx)
    /\ irq' = TRUE
    /\ UNCHANGED <<free, next, addr, info, avail, availidx, used_idx, disk, lock, pc, idx0, seen>>

-----------------------------------------------------------------------------

Rw(p) == rw_submit(p) \/ rw_notify(p) \/ rw_nodesc(p) \/ rw_sleep(p) \/ rw_done(p)
Intr == intr_ack \/ intr_entry \/ intr_end
Device == dev_fetch \/ \E i \in Desc : dev_finish(i)

Next == (\E p \in Procs : virtio_disk_rw(p) \/ Rw(p) \/ kill(p)) \/ Intr \/ Device

Spec == Init /\ [][Next]_vars

-----------------------------------------------------------------------------
(* Properties.                                                             *)

Submitted == {p \in Procs : pc[p] \in {"notify", "sleep_b", "woken"}}

\* The descriptors of a request belong to it alone until the call returns:
\* neither a free one nor one of another request is among them, so that the
\* device follows the chain the driver built and free_desc() does not panic.
OwnDescriptors ==
    /\ \A p \in Submitted :
         /\ next[idx0[p]] # None /\ next[next[idx0[p]]] # None
         /\ Cardinality(Chain(idx0[p])) = 3 /\ Chain(idx0[p]) \cap free = {}
         /\ addr[next[idx0[p]]] = p
    /\ \A p, q \in Submitted : p # q => Chain(idx0[p]) \cap Chain(idx0[q]) = {}
    /\ free \cup UNION {Chain(idx0[p]) : p \in Submitted} = Desc

\* How far the call of each process has come.
Request == [p \in Procs |-> IF pc[p] = "idle" THEN "none"
                            ELSE IF p \in moved THEN "moved" ELSE "asked"]

Service == INSTANCE DiskService WITH request <- Request

\* The transfer of every call is done exactly once, and before it returns.
OnceEach == Service!Spec

\* No completion and no wakeup is lost.  A completion the handler has not
\* seen is announced by an interrupt or met by the handler that runs, and a
\* process sleeps on its buffer only while a completion is still to come:
\* acknowledging first may give an interrupt with nothing to do, never too few.
\* A process sleeps for descriptors only while the requests of others hold
\* them: one that gives back the one or two it found wakes those before it, and
\* nobody goes to sleep next to three free descriptors.
NoLostWakeup ==
    /\ used_idx # usedidx => irq \/ lock = intr
    /\ \A p \in Procs : pc[p] = "sleep_b" => disk[p]
    /\ \A p \in Procs : pc[p] = "sleep_free" => Cardinality(free) < 3 /\ Submitted # {}

=============================================================================
