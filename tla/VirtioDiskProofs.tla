-------------------------- MODULE VirtioDiskProofs --------------------------
(* The disk driver of VirtioDisk.tla: the descriptors of a request belong  *)
(* to it alone, no completion and no wakeup is lost, and every transfer is *)
(* done once before its call returns, for any number of processes and      *)
(* descriptors and any width of the ring indices.                          *)
EXTENDS VirtioDisk, RingTheorems, FiniteSetTheorems, TLAPS

\* The entries between two indices of a ring, counted from the older one.
Length(x, y) == (y - x) % MOD
Entry(ring, x, k) == ring[(x + k) % RING]
Entries(ring, x, y) == {Entry(ring, x, k) : k \in 0 .. Length(x, y) - 1}
Distinct(ring, x, y) == \A j, k \in 0 .. Length(x, y) - 1 :
    Entry(ring, x, j) = Entry(ring, x, k) => j = k

\* What the device has still to read, and the handler.
Queued == Entries(avail, seen, availidx)
Answered == Entries(used, used_idx, usedidx)

Index == 0 .. MOD - 1
PCs == {"idle", "alloc", "notify", "sleep_b", "woken", "sleep_free"}

TypeOK ==
    /\ free \subseteq Desc /\ inflight \subseteq Desc /\ moved \subseteq Procs
    /\ next \in [Desc -> Desc \cup {None}]
    /\ addr \in [Desc -> Procs \cup {None}] /\ info \in [Desc -> Procs \cup {None}]
    /\ status \in [Desc -> BOOLEAN]
    /\ avail \in [Slot -> Desc] /\ used \in [Slot -> Desc]
    /\ availidx \in Index /\ seen \in Index /\ usedidx \in Index /\ used_idx \in Index
    /\ disk \in [Procs -> BOOLEAN] /\ irq \in BOOLEAN
    /\ lock \in Procs \cup {None, intr}
    /\ pc \in [Procs -> PCs]
    /\ idx0 \in [Procs -> Desc]

\* The chain of a submitted request, its three descriptors told apart.
Second(p) == next[idx0[p]]
Third(p) == next[next[idx0[p]]]

Chained == \A p \in Submitted :
    /\ Second(p) \in Desc \ {idx0[p]} /\ Third(p) \in Desc \ {idx0[p], Second(p)}
    /\ Chain(idx0[p]) \cap free = {}
    /\ addr[Second(p)] = p /\ info[idx0[p]] = p

Apart == \A p, q \in Submitted : p # q => Chain(idx0[p]) \cap Chain(idx0[q]) = {}

Covered == \A i \in Desc \ free : \E p \in Submitted : i \in Chain(idx0[p])

\* Three descriptors for each request and no other are taken.
Counted == Cardinality(free) + 3 * Cardinality(Submitted) = NUM

\* Who is between the two writes to the avail ring has the lock, and has
\* written behind the entries that the device has not read.
Notifies == \A p \in Procs :
    /\ pc[p] = "notify" <=> lock = p
    /\ pc[p] = "notify" => disk[p] /\ avail[availidx % RING] = idx0[p]
                             /\ Length(seen, availidx) < RING

\* The rings hold every request once.
Rings ==
    /\ Distinct(avail, seen, availidx) /\ Distinct(used, used_idx, usedidx)
    /\ Length(seen, availidx) <= RING /\ Length(used_idx, usedidx) <= RING
    /\ Queued \cap inflight = {} /\ Queued \cap Answered = {} /\ inflight \cap Answered = {}

\* A request is waited for while it is in one of the rings or in the device.
Underway(p) == p \in Submitted /\ pc[p] # "notify" /\ disk[p]
Tracked ==
    /\ \A h \in Queued \cup inflight \cup Answered : \E p \in Procs : Underway(p) /\ idx0[p] = h
    /\ \A p \in Procs : Underway(p) => idx0[p] \in Queued \cup inflight \cup Answered

\* The device has moved the data of those requests that it has answered.
Moved == \A p \in Procs :
    p \in moved <=> p \in Submitted /\ (idx0[p] \in Answered \/ ~disk[p])

Waits ==
    /\ used_idx # usedidx => irq \/ lock = intr
    /\ \A p \in Procs : pc[p] = "sleep_b" => disk[p]
    /\ \A p \in Procs : pc[p] = "sleep_free" => Cardinality(free) < 3

IInv == /\ TypeOK /\ Chained /\ Apart /\ Covered /\ Counted /\ Notifies
        /\ Rings /\ Tracked /\ Moved /\ Waits

-----------------------------------------------------------------------------
(* Indices that wrap, and the slots they name.                             *)

\* The sizes of the driver: the rings are not empty and smaller than the range
\* of their indices, and the chains of all requests fit into them.
LEMMA Sizes ==
  /\ RING \in Nat \ {0} /\ MOD \in Nat \ {0} /\ RING < MOD
  /\ NUM \in Nat /\ NUM >= 3 /\ NUM <= 3 * RING
  BY VirtioAssumption

\* A value less than once round too low or too high wraps.
LEMMA ModIndex ==
  ASSUME NEW x \in -MOD .. 2 * MOD - 1
  PROVE  x % MOD = IF x < 0 THEN x + MOD ELSE IF x < MOD THEN x ELSE x - MOD
  BY ModWraps, Sizes, Zenon

\* The 16-bit difference of two indices, and the increment of one.
LEMMA Wraps ==
  ASSUME NEW x \in Index, NEW y \in Index
  PROVE  /\ Length(x, y) = IF y >= x THEN y - x ELSE y - x + MOD
         /\ PlusOne(x) = IF x = MOD - 1 THEN 0 ELSE x + 1
         /\ PlusOne(x) \in Index /\ Length(x, y) \in 0 .. MOD - 1
  <1> USE Sizes DEF Index
  <1>1. y - x \in -MOD .. 2 * MOD - 1 /\ x + 1 \in -MOD .. 2 * MOD - 1
    OBVIOUS
  <1>2. Length(x, y) = IF y >= x THEN y - x ELSE y - x + MOD
    BY <1>1, ModIndex DEF Length
  <1>3. PlusOne(x) = IF x = MOD - 1 THEN 0 ELSE x + 1
    BY <1>1, ModIndex DEF PlusOne
  <1> QED
    BY <1>2, <1>3

\* The slots of a ring do not move when an index wraps.
LEMMA SlotPeriod ==
  ASSUME NEW x \in Int
  PROVE  (x + MOD) % RING = x % RING
  <1>1. MOD % RING = 0
    BY VirtioAssumption, Zenon
  <1> QED
    BY <1>1, Period, Sizes, Zenon

\* Fewer than RING entries further on there is another slot.
LEMMA SlotsApart ==
  ASSUME NEW x \in Int, NEW d \in 1 .. RING - 1
  PROVE  (x + d) % RING # x % RING
  BY OtherSlot, Sizes, Zenon

\* The slot of the next entry follows those of the entries.
LEMMA NextSlot ==
  ASSUME NEW x \in Index, NEW y \in Index
  PROVE  (x + Length(x, y)) % RING = y % RING
  <1>1. CASE y >= x
    <2>1. x + Length(x, y) = y
      BY <1>1, Wraps, Sizes DEF Index
    <2> QED
      BY <2>1, Zenon
  <1>2. CASE y < x
    <2>1. x + Length(x, y) = y + MOD
      BY <1>2, Wraps, Sizes DEF Index
    <2> QED
      BY <2>1, SlotPeriod DEF Index
  <1> QED
    BY <1>1, <1>2, Sizes DEF Index

\* One index further the same slots are counted from one less.
LEMMA ShiftedSlot ==
  ASSUME NEW x \in Index, NEW k \in Nat
  PROVE  (PlusOne(x) + k) % RING = (x + (k + 1)) % RING
  <1>1. CASE x = MOD - 1
    <2>1. PlusOne(x) + k = k /\ x + (k + 1) = k + MOD
      BY <1>1, Wraps, Sizes
    <2> QED
      BY <2>1, SlotPeriod
  <1>2. CASE x # MOD - 1
    <2>1. PlusOne(x) + k = x + (k + 1)
      BY <1>2, Wraps, Sizes DEF Index
    <2> QED
      BY <2>1, Zenon
  <1> QED
    BY <1>1, <1>2, Zenon

-----------------------------------------------------------------------------
(* What a step on a ring does to its entries.                              *)

\* A write at the newer index touches no entry of a ring that is not full.
LEMMA WriteBehind ==
  ASSUME NEW ring, NEW new, NEW x \in Index, NEW y \in Index, Length(x, y) < RING,
         \A s \in Slot \ {y % RING} : new[s] = ring[s],
         NEW k \in 0 .. Length(x, y) - 1
  PROVE  Entry(new, x, k) = Entry(ring, x, k)
  <1>1. Length(x, y) \in Nat /\ x \in Int /\ x + k \in Int
    BY Wraps DEF Index
  <1>2. (x + k) % RING # y % RING
    <2>1. Length(x, y) - k \in 1 .. RING - 1
      BY <1>1, Sizes
    <2>2. ((x + k) + (Length(x, y) - k)) % RING # (x + k) % RING
      BY <1>1, <2>1, SlotsApart, Zenon
    <2>3. (x + k) + (Length(x, y) - k) = x + Length(x, y)
      BY <1>1
    <2> QED
      BY <2>2, <2>3, NextSlot, Zenon
  <1>3. (x + k) % RING \in Slot /\ y % RING \in Slot
    BY <1>1, Sizes DEF Slot, Index
  <1> QED
    BY <1>2, <1>3, Zenon DEF Entry

\* So the entries are what they were.
LEMMA WriteKeeps ==
  ASSUME NEW ring, NEW new, NEW x \in Index, NEW y \in Index, Length(x, y) < RING,
         \A s \in Slot \ {y % RING} : new[s] = ring[s]
  PROVE  /\ Entries(new, x, y) = Entries(ring, x, y)
         /\ Distinct(ring, x, y) => Distinct(new, x, y)
  <1>1. \A k \in 0 .. Length(x, y) - 1 : Entry(new, x, k) = Entry(ring, x, k)
    BY WriteBehind
  <1>2. Entries(new, x, y) = Entries(ring, x, y)
    BY <1>1, Zenon DEF Entries
  <1>3. Distinct(ring, x, y) => Distinct(new, x, y)
    BY <1>1, Zenon DEF Distinct
  <1> QED
    BY <1>2, <1>3, Zenon

\* The increment of the newer index adds the entry behind the others.
LEMMA Advance ==
  ASSUME NEW ring \in [Slot -> Desc], NEW x \in Index, NEW y \in Index,
         Length(x, y) < RING, Distinct(ring, x, y), ring[y % RING] \notin Entries(ring, x, y)
  PROVE  /\ Length(x, PlusOne(y)) = Length(x, y) + 1
         /\ Entries(ring, x, PlusOne(y)) = Entries(ring, x, y) \cup {ring[y % RING]}
         /\ Distinct(ring, x, PlusOne(y))
  <1> DEFINE n == Length(x, y)
  <1>1. Length(x, PlusOne(y)) = n + 1 /\ n \in Nat
    <2>1. Length(x, y) = IF y >= x THEN y - x ELSE y - x + MOD
      BY Wraps, Zenon
    <2>2. PlusOne(y) = (IF y = MOD - 1 THEN 0 ELSE y + 1) /\ PlusOne(y) \in Index
      BY Wraps, Zenon
    <2>3. Length(x, PlusOne(y)) = IF PlusOne(y) >= x THEN PlusOne(y) - x ELSE PlusOne(y) - x + MOD
      BY <2>2, Wraps, Zenon
    <2> QED
      BY <2>1, <2>2, <2>3, Sizes DEF Index
  <1>2. Entry(ring, x, n) = ring[y % RING]
    BY NextSlot, Zenon DEF Entry
  <1>3. \A k \in 0 .. n : k \in 0 .. n - 1 \/ k = n
    BY <1>1
  <1>4. \A k \in 0 .. n - 1 : k \in 0 .. n /\ Entry(ring, x, k) \in Entries(ring, x, y)
    BY <1>1 DEF Entries
  <1>5. n \in 0 .. n /\ (n + 1) - 1 = n
    BY <1>1
  <1> HIDE DEF n
  <1>6. Entries(ring, x, PlusOne(y)) = {Entry(ring, x, k) : k \in 0 .. n}
    BY <1>1, <1>5, Zenon DEF Entries
  <1>7. Entries(ring, x, y) = {Entry(ring, x, k) : k \in 0 .. n - 1}
    BY Zenon DEF Entries, n
  <1>8. Entries(ring, x, PlusOne(y)) = Entries(ring, x, y) \cup {ring[y % RING]}
    BY <1>2, <1>3, <1>4, <1>5, <1>6, <1>7, Zenon
  <1>9. \A j, k \in 0 .. n - 1 : Entry(ring, x, j) = Entry(ring, x, k) => j = k
    BY Zenon DEF Distinct, n
  <1>10. \A j, k \in 0 .. n : Entry(ring, x, j) = Entry(ring, x, k) => j = k
    BY <1>2, <1>3, <1>4, <1>9
  <1>11. Distinct(ring, x, PlusOne(y))
    BY <1>1, <1>5, <1>10, Zenon DEF Distinct
  <1> QED
    BY <1>1, <1>8, <1>11, Zenon DEF n

\* The increment of the older index takes the first entry off.
LEMMA Retire ==
  ASSUME NEW ring \in [Slot -> Desc], NEW x \in Index, NEW y \in Index, x # y,
         Distinct(ring, x, y)
  PROVE  /\ Length(PlusOne(x), y) = Length(x, y) - 1
         /\ Entries(ring, PlusOne(x), y) = Entries(ring, x, y) \ {ring[x % RING]}
         /\ ring[x % RING] \in Entries(ring, x, y)
         /\ Distinct(ring, PlusOne(x), y)
  <1> DEFINE n == Length(x, y)
  <1>1. Length(PlusOne(x), y) = n - 1 /\ n \in Nat \ {0}
    <2>1. Length(x, y) = IF y >= x THEN y - x ELSE y - x + MOD
      BY Wraps, Zenon
    <2>2. PlusOne(x) = (IF x = MOD - 1 THEN 0 ELSE x + 1) /\ PlusOne(x) \in Index
      BY Wraps, Zenon
    <2>3. Length(PlusOne(x), y) = IF y >= PlusOne(x) THEN y - PlusOne(x) ELSE y - PlusOne(x) + MOD
      BY <2>2, Wraps, Zenon
    <2> QED
      BY <2>1, <2>2, <2>3, Sizes DEF Index
  <1>2. Entry(ring, x, 0) = ring[x % RING]
    <2>1. x + 0 = x
      BY DEF Index
    <2> QED
      BY <2>1, Zenon DEF Entry
  <1>3. \A k \in 0 .. n - 2 : Entry(ring, PlusOne(x), k) = Entry(ring, x, k + 1)
    BY <1>1, ShiftedSlot DEF Entry
  <1>4. /\ (n - 1) - 1 = n - 2 /\ 0 \in 0 .. n - 1
        /\ \A k \in 0 .. n - 2 : k + 1 \in 0 .. n - 1 /\ k + 1 # 0
    BY <1>1
  <1>5. \A k \in 0 .. n - 1 : k = 0 \/ (k - 1 \in 0 .. n - 2 /\ (k - 1) + 1 = k)
    BY <1>1
  <1>6. \A j, k \in 0 .. n - 2 : j + 1 = k + 1 => j = k
    BY <1>1
  <1>7. \A j, k \in 0 .. n - 1 : Entry(ring, x, j) = Entry(ring, x, k) => j = k
    BY Zenon DEF Distinct
  <1>8. Entries(ring, x, y) = {Entry(ring, x, k) : k \in 0 .. n - 1}
    BY Zenon DEF Entries
  <1> HIDE DEF n
  <1>9. Entries(ring, PlusOne(x), y) = {Entry(ring, PlusOne(x), k) : k \in 0 .. n - 2}
    BY <1>1, <1>4, Zenon DEF Entries
  <1>10. Entry(ring, x, 0) \in Entries(ring, x, y)
    BY <1>4, <1>8, Zenon
  <1>11. ASSUME NEW h \in Entries(ring, PlusOne(x), y)
         PROVE  h \in Entries(ring, x, y) /\ h # Entry(ring, x, 0)
    <2>1. PICK k \in 0 .. n - 2 : h = Entry(ring, PlusOne(x), k)
      BY <1>9, Zenon
    <2>2. h = Entry(ring, x, k + 1) /\ k + 1 \in 0 .. n - 1 /\ k + 1 # 0
      BY <1>3, <1>4, <2>1, Zenon
    <2> QED
      BY <1>4, <1>7, <1>8, <2>2, Zenon
  <1>12. ASSUME NEW h \in Entries(ring, x, y), h # Entry(ring, x, 0)
         PROVE  h \in Entries(ring, PlusOne(x), y)
    <2>1. PICK k \in 0 .. n - 1 : h = Entry(ring, x, k)
      BY <1>8, Zenon
    <2>2. k - 1 \in 0 .. n - 2 /\ (k - 1) + 1 = k
      BY <1>5, <1>12, <2>1, Zenon
    <2>3. h = Entry(ring, PlusOne(x), k - 1)
      BY <1>3, <2>1, <2>2, Zenon
    <2> QED
      BY <1>9, <2>2, <2>3, Zenon
  <1>13. Distinct(ring, PlusOne(x), y)
    <2>1. \A j, k \in 0 .. n - 2 : Entry(ring, PlusOne(x), j) = Entry(ring, PlusOne(x), k) => j = k
      BY <1>3, <1>4, <1>6, <1>7, Zenon
    <2> QED
      BY <1>1, <1>4, <2>1, Zenon DEF Distinct
  <1> QED
    BY <1>1, <1>2, <1>10, <1>11, <1>12, <1>13, Zenon DEF n

\* A ring whose entries are different has no more of them than there are values.
LEMMA RingBound ==
  ASSUME NEW ring, NEW x \in Index, NEW y \in Index, NEW S, IsFiniteSet(S),
         Distinct(ring, x, y), Entries(ring, x, y) \subseteq S
  PROVE  Length(x, y) <= Cardinality(S)
  <1> DEFINE n == Length(x, y)
             f == [k \in 0 .. n - 1 |-> Entry(ring, x, k)]
  <1>1. n \in Nat
    BY Wraps, Sizes
  <1>2. f \in [0 .. n - 1 -> S]
    BY Zenon DEF Entries
  <1>3. \A j, k \in 0 .. n - 1 : f[j] = f[k] => j = k
    BY Zenon DEF Distinct
  <1> HIDE DEF n, f
  <1>4. f \in Injection(0 .. n - 1, S)
    BY <1>2, <1>3, Zenon DEF Injection, IsInjective
  <1>5. Cardinality(0 .. n - 1) <= Cardinality(S)
    BY <1>4, FS_Injection, Zenon
  <1>6. Cardinality(0 .. n - 1) = n
    <2>1. n - 1 \in Int /\ 0 \in Int
      BY <1>1
    <2> QED
      BY <1>1, <2>1, FS_Interval
  <1> QED
    BY <1>5, <1>6, Zenon DEF n

-----------------------------------------------------------------------------
(* The steps of the driver.                                               *)

\* The invariant holds after virtio_disk_init().
LEMMA InitInv == Init => IInv
  <1> SUFFICES ASSUME Init PROVE IInv
    BY Zenon
  <1> USE Sizes, VirtioAssumption DEF Init
  <1>1. TypeOK
    <2>1. 0 \in Desc /\ 0 \in Index
      BY DEF Desc, Index
    <2>2. disk \in [Procs -> BOOLEAN] /\ status \in [Desc -> BOOLEAN] /\ irq \in BOOLEAN
      BY Zenon
    <2> QED
      BY <2>1, <2>2, Zenon DEF TypeOK, PCs
  <1>2. Submitted = {}
    BY Zenon DEF Submitted
  <1>3. Length(0, 0) = 0
    BY Wraps DEF Index
  <1>4. Queued = {} /\ Answered = {}
    BY <1>3 DEF Queued, Answered, Entries
  <1>5. Counted
    <2>1. Cardinality(Desc) = NUM
      BY FS_Interval DEF Desc
    <2>2. Cardinality(Submitted) = 0
      BY <1>2, FS_EmptySet, Zenon
    <2> QED
      BY <2>1, <2>2 DEF Counted
  <1>6. Chained /\ Apart /\ Covered
    BY <1>2, Zenon DEF Chained, Apart, Covered
  <1>7. Rings
    BY <1>3, <1>4 DEF Rings, Distinct
  <1>8. Tracked /\ Moved
    BY <1>2, <1>4, Zenon DEF Tracked, Moved, Underway
  <1>9. Notifies /\ Waits
    <2>1. \A p \in Procs : pc[p] = "idle" /\ lock # p
      BY Zenon
    <2> QED
      BY <2>1, Zenon DEF Notifies, Waits
  <1> QED
    BY <1>1, <1>5, <1>6, <1>7, <1>8, <1>9, Zenon DEF IInv

\* Every step of the driver and of the device keeps the types.
LEMMA NextType ==
  ASSUME IInv, [Next]_vars
  PROVE  TypeOK'
  <1> USE VirtioAssumption, Sizes DEF TypeOK, driver, device, Goto, wakeup
  <1>0. TypeOK /\ Chained
    BY Zenon DEF IInv
  <1>1. ASSUME NEW k \in Index PROVE PlusOne(k) \in Index /\ k % RING \in Slot
    <2>1. PlusOne(k) \in Index
      BY Wraps, Zenon
    <2>2. k % RING \in Slot
      BY DEF Index, Slot
    <2> QED
      BY <2>1, <2>2, Zenon
  <1>p. {"idle", "alloc", "notify", "sleep_b", "woken", "sleep_free"} \subseteq PCs
    BY Zenon DEF PCs
  <1>2. ASSUME NEW p \in Procs, virtio_disk_rw(p) PROVE TypeOK'
    BY <1>0, <1>2, <1>p, Zenon DEF virtio_disk_rw
  <1>3. ASSUME NEW p \in Procs, rw_submit(p) PROVE TypeOK'
    <2>1. PICK i, j, k \in free :
            /\ free' = free \ Taken(i, j, k)
            /\ next' = [next EXCEPT ![i] = j, ![j] = k, ![k] = None]
            /\ addr' = [addr EXCEPT ![i] = None, ![j] = p, ![k] = None]
            /\ status' = [status EXCEPT ![i] = FALSE]
            /\ info' = [info EXCEPT ![i] = p]
            /\ avail' = [avail EXCEPT ![availidx % RING] = i]
            /\ idx0' = [idx0 EXCEPT ![p] = i]
      BY <1>3, Zenon DEF rw_submit
    <2>2. i \in Desc /\ j \in Desc /\ k \in Desc
      BY <1>0, <2>1, Zenon
    <2>3. next' \in [Desc -> Desc \cup {None}] /\ addr' \in [Desc -> Procs \cup {None}]
      BY <1>0, <2>1, <2>2, Zenon
    <2>4. info' \in [Desc -> Procs \cup {None}] /\ idx0' \in [Procs -> Desc]
      BY <1>0, <2>1, <2>2, Zenon
    <2>5. avail' \in [Slot -> Desc] /\ free' \subseteq Desc
      BY <1>0, <1>1, <2>1, <2>2, Zenon
    <2>6. status' \in [Desc -> BOOLEAN] /\ disk' \in [Procs -> BOOLEAN]
      BY <1>0, <1>3, <2>1, <2>2, Zenon DEF rw_submit
    <2>7. pc' \in [Procs -> PCs] /\ lock' \in Procs \cup {None, intr}
      BY <1>0, <1>3, <1>p, Zenon DEF rw_submit
    <2> QED
      BY <1>0, <1>3, <2>3, <2>4, <2>5, <2>6, <2>7, Zenon DEF rw_submit
  <1>4. ASSUME NEW p \in Procs, rw_notify(p) PROVE TypeOK'
    BY <1>0, <1>1, <1>4, <1>p, Zenon DEF rw_notify
  <1>5. ASSUME NEW p \in Procs, rw_nodesc(p) PROVE TypeOK'
    <2>1. pc' \in [Procs -> PCs]
      BY <1>0, <1>5, <1>p, Zenon DEF rw_nodesc
    <2> QED
      BY <1>0, <1>5, <2>1, Zenon DEF rw_nodesc
  <1>6. ASSUME NEW p \in Procs, rw_sleep(p) PROVE TypeOK'
    BY <1>0, <1>6, <1>p, Zenon DEF rw_sleep
  <1>7. ASSUME NEW p \in Procs, rw_done(p) PROVE TypeOK'
    <2>1. Chain(idx0[p]) \subseteq Desc
      <3>1. p \in Submitted
        BY <1>7, Zenon DEF rw_done, Submitted
      <3> QED
        BY <1>0, <3>1 DEF Chained, Second, Third, Chain
    <2>2. 0 \in Desc
      BY DEF Desc
    <2>3. pc' \in [Procs -> PCs]
      BY <1>0, <1>7, <1>p, Zenon DEF rw_done
    <2>4. info' \in [Desc -> Procs \cup {None}] /\ free' \subseteq Desc /\ idx0' \in [Procs -> Desc]
      BY <1>0, <1>7, <2>1, <2>2, Zenon DEF rw_done
    <2>5. next' \in [Desc -> Desc \cup {None}] /\ addr' \in [Desc -> Procs \cup {None}]
      BY <1>0, <1>7, Zenon DEF rw_done
    <2> QED
      BY <1>0, <1>7, <2>3, <2>4, <2>5, Zenon DEF rw_done
  <1>8. ASSUME NEW p \in Procs, kill(p) PROVE TypeOK'
    BY <1>0, <1>8, <1>p DEF kill
  <1>9. CASE Intr
    <2>1. CASE intr_ack
      BY <1>0, <2>1, Zenon DEF intr_ack
    <2>2. CASE intr_end
      BY <1>0, <2>2, Zenon DEF intr_end
    <2>3. CASE intr_entry
      <3>1. disk' \in [Procs -> BOOLEAN] /\ used_idx' \in Index
        BY <1>0, <1>1, <2>3, Zenon DEF intr_entry
      <3>2. pc' \in [Procs -> PCs]
        BY <1>0, <2>3, <1>p, Zenon DEF intr_entry
      <3> QED
        BY <1>0, <2>3, <3>1, <3>2, Zenon DEF intr_entry
    <2> QED
      BY <1>9, <2>1, <2>2, <2>3, Zenon DEF Intr
  <1>10. CASE dev_fetch
    <2>1. avail[seen % RING] \in Desc
      BY <1>0, <1>1, Zenon
    <2> QED
      BY <1>0, <1>1, <1>10, <2>1, Zenon DEF dev_fetch
  <1>11. ASSUME NEW i \in Desc, dev_finish(i) PROVE TypeOK'
    <2>1. used' \in [Slot -> Desc] /\ usedidx' \in Index /\ status' \in [Desc -> BOOLEAN]
      BY <1>0, <1>1, <1>11, Zenon DEF dev_finish
    <2> QED
      BY <1>0, <1>11, <2>1, Zenon DEF dev_finish
  <1>12. CASE UNCHANGED vars
    BY <1>0, <1>12 DEF vars
  <1> QED
    BY <1>2, <1>3, <1>4, <1>5, <1>6, <1>7, <1>8, <1>9, <1>10, <1>11, <1>12, Zenon
       DEF Next, Rw, Device

\* There are finitely many requests and free descriptors.
LEMMA Finite ==
  ASSUME TypeOK
  PROVE  /\ IsFiniteSet(Submitted) /\ Cardinality(Submitted) \in Nat
         /\ IsFiniteSet(free) /\ Cardinality(free) \in Nat
  <1>1. IsFiniteSet(Procs) /\ Submitted \subseteq Procs
    BY VirtioAssumption, Zenon DEF Submitted
  <1>2. IsFiniteSet(Desc) /\ free \subseteq Desc
    BY FS_Interval, Sizes DEF Desc, TypeOK
  <1> QED
    BY <1>1, <1>2, FS_Subset, FS_CardinalityType, Zenon

\* A step that changes only who sleeps, who has the lock and the interrupt.
LEMMA Quiet ==
  ASSUME IInv, UNCHANGED <<free, next, addr, info, avail, availidx, used, usedidx, used_idx,
                           disk, idx0, seen, inflight, moved>>,
         \A q \in Procs :
           /\ pc'[q] \in {"notify", "sleep_b", "woken"} <=> pc[q] \in {"notify", "sleep_b", "woken"}
           /\ pc'[q] = "notify" <=> pc[q] = "notify"
           /\ lock' = q <=> lock = q
  PROVE  (Chained /\ Apart /\ Covered /\ Counted /\ Notifies /\ Rings /\ Tracked /\ Moved)'
  <1>1. Submitted' = Submitted
    BY Zenon DEF Submitted
  <1>2. Queued' = Queued /\ Answered' = Answered
    BY Zenon DEF Queued, Answered
  <1>3. (Chained /\ Apart /\ Covered /\ Counted)'
    BY <1>1, Zenon DEF IInv, Chained, Apart, Covered, Counted, Chain, Second, Third
  <1>4. Notifies' /\ Rings'
    BY <1>2, Zenon DEF IInv, Notifies, Rings
  <1>5. \A q \in Procs : Underway(q)' <=> Underway(q)
    BY <1>1, Zenon DEF Underway
  <1>6. Tracked' /\ Moved'
    BY <1>1, <1>2, <1>5, Zenon DEF IInv, Tracked, Moved
  <1> QED
    BY <1>3, <1>4, <1>6, Zenon

\* The chain of another request stays as it is when its descriptors do.
LEMMA ChainKept ==
  ASSUME Chained, NEW q \in Submitted, idx0'[q] = idx0[q],
         next'[idx0[q]] = next[idx0[q]], next'[Second(q)] = next[Second(q)]
  PROVE  /\ Chain(idx0[q])' = Chain(idx0[q]) /\ Second(q)' = Second(q) /\ Third(q)' = Third(q)
         /\ Chain(idx0[q]) = {idx0[q], Second(q), Third(q)}
  BY Zenon DEF Chained, Chain, Second, Third

\* virtio_disk_rw() takes three free descriptors for its request.
LEMMA SubmitChains ==
  ASSUME IInv, NEW p \in Procs, rw_submit(p), TypeOK'
  PROVE  /\ Submitted' = Submitted \cup {p} /\ p \notin Submitted
         /\ \A q \in Submitted : idx0'[q] = idx0[q]
         /\ idx0'[p] \in free /\ idx0'[p] = avail'[availidx % RING]
         /\ (Chained /\ Apart /\ Covered /\ Counted)'
  <1> USE DEF TypeOK
  <1>0. TypeOK /\ Chained /\ Apart /\ Covered /\ Counted
    BY Zenon DEF IInv
  <1>1. PICK i, j, k \in free :
          /\ alloc3_desc(i, j, k)
          /\ free' = free \ Taken(i, j, k)
          /\ next' = [next EXCEPT ![i] = j, ![j] = k, ![k] = None]
          /\ addr' = [addr EXCEPT ![i] = None, ![j] = p, ![k] = None]
          /\ info' = [info EXCEPT ![i] = p]
          /\ avail' = [avail EXCEPT ![availidx % RING] = i]
          /\ idx0' = [idx0 EXCEPT ![p] = i]
    BY Zenon DEF rw_submit
  <1>2. i \in Desc /\ j \in Desc /\ k \in Desc /\ i # j /\ j # k /\ i # k
    BY <1>0, <1>1 DEF alloc3_desc, Desc
  <1>3. pc[p] = "alloc" /\ pc' = [pc EXCEPT ![p] = "notify"]
    BY Zenon DEF rw_submit, Goto
  <1>4. Submitted' = Submitted \cup {p} /\ p \notin Submitted
    BY <1>0, <1>3 DEF Submitted
  <1>5. \A q \in Submitted : idx0'[q] = idx0[q] /\ q \in Procs
    BY <1>0, <1>1, <1>4 DEF Submitted
  <1>6. availidx % RING \in Slot
    BY <1>0, Sizes DEF Index, Slot
  <1>7. idx0'[p] = i /\ avail'[availidx % RING] = i
    BY <1>0, <1>1, <1>6, Zenon
  <1>8. /\ next'[i] = j /\ next'[j] = k /\ addr'[j] = p /\ info'[i] = p
        /\ \A d \in Desc \ {i, j, k} :
             next'[d] = next[d] /\ addr'[d] = addr[d] /\ info'[d] = info[d]
    BY <1>0, <1>1, <1>2
  <1>9. ASSUME NEW q \in Submitted
        PROVE  /\ Chain(idx0[q])' = Chain(idx0[q]) /\ Second(q)' = Second(q) /\ Third(q)' = Third(q)
               /\ Chain(idx0[q]) = {idx0[q], Second(q), Third(q)}
               /\ Chain(idx0[q]) \subseteq Desc \ {i, j, k}
    <2>1. idx0[q] \in Desc \ free /\ Second(q) \in Desc \ free /\ Third(q) \in Desc \ free
      BY <1>0, <1>5, Zenon DEF Chained, Chain, Second, Third
    <2>2. next'[idx0[q]] = next[idx0[q]] /\ next'[Second(q)] = next[Second(q)]
      BY <1>1, <1>8, <2>1
    <2>3. /\ Chain(idx0[q])' = Chain(idx0[q]) /\ Second(q)' = Second(q) /\ Third(q)' = Third(q)
          /\ Chain(idx0[q]) = {idx0[q], Second(q), Third(q)}
      BY <1>0, <1>5, <2>2, ChainKept, Zenon
    <2> QED
      BY <1>1, <2>1, <2>3
  <1>10. Second(p)' = j /\ Third(p)' = k /\ Chain(idx0[p])' = {i, j, k}
    BY <1>7, <1>8, Zenon DEF Second, Third, Chain
  <1>11. Chained'
    <2>1. ASSUME NEW q \in Submitted
          PROVE  /\ Second(q)' \in Desc \ {idx0'[q]} /\ Third(q)' \in Desc \ {idx0'[q], Second(q)'}
                 /\ Chain(idx0[q])' \cap free' = {}
                 /\ addr'[Second(q)'] = q /\ info'[idx0'[q]] = q
      <3>1. /\ Second(q) \in Desc \ {idx0[q]} /\ Third(q) \in Desc \ {idx0[q], Second(q)}
            /\ Chain(idx0[q]) \cap free = {} /\ addr[Second(q)] = q /\ info[idx0[q]] = q
        BY <1>0, Zenon DEF Chained
      <3>2. idx0[q] \in Desc \ {i, j, k} /\ Second(q) \in Desc \ {i, j, k} /\ free' \subseteq free
        BY <1>1, <1>9, Zenon
      <3> QED
        BY <1>5, <1>8, <1>9, <3>1, <3>2
    <2>2. /\ Second(p)' \in Desc \ {idx0'[p]} /\ Third(p)' \in Desc \ {idx0'[p], Second(p)'}
          /\ Chain(idx0[p])' \cap free' = {}
          /\ addr'[Second(p)'] = p /\ info'[idx0'[p]] = p
      BY <1>1, <1>2, <1>7, <1>8, <1>10, Zenon DEF Taken
    <2> QED
      BY <1>4, <2>1, <2>2, Zenon DEF Chained
  <1>12. Apart'
    <2>1. ASSUME NEW q \in Submitted, NEW r \in Submitted, q # r
          PROVE  Chain(idx0[q])' \cap Chain(idx0[r])' = {}
      BY <1>0, <1>9, <2>1, Zenon DEF Apart
    <2>2. ASSUME NEW q \in Submitted
          PROVE  Chain(idx0[q])' \cap Chain(idx0[p])' = {}
      <3>1. Chain(idx0[q])' \subseteq Desc \ {i, j, k}
        BY <1>9, Zenon
      <3>2. Chain(idx0[p])' = {i, j, k}
        BY <1>10, Zenon
      <3> QED
        BY <3>1, <3>2, Zenon
    <2> QED
      BY <1>4, <2>1, <2>2, Zenon DEF Apart
  <1>13. Covered'
    <2>1. ASSUME NEW d \in Desc \ free' PROVE \E q \in Submitted' : d \in Chain(idx0[q])'
      <3>1. CASE d \in {i, j, k}
        BY <1>4, <1>10, <3>1, Zenon
      <3>2. CASE d \notin {i, j, k}
        <4>1. d \notin free
          BY <1>1, <2>1, <3>2, Zenon DEF Taken
        <4>2. PICK q \in Submitted : d \in Chain(idx0[q])
          BY <1>0, <2>1, <4>1, Zenon DEF Covered
        <4> QED
          BY <1>4, <1>9, <4>2
      <3> QED
        BY <3>1, <3>2, Zenon
    <2> QED
      BY <2>1, Zenon DEF Covered
  <1>14. Counted'
    <2>1. free' = ((free \ {i}) \ {j}) \ {k}
      BY <1>1, Zenon DEF Taken
    <2>2. IsFiniteSet(free) /\ IsFiniteSet(Submitted) /\ Cardinality(free) \in Nat
            /\ Cardinality(Submitted) \in Nat
      BY <1>0, Finite, Zenon
    <2>3. IsFiniteSet(free \ {i}) /\ Cardinality(free \ {i}) = Cardinality(free) - 1
      BY <1>1, <2>2, FS_RemoveElement, Zenon
    <2>4. /\ IsFiniteSet((free \ {i}) \ {j})
          /\ Cardinality((free \ {i}) \ {j}) = Cardinality(free) - 2
      <3>1. j \in free \ {i}
        BY <1>1, <1>2, Zenon
      <3>2. Cardinality((free \ {i}) \ {j}) = Cardinality(free \ {i}) - 1
        BY <2>3, <3>1, FS_RemoveElement, Zenon
      <3> QED
        BY <2>2, <2>3, <3>1, <3>2, FS_RemoveElement
    <2>5. Cardinality(free') = Cardinality(free) - 3
      <3> DEFINE F == (free \ {i}) \ {j}
      <3>1. k \in F /\ IsFiniteSet(F)
        BY <1>1, <1>2, <2>4, Zenon
      <3> HIDE DEF F
      <3>2. Cardinality(F \ {k}) = Cardinality(F) - 1
        BY <3>1, FS_RemoveElement, Zenon
      <3> QED
        BY <2>1, <2>2, <2>4, <3>2 DEF F
    <2>6. Cardinality(Submitted') = Cardinality(Submitted) + 1
      BY <1>4, <2>2, FS_AddElement, Zenon
    <2> QED
      BY <1>0, <2>2, <2>5, <2>6, Sizes DEF Counted
  <1> QED
    BY <1>1, <1>4, <1>5, <1>7, <1>11, <1>12, <1>13, <1>14, Zenon

\* virtio_disk_rw() returns its three descriptors.
LEMMA DoneChains ==
  ASSUME IInv, NEW p \in Procs, rw_done(p), TypeOK'
  PROVE  /\ Submitted' = Submitted \ {p} /\ p \in Submitted
         /\ \A q \in Submitted : q # p => idx0'[q] = idx0[q]
         /\ (Chained /\ Apart /\ Covered /\ Counted)'
  <1> USE DEF TypeOK
  <1>0. TypeOK /\ Chained /\ Apart /\ Covered /\ Counted
    BY Zenon DEF IInv
  <1>1. /\ pc[p] = "woken" /\ pc'[p] = "idle"
        /\ \A q \in Procs : q # p => pc'[q] = IF pc[q] = "sleep_free" THEN "alloc" ELSE pc[q]
    BY <1>0, Zenon DEF rw_done, wakeup
  <1>2. Submitted' = Submitted \ {p} /\ p \in Submitted
    BY <1>1, Zenon DEF Submitted
  <1>3. \A q \in Submitted : q \in Procs /\ (q # p => idx0'[q] = idx0[q])
    BY <1>0, Zenon DEF rw_done, Submitted
  <1> DEFINE C == Chain(idx0[p])
  <1>4. /\ C = {idx0[p], Second(p), Third(p)} /\ C \subseteq Desc /\ C \cap free = {}
        /\ Second(p) # idx0[p] /\ Third(p) # idx0[p] /\ Third(p) # Second(p)
    BY <1>0, <1>2 DEF Chained, Chain, Second, Third
  <1>5. /\ free' = free \cup C
        /\ \A d \in Desc \ C : next'[d] = next[d] /\ addr'[d] = addr[d] /\ info'[d] = info[d]
    <2>1. \A d \in Desc \ C : next'[d] = next[d] /\ addr'[d] = addr[d]
      BY Zenon DEF rw_done
    <2>2. idx0[p] \in C
      BY <1>4, Zenon
    <2>3. \A d \in Desc \ C : info'[d] = info[d]
      BY <1>0, <2>2, Zenon DEF rw_done
    <2> QED
      BY <2>1, <2>3, Zenon DEF rw_done
  <1> HIDE DEF C
  <1>6. ASSUME NEW q \in Submitted, q # p
        PROVE  /\ Chain(idx0[q])' = Chain(idx0[q]) /\ Second(q)' = Second(q) /\ Third(q)' = Third(q)
               /\ Chain(idx0[q]) = {idx0[q], Second(q), Third(q)}
               /\ Chain(idx0[q]) \subseteq Desc \ C
    <2>1. Chain(idx0[q]) = {idx0[q], Second(q), Third(q)}
      BY Zenon DEF Chain, Second, Third
    <2>2. Chain(idx0[q]) \subseteq Desc \ C
      <3>1. Chain(idx0[q]) \cap C = {}
        BY <1>0, <1>2, <1>6, Zenon DEF Apart, C
      <3>2. Chain(idx0[q]) \subseteq Desc
        BY <1>0, <1>3, <2>1 DEF Chained
      <3> QED
        BY <3>1, <3>2, Zenon
    <2>3. next'[idx0[q]] = next[idx0[q]] /\ next'[Second(q)] = next[Second(q)]
      BY <1>5, <2>1, <2>2, Zenon
    <2> QED
      BY <1>0, <1>3, <1>6, <2>1, <2>2, <2>3, ChainKept, Zenon
  <1>7. Chained'
    <2>1. ASSUME NEW q \in Submitted, q # p
          PROVE  /\ Second(q)' \in Desc \ {idx0'[q]} /\ Third(q)' \in Desc \ {idx0'[q], Second(q)'}
                 /\ Chain(idx0[q])' \cap free' = {}
                 /\ addr'[Second(q)'] = q /\ info'[idx0'[q]] = q
      <3>1. /\ Second(q) \in Desc \ {idx0[q]} /\ Third(q) \in Desc \ {idx0[q], Second(q)}
            /\ Chain(idx0[q]) \cap free = {} /\ addr[Second(q)] = q /\ info[idx0[q]] = q
        BY <1>0, Zenon DEF Chained
      <3>2. idx0[q] \in Desc \ C /\ Second(q) \in Desc \ C
        BY <1>6, <2>1, Zenon
      <3>3. Chain(idx0[q])' \cap free' = {}
        BY <1>5, <1>6, <2>1, <3>1, Zenon
      <3> QED
        BY <1>3, <1>5, <1>6, <2>1, <3>1, <3>2, <3>3, Zenon
    <2> QED
      BY <1>2, <2>1, Zenon DEF Chained
  <1>8. Apart'
    <2>1. ASSUME NEW q \in Submitted, NEW r \in Submitted, q # r, q # p, r # p
          PROVE  Chain(idx0[q])' \cap Chain(idx0[r])' = {}
      BY <1>0, <1>6, <2>1, Zenon DEF Apart
    <2> QED
      BY <1>2, <2>1, Zenon DEF Apart
  <1>9. Covered'
    <2>1. ASSUME NEW d \in Desc \ free' PROVE \E q \in Submitted' : d \in Chain(idx0[q])'
      <3>1. d \notin free /\ d \notin C
        BY <1>5, <2>1, Zenon
      <3>2. PICK q \in Submitted : d \in Chain(idx0[q])
        BY <1>0, <2>1, <3>1, Zenon DEF Covered
      <3>3. q # p
        BY <3>1, <3>2, Zenon DEF C
      <3> QED
        BY <1>2, <1>6, <3>2, <3>3
    <2> QED
      BY <2>1, Zenon DEF Covered
  <1>10. Counted'
    <2>1. IsFiniteSet(free) /\ IsFiniteSet(Submitted) /\ Cardinality(free) \in Nat
            /\ Cardinality(Submitted) \in Nat
      BY <1>0, Finite, Zenon
    <2>2. PICK i, j, k : C = {i, j, k} /\ i # j /\ j # k /\ i # k
      BY <1>4, Zenon
    <2>3. IsFiniteSet(free \cup {i}) /\ Cardinality(free \cup {i}) = Cardinality(free) + 1
      BY <1>4, <2>1, <2>2, FS_AddElement, Zenon
    <2>4. /\ IsFiniteSet((free \cup {i}) \cup {j})
          /\ Cardinality((free \cup {i}) \cup {j}) = Cardinality(free) + 2
      <3>1. j \notin free \cup {i}
        BY <1>4, <2>2, Zenon
      <3>2. Cardinality((free \cup {i}) \cup {j}) = Cardinality(free \cup {i}) + 1
        BY <2>3, <3>1, FS_AddElement, Zenon
      <3> QED
        BY <2>1, <2>3, <3>1, <3>2, FS_AddElement
    <2>5. Cardinality(free') = Cardinality(free) + 3
      <3>1. k \notin (free \cup {i}) \cup {j} /\ free' = ((free \cup {i}) \cup {j}) \cup {k}
        BY <1>4, <1>5, <2>2, Zenon
      <3>2. Cardinality(free') = Cardinality((free \cup {i}) \cup {j}) + 1
        BY <2>4, <3>1, FS_AddElement, Zenon
      <3> QED
        BY <2>1, <2>4, <3>2
    <2>6. Cardinality(Submitted') = Cardinality(Submitted) - 1
      BY <1>2, <2>1, FS_RemoveElement, Zenon
    <2> QED
      BY <1>0, <2>1, <2>5, <2>6, Sizes DEF Counted
  <1> QED
    BY <1>2, <1>3, <1>7, <1>8, <1>9, <1>10, Zenon

\* A chain has three descriptors.
LEMMA Triple ==
  ASSUME NEW i, NEW j, NEW k, i # j, j # k, i # k
  PROVE  Cardinality({i, j, k}) = 3
  <1>1. IsFiniteSet({i}) /\ Cardinality({i}) = 1
    BY FS_Singleton, Zenon
  <1>2. {i, j} = {i} \cup {j} /\ j \notin {i} /\ {i, j, k} = {i, j} \cup {k} /\ k \notin {i, j}
    BY Zenon
  <1>3. IsFiniteSet({i} \cup {j}) /\ Cardinality({i} \cup {j}) = Cardinality({i}) + 1
    BY <1>1, <1>2, FS_AddElement, Zenon
  <1>4. IsFiniteSet({i, j}) /\ Cardinality({i, j}) = 2
    BY <1>1, <1>2, <1>3
  <1>5. Cardinality({i, j} \cup {k}) = Cardinality({i, j}) + 1
    BY <1>2, <1>4, FS_AddElement, Zenon
  <1> QED
    BY <1>2, <1>4, <1>5

\* The lengths of the rings are numbers.
LEMMA Lengths ==
  ASSUME TypeOK
  PROVE  Length(seen, availidx) \in Nat /\ Length(used_idx, usedidx) \in Nat
  <1>1. /\ seen \in Index /\ availidx \in Index /\ used_idx \in Index /\ usedidx \in Index
    BY Zenon DEF TypeOK
  <1>2. Length(seen, availidx) \in 0 .. MOD - 1 /\ Length(used_idx, usedidx) \in 0 .. MOD - 1
    BY <1>1, Wraps, Zenon
  <1> QED
    BY <1>2, Sizes

\* The descriptors at the head of a submitted request.
Heads == {idx0[q] : q \in Submitted}

\* The rings have room for every request: three descriptors each.
LEMMA FewRequests ==
  ASSUME IInv
  PROVE  /\ IsFiniteSet(Heads) /\ Cardinality(Heads) \in Nat
         /\ 3 * Cardinality(Heads) + Cardinality(free) <= NUM
         /\ Queued \cup inflight \cup Answered \subseteq Heads
         /\ \A p, q \in Submitted : idx0[p] = idx0[q] => p = q
  <1>0. TypeOK /\ Counted /\ Tracked /\ Apart
    BY Zenon DEF IInv
  <1>1. /\ IsFiniteSet(Submitted) /\ Cardinality(Submitted) \in Nat /\ Cardinality(free) \in Nat
    BY <1>0, Finite, Zenon
  <1> DEFINE f == [q \in Submitted |-> idx0[q]]
  <1>2. f \in Surjection(Submitted, Heads)
    BY Zenon DEF Surjection, Heads
  <1>3. IsFiniteSet(Heads) /\ Cardinality(Heads) <= Cardinality(Submitted)
    BY <1>1, <1>2, FS_Surjection, Zenon
  <1>4. Cardinality(Heads) \in Nat
    BY <1>3, FS_CardinalityType, Zenon
  <1>5. 3 * Cardinality(Heads) + Cardinality(free) <= NUM
    BY <1>0, <1>1, <1>3, <1>4, Sizes DEF Counted
  <1>6. Queued \cup inflight \cup Answered \subseteq Heads
    BY <1>0, Zenon DEF Tracked, Underway, Heads
  <1>7. \A p, q \in Submitted : idx0[p] = idx0[q] => p = q
    <2>1. \A p \in Submitted : idx0[p] \in Chain(idx0[p])
      BY Zenon DEF Chain
    <2> QED
      BY <1>0, <2>1, Zenon DEF Apart
  <1> QED
    BY <1>3, <1>4, <1>5, <1>6, <1>7, Zenon

\* The request goes behind those that wait, and the avail ring has room.
LEMMA SubmitRings ==
  ASSUME IInv, NEW p \in Procs, rw_submit(p), TypeOK'
  PROVE  (Notifies /\ Rings /\ Tracked /\ Moved)'
  <1> USE DEF TypeOK
  <1>0. TypeOK /\ Notifies /\ Rings /\ Tracked /\ Moved
    BY Zenon DEF IInv
  <1>1. /\ Submitted' = Submitted \cup {p} /\ p \notin Submitted
        /\ \A q \in Submitted : idx0'[q] = idx0[q]
        /\ idx0'[p] \in free /\ idx0'[p] = avail'[availidx % RING]
    BY SubmitChains, Zenon
  <1>2. Length(seen, availidx) < RING
    <2>1. Length(seen, availidx) <= Cardinality(Heads)
      <3>1. /\ IsFiniteSet(Heads) /\ Queued \subseteq Heads
        BY FewRequests, Zenon
      <3> QED
        BY <1>0, <3>1, RingBound, Zenon DEF Rings, Queued
    <2>2. Cardinality(free) \in Nat /\ Cardinality(free) >= 3
      <3>1. PICK i, j, k \in free : i < j /\ j < k
        BY Zenon DEF rw_submit, alloc3_desc
      <3>2. i # j /\ j # k /\ i # k
        BY <1>0, <3>1 DEF Desc
      <3>3. Cardinality({i, j, k}) = 3
        BY <3>2, Triple, Zenon
      <3>4. Cardinality({i, j, k}) <= Cardinality(free)
        <4>1. {i, j, k} \subseteq free /\ IsFiniteSet(free)
          BY <1>0, <3>1, Finite, Zenon
        <4> QED
          BY <4>1, FS_Subset, Zenon
      <3> QED
        BY <1>0, <3>3, <3>4, Finite, Zenon
    <2>3. Length(seen, availidx) \in Nat
      BY <1>0, Lengths, Zenon
    <2> QED
      BY <2>1, <2>2, <2>3, FewRequests, Sizes
  <1>3. PICK i \in Desc : avail' = [avail EXCEPT ![availidx % RING] = i]
    BY <1>0, Zenon DEF rw_submit
  <1>4. /\ UNCHANGED <<availidx, used_idx, used, usedidx, seen, inflight, irq, moved>>
        /\ lock = None /\ lock' = p /\ disk' = [disk EXCEPT ![p] = TRUE]
        /\ pc[p] = "alloc" /\ pc' = [pc EXCEPT ![p] = "notify"]
    BY Zenon DEF rw_submit, device, Goto
  <1>5. Queued' = Queued /\ Distinct(avail', seen', availidx') /\ Answered' = Answered
    <2>1. avail \in [Slot -> Desc] /\ seen \in Index /\ availidx \in Index
            /\ Distinct(avail, seen, availidx)
      BY <1>0, Zenon DEF Rings
    <2>2. /\ Entries(avail', seen, availidx) = Entries(avail, seen, availidx)
          /\ Distinct(avail', seen, availidx)
      <3>1. \A s \in Slot \ {availidx % RING} : avail'[s] = avail[s]
        BY <1>3, <2>1, Zenon
      <3> QED
        BY <1>2, <2>1, <3>1, WriteKeeps
    <2> QED
      BY <1>4, <2>2, Zenon DEF Queued, Answered
  <1>6. Rings'
    BY <1>0, <1>4, <1>5, Zenon DEF Rings
  <1>7. \A q \in Procs : Underway(q)' <=> Underway(q)
    BY <1>0, <1>1, <1>4, Zenon DEF Underway
  <1>8. Tracked'
    <2>1. \A q \in Procs : Underway(q) => idx0'[q] = idx0[q]
      BY <1>1, Zenon DEF Underway
    <2> QED
      BY <1>0, <1>4, <1>5, <1>7, <2>1, Zenon DEF Tracked
  <1>9. Moved'
    <2>1. \A q \in Submitted : disk'[q] = disk[q] /\ idx0'[q] = idx0[q] /\ q \in Procs
      BY <1>0, <1>1, <1>4, Zenon DEF Submitted
    <2>2. idx0'[p] \notin Answered /\ disk'[p] /\ p \notin moved
      <3>1. idx0'[p] \notin Heads
        <4>1. \A q \in Submitted : idx0[q] \notin free
          BY Zenon DEF IInv, Chained, Chain
        <4> QED
          BY <1>1, <4>1, Zenon DEF Heads
      <3> QED
        BY <1>0, <1>1, <1>4, <3>1, FewRequests, Zenon DEF Moved
    <2> QED
      BY <1>0, <1>1, <1>4, <1>5, <2>1, <2>2, Zenon DEF Moved
  <1>10. Notifies'
    <2>1. \A q \in Procs : pc'[q] = "notify" <=> lock' = q
      BY <1>0, <1>4, VirtioAssumption, Zenon DEF Notifies
    <2>2. disk'[p] /\ avail'[availidx' % RING] = idx0'[p] /\ Length(seen', availidx') < RING
      BY <1>0, <1>1, <1>2, <1>4, Zenon
    <2> QED
      BY <1>4, <2>1, <2>2, Zenon DEF Notifies
  <1> QED
    BY <1>6, <1>8, <1>9, <1>10, Zenon

\* The increment of avail->idx shows the device the request.
LEMMA NotifyRings ==
  ASSUME IInv, NEW p \in Procs, rw_notify(p), TypeOK'
  PROVE  (Chained /\ Apart /\ Covered /\ Counted /\ Notifies /\ Rings /\ Tracked /\ Moved)'
  <1> USE DEF TypeOK
  <1>0. TypeOK /\ Notifies /\ Rings /\ Tracked /\ Moved
    BY Zenon DEF IInv
  <1>1. /\ pc[p] = "notify" /\ pc' = [pc EXCEPT ![p] = "sleep_b"]
        /\ availidx' = PlusOne(availidx) /\ lock' = None
        /\ UNCHANGED <<free, next, addr, info, avail, used_idx, disk, idx0>>
        /\ UNCHANGED <<used, usedidx, seen, inflight, irq, moved>>
    BY Zenon DEF rw_notify, Goto, device
  <1>2. Submitted' = Submitted /\ p \in Submitted
    BY <1>0, <1>1, Zenon DEF Submitted
  <1>3. (Chained /\ Apart /\ Covered /\ Counted)'
    BY <1>1, <1>2 DEF IInv, Chained, Apart, Covered, Counted, Chain, Second, Third
  <1>4. disk[p] /\ avail[availidx % RING] = idx0[p] /\ Length(seen, availidx) < RING /\ lock = p
    BY <1>0, <1>1, Zenon DEF Notifies
  <1>5. idx0[p] \notin Queued \cup inflight \cup Answered
    <2>1. \A q \in Procs : Underway(q) => idx0[q] # idx0[p]
      BY <1>1, <1>2, FewRequests, Zenon DEF Underway
    <2> QED
      BY <1>0, <2>1, Zenon DEF Tracked
  <1>6. /\ Length(seen, PlusOne(availidx)) = Length(seen, availidx) + 1
        /\ Entries(avail, seen, PlusOne(availidx)) = Entries(avail, seen, availidx) \cup {idx0[p]}
        /\ Distinct(avail, seen, PlusOne(availidx))
    BY <1>0, <1>4, <1>5, Advance DEF Rings, Queued
  <1>7. Queued' = Queued \cup {idx0[p]} /\ Answered' = Answered
    BY <1>1, <1>6, Zenon DEF Queued, Answered
  <1>8. Rings'
    <2>1. Length(seen, availidx) \in Nat
      BY <1>0, Lengths, Zenon
    <2>2. Length(seen', availidx') <= RING /\ Distinct(avail', seen', availidx')
      BY <1>1, <1>4, <1>6, <2>1, Sizes
    <2>3. Queued' \cap inflight' = {} /\ Queued' \cap Answered' = {}
      BY <1>0, <1>1, <1>5, <1>7 DEF Rings
    <2> QED
      BY <1>0, <1>1, <1>7, <2>2, <2>3, Zenon DEF Rings
  <1>9. \A q \in Procs : Underway(q)' <=> Underway(q) \/ q = p
    BY <1>0, <1>1, <1>2, <1>4, Zenon DEF Underway
  <1>10. Tracked'
    BY <1>0, <1>1, <1>7, <1>9, Zenon DEF Tracked
  <1>11. Moved'
    BY <1>0, <1>1, <1>2, <1>7, Zenon DEF Moved
  <1>12. Notifies'
    BY <1>0, <1>1, <1>4, VirtioAssumption DEF Notifies
  <1> QED
    BY <1>3, <1>8, <1>10, <1>11, <1>12, Zenon

\* A call returns when its request is in none of the rings.
LEMMA DoneRings ==
  ASSUME IInv, NEW p \in Procs, rw_done(p), TypeOK'
  PROVE  (Notifies /\ Rings /\ Tracked /\ Moved)'
  <1> USE DEF TypeOK
  <1>0. TypeOK /\ Notifies /\ Rings /\ Tracked /\ Moved
    BY Zenon DEF IInv
  <1>1. /\ Submitted' = Submitted \ {p} /\ p \in Submitted
        /\ \A q \in Submitted : q # p => idx0'[q] = idx0[q]
    BY DoneChains, Zenon
  <1>2. /\ pc[p] = "woken" /\ lock = None /\ ~disk[p] /\ moved' = moved \ {p}
        /\ UNCHANGED <<avail, availidx, used_idx, disk, lock, used, usedidx, seen, inflight, irq>>
    BY Zenon DEF rw_done, StillBusy
  <1>3. Queued' = Queued /\ Answered' = Answered
    BY <1>2, Zenon DEF Queued, Answered
  <1>4. Rings'
    BY <1>0, <1>2, <1>3, Zenon DEF Rings
  <1>5. /\ pc'[p] = "idle"
        /\ \A q \in Procs : q # p => pc'[q] = IF pc[q] = "sleep_free" THEN "alloc" ELSE pc[q]
    BY <1>0, Zenon DEF rw_done, wakeup
  <1>6. Notifies'
    BY <1>0, <1>2, <1>5, VirtioAssumption, Zenon DEF Notifies
  <1>7. \A q \in Procs : (Underway(q)' <=> Underway(q)) /\ (Underway(q) => idx0'[q] = idx0[q])
    BY <1>1, <1>2, <1>5, Zenon DEF Underway
  <1>8. Tracked'
    BY <1>0, <1>2, <1>3, <1>7 DEF Tracked
  <1>9. Moved'
    BY <1>0, <1>1, <1>2, <1>3, Zenon DEF Moved
  <1> QED
    BY <1>4, <1>6, <1>8, <1>9, Zenon

\* The handler takes the completion of a request whose process waits.
LEMMA EntryRings ==
  ASSUME IInv, intr_entry, TypeOK'
  PROVE  (Chained /\ Apart /\ Covered /\ Counted /\ Notifies /\ Rings /\ Tracked /\ Moved)'
  <1> USE DEF TypeOK
  <1>0. TypeOK /\ Chained /\ Notifies /\ Rings /\ Tracked /\ Moved
    BY Zenon DEF IInv
  <1> DEFINE h == used[used_idx % RING]
  <1>1. /\ h \in Answered /\ Distinct(used, PlusOne(used_idx), usedidx)
        /\ Entries(used, PlusOne(used_idx), usedidx) = Answered \ {h}
        /\ Length(PlusOne(used_idx), usedidx) = Length(used_idx, usedidx) - 1
    BY <1>0, Retire, Zenon DEF intr_entry, Rings, Answered
  <1> HIDE DEF h
  <1>2. PICK b \in Procs : Underway(b) /\ idx0[b] = h
    BY <1>0, <1>1, Zenon DEF Tracked
  <1>3. info[h] = b /\ b \in Submitted
    BY <1>0, <1>2, Zenon DEF Chained, Underway
  <1>4. /\ lock = intr /\ used_idx' = PlusOne(used_idx) /\ disk' = [disk EXCEPT ![b] = FALSE]
        /\ pc' = wakeup("sleep_b", "woken", {b})
        /\ UNCHANGED <<free, next, addr, info, avail, availidx, lock, idx0>>
        /\ UNCHANGED <<used, usedidx, seen, inflight, irq, moved>>
    BY <1>3, Zenon DEF intr_entry, device, h
  <1>5. \A q \in Procs : pc'[q] = IF pc[q] = "sleep_b" /\ q = b THEN "woken" ELSE pc[q]
    BY <1>4, Zenon DEF wakeup
  <1>6. Submitted' = Submitted
    BY <1>5, Zenon DEF Submitted
  <1>7. (Chained /\ Apart /\ Covered /\ Counted)'
    BY <1>4, <1>6 DEF IInv, Chained, Apart, Covered, Counted, Chain, Second, Third
  <1>8. Queued' = Queued /\ Answered' = Answered \ {h}
    BY <1>1, <1>4, Zenon DEF Queued, Answered
  <1>9. Rings'
    <2>1. Length(used_idx', usedidx') <= RING
      BY <1>0, <1>1, <1>4, Lengths, Sizes DEF Rings
    <2>2. /\ Length(seen', availidx') <= RING /\ Distinct(avail', seen', availidx')
          /\ Distinct(used', used_idx', usedidx')
      BY <1>0, <1>1, <1>4, Zenon DEF Rings
    <2> QED
      BY <1>0, <1>4, <1>8, <2>1, <2>2, Zenon DEF Rings
  <1>10. Notifies'
    <2>1. pc[b] # "notify"
      BY <1>2, Zenon DEF Underway
    <2>2. \A q \in Procs : pc'[q] = "notify" <=> pc[q] = "notify"
      BY <1>5, Zenon
    <2> QED
      BY <1>0, <1>4, <2>1, <2>2, Zenon DEF Notifies
  <1>11. \A q \in Procs : Underway(q)' <=> Underway(q) /\ q # b
    BY <1>0, <1>4, <1>5, <1>6, Zenon DEF Underway
  <1>12. \A q \in Submitted : q # b => idx0[q] # h
    BY <1>2, <1>3, FewRequests, Zenon
  <1>13. Tracked'
    <2>1. \A g \in Queued' \cup inflight' \cup Answered' :
            g \in (Queued \cup inflight \cup Answered) \ {h}
      BY <1>0, <1>1, <1>4, <1>8, Zenon DEF Rings
    <2>2. \A g \in (Queued \cup inflight \cup Answered) \ {h} :
            \E q \in Procs : Underway(q) /\ q # b /\ idx0[q] = g
      BY <1>0, <1>2, Zenon DEF Tracked
    <2>3. \A q \in Procs : Underway(q) /\ q # b =>
            idx0[q] \in Queued' \cup inflight' \cup Answered'
      BY <1>0, <1>4, <1>8, <1>12, Zenon DEF Tracked, Underway
    <2> QED
      BY <1>4, <1>11, <2>1, <2>2, <2>3, Zenon DEF Tracked
  <1>14. Moved'
    <2>1. b \in moved /\ ~disk'[b]
      BY <1>0, <1>1, <1>2, <1>3, <1>4, Zenon DEF Moved
    <2>2. \A q \in Procs : q # b => disk'[q] = disk[q]
      BY <1>0, <1>4, Zenon
    <2> QED
      BY <1>0, <1>3, <1>4, <1>6, <1>8, <1>12, <2>1, <2>2, Zenon DEF Moved
  <1> QED
    BY <1>7, <1>9, <1>10, <1>13, <1>14, Zenon

\* The device reads the next request: it was in the ring, now it is inside.
LEMMA FetchRings ==
  ASSUME IInv, dev_fetch, TypeOK'
  PROVE  (Chained /\ Apart /\ Covered /\ Counted /\ Notifies /\ Rings /\ Tracked /\ Moved)'
  <1> USE DEF TypeOK
  <1>0. TypeOK /\ Notifies /\ Rings /\ Tracked /\ Moved
    BY Zenon DEF IInv
  <1> DEFINE h == avail[seen % RING]
  <1>1. /\ h \in Queued /\ Distinct(avail, PlusOne(seen), availidx)
        /\ Entries(avail, PlusOne(seen), availidx) = Queued \ {h}
        /\ Length(PlusOne(seen), availidx) = Length(seen, availidx) - 1
    BY <1>0, Retire DEF dev_fetch, Rings, Queued
  <1>2. /\ inflight' = inflight \cup {h} /\ seen' = PlusOne(seen)
        /\ UNCHANGED <<free, next, addr, info, avail, availidx, lock, idx0, pc, disk>>
        /\ UNCHANGED <<used, usedidx, used_idx, irq, moved>>
    BY Zenon DEF dev_fetch, driver
  <1> HIDE DEF h
  <1>3. Submitted' = Submitted
    BY <1>2, Zenon DEF Submitted
  <1>4. (Chained /\ Apart /\ Covered /\ Counted)'
    BY <1>2, <1>3 DEF IInv, Chained, Apart, Covered, Counted, Chain, Second, Third
  <1>5. Queued' = Queued \ {h} /\ Answered' = Answered
    BY <1>1, <1>2, Zenon DEF Queued, Answered
  <1>6. Length(seen', availidx') < Length(seen, availidx) /\ Length(seen, availidx) \in Nat
          /\ Length(seen', availidx') \in Int
    BY <1>0, <1>1, <1>2, Lengths
  <1>7. Rings'
    <2>1. Length(seen', availidx') <= RING
      BY <1>0, <1>6, Sizes DEF Rings
    <2> QED
      BY <1>0, <1>1, <1>2, <1>5, <2>1, Zenon DEF Rings
  <1>8. Notifies'
    <2>1. \A q \in Procs : pc[q] = "notify" => Length(seen', availidx') < RING
      BY <1>0, <1>6, Sizes DEF Notifies
    <2> QED
      BY <1>0, <1>2, <2>1, Zenon DEF Notifies
  <1>9. \A q \in Procs : Underway(q)' <=> Underway(q)
    BY <1>2, <1>3, Zenon DEF Underway
  <1>10. Queued' \cup inflight' \cup Answered' = Queued \cup inflight \cup Answered
    BY <1>1, <1>2, <1>5, Zenon
  <1>11. Tracked'
    BY <1>0, <1>2, <1>9, <1>10, Zenon DEF Tracked
  <1>12. Moved'
    BY <1>0, <1>2, <1>3, <1>5, Zenon DEF Moved
  <1> QED
    BY <1>4, <1>7, <1>8, <1>11, <1>12, Zenon

\* The device answers: the used ring has room, and what it moves are the data
\* of the process whose request it is.
LEMMA FinishRings ==
  ASSUME IInv, NEW i \in Desc, dev_finish(i), TypeOK'
  PROVE  /\ (Chained /\ Apart /\ Covered /\ Counted /\ Notifies /\ Rings /\ Tracked /\ Moved)'
         /\ \E b \in Procs : b \in Submitted /\ b \notin moved /\ moved' = moved \cup {b}
  <1> USE DEF TypeOK
  <1>0. TypeOK /\ Chained /\ Notifies /\ Rings /\ Tracked /\ Moved
    BY Zenon DEF IInv
  <1>1. PICK b \in Procs : Underway(b) /\ idx0[b] = i
    BY <1>0, Zenon DEF Tracked, dev_finish
  <1>2. b \in Submitted /\ addr[next[i]] = b /\ disk[b]
    BY <1>0, <1>1, Zenon DEF Chained, Underway, Second
  <1>3. /\ i \in inflight /\ inflight' = inflight \ {i} /\ moved' = moved \cup {b}
        /\ used' = [used EXCEPT ![usedidx % RING] = i] /\ usedidx' = PlusOne(usedidx)
        /\ UNCHANGED <<free, next, addr, info, avail, availidx, used_idx>>
        /\ UNCHANGED <<disk, lock, pc, idx0, seen>>
    BY <1>2 DEF dev_finish
  <1>4. Submitted' = Submitted
    BY <1>3, Zenon DEF Submitted
  <1>5. (Chained /\ Apart /\ Covered /\ Counted)'
    BY <1>3, <1>4 DEF IInv, Chained, Apart, Covered, Counted, Chain, Second, Third
  <1>6. i \notin Queued /\ i \notin Answered
    BY <1>0, <1>3, Zenon DEF Rings
  <1>7. Length(used_idx, usedidx) < RING
    <2> DEFINE S == Heads \ {i}
    <2>1. /\ IsFiniteSet(Heads) /\ Cardinality(Heads) \in Nat
          /\ Answered \subseteq Heads /\ i \in Heads
          /\ 3 * Cardinality(Heads) + Cardinality(free) <= NUM
      BY <1>3, FewRequests, Zenon
    <2>2. IsFiniteSet(S) /\ Cardinality(S) = Cardinality(Heads) - 1
      BY <2>1, FS_RemoveElement, Zenon
    <2>3. Answered \subseteq S
      BY <1>6, <2>1, Zenon
    <2> HIDE DEF S
    <2>4. Length(used_idx, usedidx) <= Cardinality(S)
      BY <1>0, <2>2, <2>3, RingBound, Zenon DEF Rings, Answered
    <2>5. Cardinality(free) \in Nat /\ Length(used_idx, usedidx) \in Nat
      BY <1>0, Finite, Lengths, Zenon
    <2> QED
      BY <2>1, <2>2, <2>4, <2>5, Sizes
  <1>8. /\ Entries(used', used_idx, usedidx) = Answered /\ Distinct(used', used_idx, usedidx)
        /\ used'[usedidx % RING] = i
    <2>1. used \in [Slot -> Desc] /\ used_idx \in Index /\ usedidx \in Index
            /\ Distinct(used, used_idx, usedidx)
      BY <1>0, Zenon DEF Rings
    <2>2. /\ Entries(used', used_idx, usedidx) = Entries(used, used_idx, usedidx)
          /\ Distinct(used', used_idx, usedidx) /\ used'[usedidx % RING] = i
      <3>1. usedidx % RING \in Slot
        BY <2>1, Sizes DEF Slot, Index
      <3>2. used'[usedidx % RING] = i /\ \A s \in Slot \ {usedidx % RING} : used'[s] = used[s]
        BY <1>3, <2>1, <3>1, Zenon
      <3> QED
        BY <1>7, <2>1, <3>2, WriteKeeps
    <2> QED
      BY <2>2, Zenon DEF Answered
  <1>9. /\ Length(used_idx, PlusOne(usedidx)) = Length(used_idx, usedidx) + 1
        /\ Entries(used', used_idx, PlusOne(usedidx)) = Answered \cup {i}
        /\ Distinct(used', used_idx, PlusOne(usedidx))
    <2>1. used' \in [Slot -> Desc] /\ used_idx \in Index /\ usedidx \in Index
      BY <1>0, Zenon
    <2> QED
      BY <1>6, <1>7, <1>8, <2>1, Advance, Zenon
  <1>10. Queued' = Queued /\ Answered' = Answered \cup {i}
    BY <1>3, <1>9, Zenon DEF Queued, Answered
  <1>11. Rings'
    <2>1. Length(used_idx', usedidx') <= RING
      BY <1>0, <1>3, <1>7, <1>9, Lengths, Sizes
    <2>2. /\ Length(seen', availidx') <= RING /\ Distinct(avail', seen', availidx')
          /\ Distinct(used', used_idx', usedidx')
      BY <1>0, <1>3, <1>9, Zenon DEF Rings
    <2> QED
      BY <1>0, <1>3, <1>6, <1>10, <2>1, <2>2 DEF Rings
  <1>12. Notifies'
    BY <1>0, <1>3, Zenon DEF Notifies
  <1>13. \A q \in Procs : Underway(q)' <=> Underway(q)
    BY <1>3, <1>4, Zenon DEF Underway
  <1>14. Queued' \cup inflight' \cup Answered' = Queued \cup inflight \cup Answered
    BY <1>3, <1>10, Zenon
  <1>15. Tracked'
    BY <1>0, <1>3, <1>13, <1>14, Zenon DEF Tracked
  <1>16. \A q \in Submitted : q # b => idx0[q] # i
    BY <1>1, <1>2, FewRequests, Zenon
  <1>17. Moved'
    BY <1>0, <1>1, <1>2, <1>3, <1>4, <1>10, <1>16, Zenon DEF Moved
  <1>18. b \notin moved
    BY <1>0, <1>1, <1>2, <1>6, Zenon DEF Moved
  <1> QED
    BY <1>2, <1>3, <1>5, <1>11, <1>12, <1>15, <1>17, <1>18, Zenon

-----------------------------------------------------------------------------
(* The inductive invariant.                                                *)

\* A step that leaves the requests alone: it starts a call, fails to find
\* descriptors, sleeps, wakes or takes and gives back the handler's lock.
Resting ==
    \/ \E p \in Procs : virtio_disk_rw(p) \/ rw_nodesc(p) \/ rw_sleep(p) \/ kill(p)
    \/ intr_ack \/ intr_end \/ UNCHANGED vars

\* Such a step moves nobody into or out of a request.
LEMMA RestingSteps ==
  ASSUME IInv, Resting
  PROVE  /\ UNCHANGED <<free, next, addr, info, avail, availidx, used, usedidx, used_idx>>
         /\ UNCHANGED <<disk, idx0, seen, inflight, moved>>
         /\ \A q \in Procs :
              /\ pc'[q] \in {"notify", "sleep_b", "woken"}
                   <=> pc[q] \in {"notify", "sleep_b", "woken"}
              /\ pc'[q] = "notify" <=> pc[q] = "notify"
              /\ lock' = q <=> lock = q
  <1> USE VirtioAssumption DEF TypeOK
  <1>0. TypeOK
    BY Zenon DEF IInv
  <1>1. ASSUME NEW p \in Procs, virtio_disk_rw(p) \/ rw_sleep(p) \/ kill(p)
        PROVE  /\ UNCHANGED <<free, next, addr, info, avail, availidx, used, usedidx, used_idx>>
               /\ UNCHANGED <<disk, idx0, seen, inflight, moved, lock>>
               /\ \E l \in PCs : pc' = [pc EXCEPT ![p] = l] /\ l # "notify" /\ pc[p] # "notify"
                    /\ (l \in {"notify", "sleep_b", "woken"}
                          <=> pc[p] \in {"notify", "sleep_b", "woken"})
    BY <1>1, Zenon DEF virtio_disk_rw, rw_sleep, kill, Goto, device, PCs
  <1>2. ASSUME NEW p \in Procs, rw_nodesc(p)
        PROVE  /\ UNCHANGED <<free, next, addr, info, avail, availidx, used, usedidx, used_idx>>
               /\ UNCHANGED <<disk, idx0, seen, inflight, moved, lock>>
               /\ pc[p] = "alloc" /\ pc'[p] = "sleep_free"
               /\ \A q \in Procs \ {p} :
                    pc'[q] = pc[q] \/ (pc[q] = "sleep_free" /\ pc'[q] = "alloc")
    BY <1>0, <1>2, Zenon DEF rw_nodesc, wakeup, device
  <1>3. ASSUME intr_ack \/ intr_end \/ UNCHANGED vars
        PROVE  /\ UNCHANGED <<free, next, addr, info, avail, availidx, used, usedidx, used_idx>>
               /\ UNCHANGED <<disk, idx0, seen, inflight, moved, pc>>
               /\ \A q \in Procs : lock' = q <=> lock = q
    BY <1>3, Zenon DEF intr_ack, intr_end, vars, device
  <1>4. CASE \E p \in Procs : virtio_disk_rw(p) \/ rw_sleep(p) \/ kill(p)
    BY <1>0, <1>1, <1>4
  <1>5. CASE \E p \in Procs : rw_nodesc(p)
    BY <1>0, <1>2, <1>5, Zenon
  <1>6. CASE intr_ack \/ intr_end \/ UNCHANGED vars
    BY <1>3, <1>6, Zenon
  <1> QED
    BY <1>4, <1>5, <1>6, Zenon DEF Resting

\* The steps of Next, those that leave the requests alone taken together.
LEMMA StepKinds ==
  ASSUME [Next]_vars
  PROVE  \/ Resting
         \/ \E p \in Procs : rw_submit(p) \/ rw_notify(p) \/ rw_done(p)
         \/ intr_entry \/ dev_fetch \/ \E i \in Desc : dev_finish(i)
  BY Zenon DEF Next, Rw, Intr, Device, Resting

\* An answer that nobody has seen keeps its interrupt, whoever sleeps on a
\* buffer has it in the disk, and who sleeps for descriptors lacks them.
LEMMA NextWaits ==
  ASSUME IInv, [Next]_vars, TypeOK'
  PROVE  Waits'
  <1> USE VirtioAssumption DEF TypeOK
  <1>0. TypeOK /\ Waits /\ Notifies
    BY Zenon DEF IInv
  <1>1. ASSUME NEW p \in Procs, virtio_disk_rw(p) \/ rw_sleep(p) \/ kill(p)
        PROVE  Waits'
    <2>1. /\ UNCHANGED <<free, used_idx, usedidx, irq, lock, disk>>
          /\ \E l \in PCs : pc' = [pc EXCEPT ![p] = l] /\ l # "sleep_free"
               /\ (l = "sleep_b" => disk[p])
      BY <1>1, Zenon DEF virtio_disk_rw, rw_sleep, kill, Goto, device, PCs, StillBusy
    <2> QED
      BY <1>0, <2>1 DEF Waits
  <1>2. ASSUME NEW p \in Procs, rw_nodesc(p) PROVE Waits'
    <2>1. /\ UNCHANGED <<free, used_idx, usedidx, irq, lock, disk>>
          /\ Cardinality(free) < 3
          /\ \A q \in Procs : pc'[q] = "sleep_b" => pc[q] = "sleep_b"
      BY <1>0, <1>2, Zenon DEF rw_nodesc, wakeup, device
    <2> QED
      BY <1>0, <2>1, Zenon DEF Waits
  <1>3. ASSUME intr_ack \/ intr_end \/ UNCHANGED vars PROVE Waits'
    <2>1. UNCHANGED <<free, used_idx, usedidx, pc, disk>>
      BY <1>3, Zenon DEF intr_ack, intr_end, vars, device
    <2>2. used_idx' # usedidx' => irq' \/ lock' = intr
      BY <1>0, <1>3, Zenon DEF intr_ack, intr_end, vars, device, Waits
    <2> QED
      BY <1>0, <2>1, <2>2, Zenon DEF Waits
  <1>4. ASSUME NEW p \in Procs, rw_submit(p) PROVE Waits'
    <2>1. /\ UNCHANGED <<used_idx, usedidx, irq>> /\ free' \subseteq free /\ lock = None
          /\ pc' = [pc EXCEPT ![p] = "notify"] /\ disk' = [disk EXCEPT ![p] = TRUE]
      BY <1>4, Zenon DEF rw_submit, device, Goto
    <2>2. Cardinality(free') <= Cardinality(free) /\ Cardinality(free') \in Nat
            /\ Cardinality(free) \in Nat
      <3>1. IsFiniteSet(free) /\ Cardinality(free) \in Nat
        BY <1>0, Finite, Zenon
      <3>2. IsFiniteSet(free') /\ Cardinality(free') <= Cardinality(free)
        BY <2>1, <3>1, FS_Subset, Zenon
      <3> QED
        BY <3>1, <3>2, FS_CardinalityType, Zenon
    <2>3. \A q \in Procs : pc'[q] = "sleep_free" => Cardinality(free') < 3
      BY <1>0, <2>1, <2>2 DEF Waits
    <2>4. \A q \in Procs : pc'[q] = "sleep_b" => disk'[q]
      BY <1>0, <2>1, Zenon DEF Waits
    <2>5. used_idx' # usedidx' => irq'
      BY <1>0, <2>1, Zenon DEF Waits
    <2> QED
      BY <2>3, <2>4, <2>5, Zenon DEF Waits
  <1>5. ASSUME NEW p \in Procs, rw_notify(p) PROVE Waits'
    <2>1. /\ UNCHANGED <<free, used_idx, usedidx, irq, disk>>
          /\ pc[p] = "notify" /\ pc' = [pc EXCEPT ![p] = "sleep_b"]
      BY <1>5, Zenon DEF rw_notify, device, Goto
    <2>2. disk[p] /\ lock = p
      BY <1>0, <2>1, Zenon DEF Notifies
    <2> QED
      BY <1>0, <2>1, <2>2, Zenon DEF Waits
  <1>6. ASSUME NEW p \in Procs, rw_done(p) PROVE Waits'
    <2>1. /\ UNCHANGED <<used_idx, usedidx, irq, lock, disk>>
          /\ \A q \in Procs : pc'[q] # "sleep_free"
          /\ \A q \in Procs : pc'[q] = "sleep_b" => pc[q] = "sleep_b"
      BY <1>0, <1>6, Zenon DEF rw_done, wakeup
    <2> QED
      BY <1>0, <2>1, Zenon DEF Waits
  <1>7. ASSUME intr_entry PROVE Waits'
    <2>1. /\ UNCHANGED <<free, lock>> /\ lock = intr
          /\ \E b : /\ disk' = [disk EXCEPT ![b] = FALSE]
                    /\ pc' = wakeup("sleep_b", "woken", {b})
      BY <1>7, Zenon DEF intr_entry
    <2> QED
      BY <1>0, <2>1 DEF Waits, wakeup
  <1>8. ASSUME dev_fetch PROVE Waits'
    BY <1>0, <1>8, Zenon DEF dev_fetch, driver, Waits
  <1>9. ASSUME NEW i \in Desc, dev_finish(i) PROVE Waits'
    BY <1>0, <1>9 DEF dev_finish, Waits
  <1> QED
    BY <1>1, <1>2, <1>3, <1>4, <1>5, <1>6, <1>7, <1>8, <1>9, StepKinds, Zenon DEF Resting

\* Every step keeps the invariant.
LEMMA NextInv == IInv /\ [Next]_vars => IInv'
  <1> SUFFICES ASSUME IInv, [Next]_vars PROVE IInv'
    BY Zenon
  <1>1. TypeOK' /\ Waits'
    BY NextType, NextWaits, Zenon
  <1> DEFINE Kept == /\ Chained' /\ Apart' /\ Covered' /\ Counted'
                     /\ Notifies' /\ Rings' /\ Tracked' /\ Moved'
  <1>2. CASE Resting
    <2>1. Kept
      BY <1>2, RestingSteps, Quiet, Zenon
    <2> QED
      BY <1>1, <2>1, Zenon DEF IInv
  <1>3. ASSUME NEW p \in Procs, rw_submit(p) PROVE IInv'
    BY <1>1, <1>3, SubmitChains, SubmitRings, Zenon DEF IInv
  <1>4. ASSUME NEW p \in Procs, rw_notify(p) PROVE IInv'
    BY <1>1, <1>4, NotifyRings, Zenon DEF IInv
  <1>5. ASSUME NEW p \in Procs, rw_done(p) PROVE IInv'
    BY <1>1, <1>5, DoneChains, DoneRings, Zenon DEF IInv
  <1>6. CASE intr_entry
    BY <1>1, <1>6, EntryRings, Zenon DEF IInv
  <1>7. CASE dev_fetch
    BY <1>1, <1>7, FetchRings, Zenon DEF IInv
  <1>8. ASSUME NEW i \in Desc, dev_finish(i) PROVE IInv'
    BY <1>1, <1>8, FinishRings, Zenon DEF IInv
  <1> QED
    BY <1>2, <1>3, <1>4, <1>5, <1>6, <1>7, <1>8, StepKinds, Zenon

\* The invariant of the driver and the device holds in every state.
THEOREM Invariance == Spec => []IInv
  BY InitInv, NextInv, PTL DEF Spec

\* The three descriptors of a request are its own from alloc3_desc() to
\* free_chain(), and every descriptor is free or in a request.
THEOREM DescriptorsOwned == Spec => []OwnDescriptors
  <1>1. IInv => OwnDescriptors
    <2> SUFFICES ASSUME IInv PROVE OwnDescriptors
      BY Zenon
    <2>0. TypeOK /\ Chained /\ Apart /\ Covered
      BY Zenon DEF IInv
    <2>1. ASSUME NEW p \in Submitted
          PROVE  /\ next[idx0[p]] # None /\ next[next[idx0[p]]] # None
                 /\ Cardinality(Chain(idx0[p])) = 3 /\ Chain(idx0[p]) \cap free = {}
                 /\ addr[next[idx0[p]]] = p /\ Chain(idx0[p]) \subseteq Desc
      <3>1. /\ next[idx0[p]] \in Desc \ {idx0[p]}
            /\ next[next[idx0[p]]] \in Desc \ {idx0[p], next[idx0[p]]}
            /\ Chain(idx0[p]) \cap free = {} /\ addr[next[idx0[p]]] = p
        BY <2>0, Zenon DEF Chained, Second, Third
      <3>2. idx0[p] \in Desc
        BY <2>0, Zenon DEF Submitted, TypeOK
      <3>3. Cardinality(Chain(idx0[p])) = 3
        BY <3>1, Triple, Zenon DEF Chain
      <3>4. Chain(idx0[p]) \subseteq Desc
        BY <3>1, <3>2, Zenon DEF Chain
      <3> QED
        BY <3>1, <3>3, <3>4, VirtioAssumption, Zenon
    <2>2. free \cup UNION {Chain(idx0[p]) : p \in Submitted} = Desc
      <3>1. free \cup UNION {Chain(idx0[p]) : p \in Submitted} \subseteq Desc
        BY <2>0, <2>1 DEF TypeOK
      <3>2. Desc \subseteq free \cup UNION {Chain(idx0[p]) : p \in Submitted}
        BY <2>0, Zenon DEF Covered
      <3> QED
        BY <3>1, <3>2, Zenon
    <2> QED
      BY <2>0, <2>1, <2>2 DEF OwnDescriptors, Apart
  <1> QED
    BY <1>1, Invariance, PTL

\* No completion goes unannounced, and nobody sleeps for what has come.
THEOREM WakeupsKept == Spec => []NoLostWakeup
  <1>1. IInv => NoLostWakeup
    <2> SUFFICES ASSUME IInv PROVE NoLostWakeup
      BY Zenon
    <2>0. TypeOK /\ Waits /\ Counted
      BY Zenon DEF IInv
    <2>1. Cardinality(free) \in Nat /\ Cardinality(Submitted) \in Nat
      BY <2>0, Finite, Zenon
    <2>2. Cardinality(free) < 3 => Cardinality(Submitted) # 0
      BY <2>0, <2>1, Sizes DEF Counted
    <2>3. Cardinality(free) < 3 => Submitted # {}
      BY <2>2, FS_EmptySet, Zenon
    <2> QED
      BY <2>0, <2>3 DEF Waits, NoLostWakeup
  <1> QED
    BY <1>1, Invariance, PTL

-----------------------------------------------------------------------------
(* What the driver promises its callers.                                   *)

\* The request of a process changes only with its place in the call and with
\* the transfer of its data.
LEMMA SameRequest ==
  ASSUME moved' = moved, \A q \in Procs : pc'[q] = "idle" <=> pc[q] = "idle"
  PROVE  Request' = Request
  BY Zenon DEF Request

\* Where one process is concerned the others keep their request.
LEMMA MoveRequest ==
  ASSUME NEW p \in Procs, NEW from, NEW to, Request[p] = from, Request'[p] = to,
         \A q \in Procs \ {p} :
           (q \in moved' <=> q \in moved) /\ (pc'[q] = "idle" <=> pc[q] = "idle")
  PROVE  Service!Move(p, from, to)
  <1>1. \A q \in Procs \ {p} : Request'[q] = Request[q]
    BY Zenon DEF Request
  <1>2. Request' = [Request EXCEPT ![p] = to]
    <2>1. Request' = [q \in Procs |-> Request'[q]] /\ Request = [q \in Procs |-> Request[q]]
      BY Zenon DEF Request
    <2> QED
      BY <1>1, <2>1, Zenon
  <1> QED
    BY <1>2, Zenon DEF Service!Move

\* Every transfer is done once, after the call and before its return.
THEOREM TransfersOnce == Spec => OnceEach
  <1>1. Init => Service!Init
    BY Zenon DEF Init, Service!Init, Request
  <1>2. IInv /\ [Next]_vars => [Service!Next]_Request
    <2> SUFFICES ASSUME IInv, [Next]_vars PROVE Service!Next \/ Request' = Request
      BY Zenon
    <2>0. TypeOK /\ Moved
      BY Zenon DEF IInv
    <2> USE DEF TypeOK
    <2>1. ASSUME NEW p \in Procs, virtio_disk_rw(p) PROVE Service!Next
      <3>1. pc[p] = "idle" /\ pc' = [pc EXCEPT ![p] = "alloc"] /\ moved' = moved
        BY <2>1, Zenon DEF virtio_disk_rw, Goto, device
      <3>2. p \notin moved
        BY <2>0, <3>1, Zenon DEF Moved, Submitted
      <3>3. Request[p] = "none" /\ Request'[p] = "asked"
        BY <2>0, <3>1, <3>2, Zenon DEF Request
      <3>4. Service!Move(p, "none", "asked")
        BY <2>0, <3>1, <3>3, MoveRequest, Zenon
      <3> QED
        BY <3>4, Zenon DEF Service!Next
    <2>2. ASSUME NEW p \in Procs, rw_sleep(p) \/ kill(p) \/ rw_submit(p) \/ rw_notify(p)
          PROVE  Request' = Request
      <3>1. /\ moved' = moved /\ pc[p] # "idle"
            /\ \E l : pc' = [pc EXCEPT ![p] = l] /\ l # "idle"
        BY <2>2 DEF rw_sleep, kill, rw_submit, rw_notify, Goto, device
      <3>2. \A q \in Procs : pc'[q] = "idle" <=> pc[q] = "idle"
        BY <2>0, <3>1, Zenon
      <3> QED
        BY <3>1, <3>2, SameRequest, Zenon
    <2>3. ASSUME NEW p \in Procs, rw_nodesc(p) PROVE Request' = Request
      <3>1. /\ moved' = moved
            /\ \A q \in Procs : pc'[q] = "idle" <=> pc[q] = "idle"
        BY <2>0, <2>3, Zenon DEF rw_nodesc, wakeup, device
      <3> QED
        BY <3>1, SameRequest, Zenon
    <2>4. ASSUME NEW p \in Procs, rw_done(p) PROVE Service!Next
      <3>1. pc[p] = "woken" /\ ~disk[p] /\ moved' = moved \ {p} /\ pc'[p] = "idle"
              /\ \A q \in Procs \ {p} : pc'[q] = "idle" <=> pc[q] = "idle"
        BY <2>0, <2>4, Zenon DEF rw_done, StillBusy, wakeup
      <3>2. p \in moved
        BY <2>0, <3>1, Zenon DEF Moved, Submitted
      <3>3. Request[p] = "moved" /\ Request'[p] = "none"
        BY <3>1, <3>2, Zenon DEF Request
      <3>4. Service!Move(p, "moved", "none")
        BY <3>1, <3>3, MoveRequest, Zenon
      <3> QED
        BY <3>4, Zenon DEF Service!Next
    <2>5. ASSUME intr_ack \/ intr_end \/ dev_fetch \/ UNCHANGED vars PROVE Request' = Request
      BY <2>5, SameRequest, Zenon DEF intr_ack, intr_end, dev_fetch, driver, device, vars
    <2>6. ASSUME intr_entry PROVE Request' = Request
      <3>1. /\ moved' = moved
            /\ \A q \in Procs : pc'[q] = "idle" <=> pc[q] = "idle"
        BY <2>0, <2>6, Zenon DEF intr_entry, wakeup, device
      <3> QED
        BY <3>1, SameRequest, Zenon
    <2>7. ASSUME NEW i \in Desc, dev_finish(i) PROVE Service!Next
      <3>1. PICK b \in Procs : b \in Submitted /\ b \notin moved /\ moved' = moved \cup {b}
        BY <2>7, NextType, FinishRings, Zenon
      <3>2. pc' = pc /\ pc[b] # "idle"
        BY <2>7, <3>1, Zenon DEF dev_finish, Submitted
      <3>3. Request[b] = "asked" /\ Request'[b] = "moved"
        BY <3>1, <3>2, Zenon DEF Request
      <3>4. Service!Move(b, "asked", "moved")
        BY <3>1, <3>2, <3>3, MoveRequest, Zenon
      <3> QED
        BY <3>4 DEF Service!Next
    <2> QED
      BY <2>1, <2>2, <2>3, <2>4, <2>5, <2>6, <2>7, StepKinds, Zenon DEF Resting
  <1> QED
    BY <1>1, <1>2, Invariance, PTL DEF Spec, OnceEach, Service!Spec

=============================================================================
