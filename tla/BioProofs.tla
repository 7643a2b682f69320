----------------------------- MODULE BioProofs ------------------------------
(* The buffer cache of Bio.tla counts its references exactly, wakes who    *)
(* waits for a buffer, runs out of buffers only when they are all in use,  *)
(* and is one store of blocks with a lock each, for any number of          *)
(* processes, buffers, blocks and values.                                  *)
EXTENDS Bio, FiniteSetTheorems, SequenceTheorems, TLAPS

\* Where a call counts in b->refcnt, and where it has b->lock.
Counted == {"lock", "asleep", "read", "have", "unref"}
Locked == {"read", "have"}

TypeOK ==
    /\ order \in Seq(Bufs)
    /\ blockno \in [Bufs -> Block \cup {NoBlock}]
    /\ valid \in [Bufs -> BOOLEAN]
    /\ refcnt \in [Bufs -> Nat]
    /\ data \in [Bufs -> Value]
    /\ locked \in [Bufs -> Procs \cup {None}]
    /\ disk \in [Block -> Value]
    /\ pinned \subseteq Bufs /\ dirty \subseteq Bufs
    /\ pc \in [Procs -> Counted \cup {"idle", "panic"}]
    /\ bp \in [Procs -> Bufs]
    /\ want \in [Procs -> Block \cup {NoBlock}]

\* No buffer is ever lost from the list.
AllListed == \A b \in Bufs : \E i \in 1 .. Len(order) : order[i] = b

\* A locked buffer has one owner, who is using it.
LockOwned ==
    /\ \A p \in Procs : pc[p] \in Locked => locked[bp[p]] = p
    /\ \A b \in Bufs : locked[b] # None => bp[locked[b]] = b /\ pc[locked[b]] \in Locked

\* A process keeps the block it asked for: its buffer is not recycled.
KeepsBlock ==
    /\ \A p \in Procs : pc[p] \in Counted => want[p] \in Block /\ blockno[bp[p]] = want[p]
    /\ \A p \in Procs : pc[p] = "have" => valid[bp[p]]

\* A block is cached once at most.
OneCopy == \A b, c \in Bufs : blockno[b] \in Block /\ blockno[b] = blockno[c] => b = c

\* What may be forgotten is on the disk: a changed buffer is in use or pinned.
Clean ==
    /\ \A b \in dirty : \E p \in Procs : pc[p] = "have" /\ bp[p] = b
    /\ \A b \in Bufs : valid[b] => blockno[b] \in Block
    /\ \A b \in Bufs \ (pinned \cup dirty) : valid[b] => disk[blockno[b]] = data[b]

IInv == /\ TypeOK /\ AllListed /\ LockOwned /\ KeepsBlock /\ OneCopy /\ Clean
        /\ RefsExact /\ NoLostWakeup

-----------------------------------------------------------------------------
(* Types and the list.                                                     *)

\* The invariant holds after binit().
LEMMA InitInv == Init => IInv
  <1> SUFFICES ASSUME Init PROVE IInv
    BY Zenon
  <1> USE BioAssumption DEF Init, Bufs
  <1>1. TypeOK
    <2>1. order \in Seq(Bufs) /\ bp \in [Procs -> Bufs]
      OBVIOUS
    <2>2. valid \in [Bufs -> BOOLEAN]
      BY Zenon
    <2> QED
      BY <2>1, <2>2, Zenon DEF TypeOK, Counted
  <1>2. AllListed
    <2> SUFFICES ASSUME NEW b \in Bufs PROVE \E i \in 1 .. Len(order) : order[i] = b
      BY Zenon DEF AllListed
    <2>1. Len(order) = NBUF /\ NBUF + 1 - b \in 1 .. NBUF /\ order[NBUF + 1 - b] = b
      OBVIOUS
    <2> QED
      BY <2>1, Zenon
  <1>3. LockOwned /\ KeepsBlock /\ OneCopy /\ Clean /\ NoLostWakeup
    BY Zenon DEF LockOwned, KeepsBlock, OneCopy, Clean, NoLostWakeup, Counted, Locked, At
  <1>4. RefsExact
    <2>1. \A b \in Bufs : Users(b) = {}
      BY DEF Users
    <2>2. \A b \in Bufs : Cardinality(Users(b)) = 0
      BY <2>1, FS_EmptySet, Zenon
    <2> QED
      BY <2>2 DEF RefsExact
  <1> QED
    BY <1>1, <1>2, <1>3, <1>4, Zenon DEF IInv

\* brelse() puts its buffer first and keeps the others.
LEMMA MoveKeepsAll ==
  ASSUME TypeOK, AllListed, NEW b \in Bufs
  PROVE  /\ MoveToFront(b) \in Seq(Bufs)
         /\ \A c \in Bufs : \E i \in 1 .. Len(MoveToFront(b)) : MoveToFront(b)[i] = c
  <1> DEFINE k == CHOOSE i \in 1 .. Len(order) : order[i] = b
             front == SubSeq(order, 1, k - 1)
             back == SubSeq(order, k + 1, Len(order))
             new == <<b>> \o (front \o back)
  <1>0. order \in Seq(Bufs) /\ Len(order) \in Nat
    BY DEF TypeOK
  <1>1. k \in 1 .. Len(order) /\ order[k] = b
    BY Zenon DEF AllListed
  <1> HIDE DEF k
  <1>2. front \in Seq(Bufs) /\ Len(front) = k - 1
          /\ \A i \in 1 .. k - 1 : front[i] = order[i]
    BY <1>1 DEF TypeOK
  <1>3. back \in Seq(Bufs) /\ Len(back) = Len(order) - k
          /\ \A i \in 1 .. Len(order) - k : back[i] = order[k + i]
    BY <1>1 DEF TypeOK
  <1> HIDE DEF front, back
  <1>4. /\ new \in Seq(Bufs) /\ Len(new) = Len(order) /\ new[1] = b
        /\ \A i \in 1 .. k - 1 : new[i + 1] = order[i]
        /\ \A i \in k + 1 .. Len(order) : new[i] = order[i]
    <2> DEFINE rest == front \o back
    <2>1. /\ rest \in Seq(Bufs) /\ Len(rest) = Len(order) - 1
          /\ \A i \in 1 .. Len(order) - 1 :
               rest[i] = IF i <= k - 1 THEN front[i] ELSE back[i - (k - 1)]
      <3>1. /\ rest \in Seq(Bufs) /\ Len(rest) = Len(front) + Len(back)
            /\ \A i \in 1 .. Len(front) + Len(back) :
                 rest[i] = IF i <= Len(front) THEN front[i] ELSE back[i - Len(front)]
        BY <1>2, <1>3, ConcatProperties, Zenon
      <3> HIDE DEF rest
      <3> QED
        BY <1>0, <1>1, <1>2, <1>3, <3>1
    <2> HIDE DEF rest
    <2>2. <<b>> \in Seq(Bufs) /\ Len(<<b>>) = 1 /\ <<b>>[1] = b
      OBVIOUS
    <2>3. /\ new \in Seq(Bufs) /\ Len(new) = Len(order)
          /\ \A i \in 1 .. Len(order) : new[i] = IF i <= 1 THEN <<b>>[i] ELSE rest[i - 1]
      <3>1. new = <<b>> \o rest
        BY Zenon DEF rest
      <3> HIDE DEF new
      <3> QED
        BY <1>0, <1>1, <2>1, <2>2, <3>1, ConcatProperties
    <2> HIDE DEF new
    <2>4. \A i \in 1 .. k - 1 : new[i + 1] = order[i]
      BY <1>0, <1>1, <1>2, <2>1, <2>3
    <2>5. \A i \in k + 1 .. Len(order) : new[i] = order[i]
      BY <1>0, <1>1, <1>3, <2>1, <2>3
    <2> QED
      BY <1>0, <1>1, <2>2, <2>3, <2>4, <2>5
  <1> HIDE DEF new
  <1>5. ASSUME NEW c \in Bufs PROVE \E i \in 1 .. Len(new) : new[i] = c
    <2>1. PICK i \in 1 .. Len(order) : order[i] = c
      BY Zenon DEF AllListed
    <2>2. (i = k /\ new[1] = c) \/ (i < k /\ new[i + 1] = c) \/ (i > k /\ new[i] = c)
      BY <1>0, <1>1, <1>4, <2>1
    <2> QED
      BY <1>0, <1>1, <1>4, <2>2
  <1>6. MoveToFront(b) = new
    BY Zenon DEF MoveToFront, new, front, back, k
  <1> QED
    BY <1>4, <1>5, <1>6, Zenon

-----------------------------------------------------------------------------
(* Reference counts.                                                       *)

\* A buffer with refcnt 0 is neither in use nor pinned nor changed.
LEMMA Counts ==
  ASSUME IInv, NEW b \in Bufs
  PROVE  /\ IsFiniteSet(Users(b)) /\ Cardinality(Users(b)) \in Nat
         /\ Users(b) # {} => refcnt[b] >= 1
         /\ b \in pinned => refcnt[b] >= 1
         /\ refcnt[b] = 0 => Users(b) = {} /\ b \notin pinned /\ b \notin dirty
  <1>1. IsFiniteSet(Users(b)) /\ Cardinality(Users(b)) \in Nat
    BY FS_Subset, FS_CardinalityType, BioAssumption, Zenon DEF Users
  <1>2. Cardinality(Users(b)) = 0 <=> Users(b) = {}
    BY <1>1, FS_EmptySet, Zenon
  <1>3. refcnt[b] = Cardinality(Users(b)) + (IF b \in pinned THEN 1 ELSE 0)
    BY Zenon DEF IInv, RefsExact
  <1>4. b \in dirty => Users(b) # {}
    BY DEF IInv, Clean, Users
  <1> QED
    BY <1>1, <1>2, <1>3, <1>4

\* Steps that neither take nor drop a reference.
LEMMA SameRefs ==
  ASSUME IInv, UNCHANGED <<refcnt, pinned, bp>>,
         \A q \in Procs : pc'[q] \in Counted <=> pc[q] \in Counted
  PROVE  RefsExact'
  <1>1. ASSUME NEW b \in Bufs PROVE Users(b)' = Users(b)
    BY Zenon DEF Users, Counted
  <1> QED
    BY <1>1, Zenon DEF IInv, RefsExact

\* bget() takes a reference and counts it.
LEMMA TakesRef ==
  ASSUME IInv, NEW p \in Procs, NEW b \in Bufs, At(p, "idle"), Goto(p, "lock"),
         bp' = [bp EXCEPT ![p] = b], refcnt' = [refcnt EXCEPT ![b] = @ + 1], UNCHANGED pinned
  PROVE  RefsExact'
  <1> USE DEF IInv, TypeOK, At, Goto
  <1>1. ASSUME NEW c \in Bufs, c # b PROVE Users(c)' = Users(c)
    BY <1>1, Zenon DEF Users
  <1>2. Users(b)' = Users(b) \cup {p} /\ p \notin Users(b)
    BY DEF Users
  <1>3. Cardinality(Users(b)') = Cardinality(Users(b)) + 1
    BY <1>2, Counts, FS_AddElement, Zenon
  <1> QED
    BY <1>1, <1>3, Counts DEF RefsExact

\* log_write() takes a reference for its pin.
LEMMA PinsRef ==
  ASSUME IInv, UNCHANGED <<pc, bp>>, NEW b \in Bufs,
         b \notin pinned, pinned' = pinned \cup {b}, refcnt' = [refcnt EXCEPT ![b] = @ + 1]
  PROVE  RefsExact'
  <1>1. \A c \in Bufs : Users(c)' = Users(c) /\ Cardinality(Users(c)) \in Nat
    BY Counts, Zenon DEF Users
  <1> QED
    BY <1>1 DEF IInv, TypeOK, RefsExact

\* install_trans() gives it back.
LEMMA UnpinsRef ==
  ASSUME IInv, UNCHANGED <<pc, bp>>, NEW b \in Bufs,
         b \in pinned, pinned' = pinned \ {b}, refcnt' = [refcnt EXCEPT ![b] = @ - 1]
  PROVE  RefsExact' /\ refcnt' \in [Bufs -> Nat]
  <1>1. \A c \in Bufs : Users(c)' = Users(c) /\ Cardinality(Users(c)) \in Nat
    BY Counts, Zenon DEF Users
  <1>2. refcnt[b] >= 1 /\ refcnt \in [Bufs -> Nat]
    BY Counts, Zenon DEF IInv, TypeOK
  <1>3. refcnt' \in [Bufs -> Nat]
    BY <1>2
  <1>4. RefsExact'
    BY <1>1, <1>2 DEF IInv, RefsExact
  <1> QED
    BY <1>3, <1>4, Zenon

\* brelse() drops its reference.
LEMMA DropsRef ==
  ASSUME IInv, NEW p \in Procs, brelse(p)
  PROVE  RefsExact' /\ refcnt' \in [Bufs -> Nat]
  <1>0. PICK b \in Bufs : b = bp[p]
    BY Zenon DEF IInv, TypeOK
  <1>1. \A c \in Bufs : /\ IsFiniteSet(Users(c)) /\ Cardinality(Users(c)) \in Nat
                        /\ Users(c) # {} => refcnt[c] >= 1
    BY Counts, Zenon
  <1>2. refcnt \in [Bufs -> Nat] /\ refcnt' = [refcnt EXCEPT ![b] = @ - 1] /\ pinned' = pinned
    BY <1>0, Zenon DEF IInv, TypeOK, brelse
  <1>3. ASSUME NEW c \in Bufs, c # b PROVE Users(c)' = Users(c)
    BY <1>0, <1>3, Zenon DEF Users, IInv, TypeOK, brelse, Goto, At
  <1>4. Users(b)' = Users(b) \ {p} /\ p \in Users(b)
    BY <1>0 DEF Users, IInv, TypeOK, brelse, Goto, At
  <1>5. Cardinality(Users(b)') = Cardinality(Users(b)) - 1
    BY <1>1, <1>2, <1>4, FS_RemoveElement, Zenon
  <1>6. refcnt' \in [Bufs -> Nat]
    BY <1>1, <1>2, <1>4
  <1>7. RefsExact'
    BY <1>1, <1>2, <1>3, <1>5 DEF IInv, RefsExact
  <1> QED
    BY <1>6, <1>7, Zenon

-----------------------------------------------------------------------------
(* The inductive invariant.                                                *)

\* bget() of a cached block shares its buffer, which stays the only copy.
LEMMA Inv_bget_hit ==
  ASSUME IInv, NEW p \in Procs, NEW n \in Block, bget_hit(p, n)
  PROVE  IInv'
  <1>1. PICK b \in Bufs : /\ blockno[b] = n
                          /\ refcnt' = [refcnt EXCEPT ![b] = @ + 1]
                          /\ bp' = [bp EXCEPT ![p] = b]
    BY Zenon DEF bget_hit, Cached
  <1> USE <1>1 DEF bget_hit, IInv, TypeOK, At, Goto, Counted, Locked
  <1>2. TypeOK'
    OBVIOUS
  <1>3. AllListed' /\ Clean'
    BY Zenon DEF AllListed, Clean
  <1>4. LockOwned' /\ NoLostWakeup'
    BY DEF LockOwned, NoLostWakeup
  <1>5. KeepsBlock' /\ OneCopy'
    BY DEF KeepsBlock, OneCopy
  <1>6. RefsExact'
    BY TakesRef, Zenon
  <1> QED
    BY <1>2, <1>3, <1>4, <1>5, <1>6, Zenon

\* bget() recycles a buffer that nobody uses.
LEMMA RecycledUnused ==
  ASSUME IInv, NEW p \in Procs, NEW n \in Block, bget_recycle(p, n)
  PROVE  \E b \in Bufs : /\ refcnt[b] = 0
                         /\ blockno' = [blockno EXCEPT ![b] = n]
                         /\ valid' = [valid EXCEPT ![b] = FALSE]
                         /\ refcnt' = [refcnt EXCEPT ![b] = 1]
                         /\ bp' = [bp EXCEPT ![p] = b]
  <1>1. PICK i \in Unused : /\ blockno' = [blockno EXCEPT ![order[i]] = n]
                            /\ valid' = [valid EXCEPT ![order[i]] = FALSE]
                            /\ refcnt' = [refcnt EXCEPT ![order[i]] = 1]
                            /\ bp' = [bp EXCEPT ![p] = order[i]]
    BY Zenon DEF bget_recycle
  <1>2. order[i] \in Bufs /\ refcnt[order[i]] = 0
    BY DEF Unused, IInv, TypeOK
  <1> QED
    BY <1>1, <1>2, Zenon

\* bget() of a block that is not cached takes a buffer nobody uses, and there
\* is still one copy of the block.
LEMMA Inv_bget_recycle ==
  ASSUME IInv, NEW p \in Procs, NEW n \in Block, bget_recycle(p, n)
  PROVE  IInv'
  <1>1. PICK b \in Bufs : /\ refcnt[b] = 0
                          /\ blockno' = [blockno EXCEPT ![b] = n]
                          /\ valid' = [valid EXCEPT ![b] = FALSE]
                          /\ refcnt' = [refcnt EXCEPT ![b] = 1]
                          /\ bp' = [bp EXCEPT ![p] = b]
    BY RecycledUnused
  <1>2. b \notin pinned /\ b \notin dirty /\ \A q \in Procs : bp[q] = b => pc[q] \notin Counted
    BY <1>1, Counts, Zenon DEF Users, Counted
  <1>a. refcnt' = [refcnt EXCEPT ![b] = @ + 1]
    <2>1. refcnt[b] + 1 = 1
      BY <1>1
    <2> QED
      BY <1>1, <2>1, Zenon
  <1> USE <1>1, <1>2 DEF bget_recycle, IInv, TypeOK, At, Goto, Counted, Locked
  <1>3. TypeOK'
    BY Zenon
  <1>4. AllListed' /\ Clean'
    <2>1. ASSUME NEW c \in dirty' PROVE \E q \in Procs : pc'[q] = "have" /\ bp'[q] = c
      BY Zenon DEF Clean
    <2>2. ASSUME NEW c \in Bufs, valid'[c]
          PROVE  /\ blockno'[c] \in Block
                 /\ c \notin pinned' \cup dirty' => disk'[blockno'[c]] = data'[c]
      <3>1. c # b /\ blockno'[c] = blockno[c] /\ valid[c]
        BY <2>2, Zenon
      <3> QED
        BY <3>1 DEF Clean
    <2>3. AllListed'
      BY Zenon DEF AllListed
    <2> QED
      BY <2>1, <2>2, <2>3, Zenon DEF Clean
  <1>5. LockOwned' /\ NoLostWakeup'
    BY DEF LockOwned, NoLostWakeup
  <1>6. KeepsBlock'
    BY DEF KeepsBlock
  <1>7. OneCopy'
    BY DEF OneCopy, Cached
  <1>8. RefsExact'
    BY <1>a, TakesRef, Zenon
  <1> QED
    BY <1>3, <1>4, <1>5, <1>6, <1>7, <1>8, Zenon

\* bget() without a buffer to recycle changes nothing before it panics.
LEMMA Inv_bget_panic ==
  ASSUME IInv, NEW p \in Procs, NEW n \in Block, bget_panic(p, n)
  PROVE  IInv'
  <1> USE DEF bget_panic, buf, IInv, TypeOK, At, Goto, Counted, Locked
  <1>1. TypeOK' /\ AllListed' /\ OneCopy'
    BY Zenon DEF AllListed, OneCopy
  <1>2. LockOwned' /\ NoLostWakeup' /\ KeepsBlock'
    BY DEF LockOwned, NoLostWakeup, KeepsBlock
  <1>3. Clean'
    BY Zenon DEF Clean
  <1>4. RefsExact'
    BY SameRefs, Zenon
  <1> QED
    BY <1>1, <1>2, <1>3, <1>4, Zenon

\* acquiresleep() makes the caller the owner of the buffer.
LEMMA Inv_acquiresleep ==
  ASSUME IInv, NEW p \in Procs, acquiresleep(p)
  PROVE  IInv'
  <1> USE BioAssumption DEF acquiresleep, IInv, TypeOK, At, Goto, Counted, Locked
  <1>1. TypeOK' /\ AllListed' /\ OneCopy'
    BY Zenon DEF AllListed, OneCopy
  <1>2. LockOwned' /\ NoLostWakeup'
    BY DEF LockOwned, NoLostWakeup
  <1>3. KeepsBlock' /\ Clean'
    BY DEF Clean, KeepsBlock
  <1>4. RefsExact'
    BY SameRefs, Zenon
  <1> QED
    BY <1>1, <1>2, <1>3, <1>4, Zenon

\* acquiresleep() of a buffer that is locked sleeps, and the owner is to wake
\* the caller.
LEMMA Inv_acquiresleep_wait ==
  ASSUME IInv, NEW p \in Procs, acquiresleep_wait(p)
  PROVE  IInv'
  <1>0. locked[bp[p]] \in Procs \ {p}
    <2>1. PICK b \in Bufs : b = bp[p]
      BY Zenon DEF IInv, TypeOK
    <2>2. pc[p] = "lock" /\ locked[b] # None
      BY <2>1, Zenon DEF acquiresleep_wait, At
    <2>3. locked[b] \in Procs
      BY <2>2, Zenon DEF IInv, TypeOK
    <2>4. locked[b] # p
      BY <2>2, Zenon DEF IInv, LockOwned, Locked
    <2> QED
      BY <2>1, <2>3, <2>4, Zenon
  <1> USE BioAssumption DEF acquiresleep_wait, buf, IInv, TypeOK, At, Goto, Counted, Locked
  <1>1. TypeOK' /\ AllListed' /\ OneCopy'
    BY Zenon DEF AllListed, OneCopy
  <1>2. LockOwned' /\ NoLostWakeup'
    <2>1. LockOwned'
      BY DEF LockOwned
    <2>2. NoLostWakeup'
      BY <1>0, Zenon DEF NoLostWakeup
    <2> QED
      BY <2>1, <2>2, Zenon
  <1>3. KeepsBlock' /\ Clean'
    BY DEF Clean, KeepsBlock
  <1>4. RefsExact'
    BY SameRefs, Zenon
  <1> QED
    BY <1>1, <1>2, <1>3, <1>4, Zenon

\* bread() reads the disk unless the buffer is valid.
LEMMA BreadFills ==
  ASSUME IInv, NEW p \in Procs, NEW b \in Bufs, b = bp[p], bread(p)
  PROVE  /\ valid' = [valid EXCEPT ![b] = TRUE]
         /\ IF valid[b] THEN data' = data ELSE data' = [data EXCEPT ![b] = disk[blockno[b]]]
  <1>1. CASE valid[b]
    <2>1. valid = [valid EXCEPT ![b] = TRUE]
      BY <1>1, Zenon DEF IInv, TypeOK
    <2> QED
      BY <1>1, <2>1, Zenon DEF bread, Reads
  <1>2. CASE ~valid[b]
    BY <1>2, Zenon DEF bread, Reads
  <1> QED
    BY <1>1, <1>2, Zenon

\* bread() fills the buffer from the disk while the caller owns it.
LEMMA Inv_bread ==
  ASSUME IInv, NEW p \in Procs, bread(p)
  PROVE  IInv'
  <1>0. PICK b \in Bufs : b = bp[p]
    BY Zenon DEF IInv, TypeOK
  <1>1. At(p, "read") /\ Goto(p, "have")
          /\ UNCHANGED <<order, blockno, refcnt, locked, disk, pinned, dirty, bp, want>>
    BY Zenon DEF bread
  <1>2. b \notin dirty /\ blockno[b] \in Block
    BY <1>0, <1>1 DEF IInv, TypeOK, At, Clean, LockOwned, KeepsBlock, Locked, Counted
  <1>3. /\ valid' = [valid EXCEPT ![b] = TRUE]
        /\ IF valid[b] THEN data' = data ELSE data' = [data EXCEPT ![b] = disk[blockno[b]]]
    BY <1>0, BreadFills, Zenon
  <1> USE <1>0, <1>1 DEF IInv, TypeOK, At, Goto, Counted, Locked
  <1>4. TypeOK'
    BY <1>2, <1>3, Zenon
  <1>5. AllListed' /\ OneCopy'
    BY Zenon DEF AllListed, OneCopy
  <1>6. LockOwned' /\ NoLostWakeup'
    BY DEF LockOwned, NoLostWakeup
  <1>7. KeepsBlock'
    BY <1>3, Zenon DEF KeepsBlock
  <1>8. Clean'
    <2>1. \A c \in dirty' : \E q \in Procs : pc'[q] = "have" /\ bp'[q] = c
      BY Zenon DEF Clean
    <2>2. ASSUME NEW c \in Bufs, valid'[c]
          PROVE  /\ blockno'[c] \in Block
                 /\ c \notin pinned' \cup dirty' => disk'[blockno'[c]] = data'[c]
      <3>1. CASE c = b /\ ~valid[b]
        BY <1>2, <1>3, <3>1, Zenon
      <3>2. CASE valid[c] /\ data'[c] = data[c]
        BY <3>2, Zenon DEF Clean
      <3>3. CASE c # b \/ valid[b]
        <4>1. valid[c]
          BY <1>3, <2>2, <3>3, Zenon
        <4>2. data'[c] = data[c]
          BY <1>3, <3>3, Zenon
        <4> QED
          BY <3>2, <4>1, <4>2, Zenon
      <3> QED
        BY <3>1, <3>3, Zenon
    <2> QED
      BY <2>1, <2>2, Zenon DEF Clean
  <1>9. RefsExact'
    BY SameRefs, Zenon
  <1> QED
    BY <1>4, <1>5, <1>6, <1>7, <1>8, <1>9, Zenon

\* A caller changes only the buffer it owns, and has to write or pin it.
LEMMA Inv_modify ==
  ASSUME IInv, NEW p \in Procs, NEW v \in Value, modify(p, v)
  PROVE  IInv'
  <1> USE DEF modify, call, IInv, TypeOK, At, Counted, Locked
  <1>1. TypeOK' /\ AllListed' /\ OneCopy'
    BY Zenon DEF AllListed, OneCopy
  <1>2. NoLostWakeup' /\ LockOwned' /\ KeepsBlock'
    BY Zenon DEF LockOwned, NoLostWakeup, KeepsBlock
  <1>3. Clean'
    BY DEF Clean
  <1>4. RefsExact'
    BY SameRefs, Zenon
  <1> QED
    BY <1>1, <1>2, <1>3, <1>4, Zenon

\* bwrite() makes the disk agree with the buffer.
LEMMA Inv_bwrite ==
  ASSUME IInv, NEW p \in Procs, bwrite(p)
  PROVE  IInv'
  <1> USE DEF bwrite, buf, call, IInv, TypeOK, At, Counted, Locked
  <1>1. TypeOK' /\ AllListed' /\ OneCopy'
    BY Zenon DEF AllListed, OneCopy, KeepsBlock
  <1>2. NoLostWakeup' /\ LockOwned' /\ KeepsBlock'
    BY Zenon DEF LockOwned, NoLostWakeup, KeepsBlock
  <1>3. Clean'
    <2>1. ASSUME NEW c \in Bufs \ (pinned' \cup dirty'), valid'[c]
          PROVE  disk'[blockno'[c]] = data'[c]
      <3>1. CASE c = bp[p]
        BY <3>1, Zenon DEF KeepsBlock
      <3>2. CASE c # bp[p]
        BY <2>1, <3>2, Zenon DEF Clean, OneCopy
      <3> QED
        BY <3>1, <3>2, Zenon
    <2> QED
      BY <2>1, Zenon DEF Clean
  <1>4. RefsExact'
    BY SameRefs, Zenon
  <1> QED
    BY <1>1, <1>2, <1>3, <1>4, Zenon

\* log_write() of a new block pins its buffer.
LEMMA Inv_bpin ==
  ASSUME IInv, NEW p \in Procs, bpin(p)
  PROVE  IInv'
  <1>1. PICK b \in Bufs : b = bp[p]
    BY Zenon DEF IInv, TypeOK
  <1>2. /\ pc[p] = "have" /\ b \notin pinned
        /\ refcnt' = [refcnt EXCEPT ![b] = @ + 1]
        /\ pinned' = pinned \cup {b} /\ dirty' = dirty \ {b}
        /\ UNCHANGED <<order, blockno, valid, data, locked, disk, pc, bp, want>>
    BY <1>1, Zenon DEF bpin, At, call
  <1> USE <1>1, <1>2 DEF IInv, TypeOK, At, Counted, Locked
  <1>a. AllListed' /\ OneCopy'
    BY Zenon DEF AllListed, OneCopy
  <1>3. TypeOK'
    OBVIOUS
  <1>4. NoLostWakeup' /\ LockOwned' /\ KeepsBlock'
    BY Zenon DEF LockOwned, NoLostWakeup, KeepsBlock
  <1>5. Clean'
    BY DEF Clean
  <1>6. RefsExact'
    BY PinsRef, Zenon
  <1> QED
    BY <1>a, <1>3, <1>4, <1>5, <1>6, Zenon

\* log_write() of a block that the log has already adds no reference.
LEMMA Inv_absorb ==
  ASSUME IInv, NEW p \in Procs, absorb(p)
  PROVE  IInv'
  <1> USE DEF absorb, buf, call, IInv, TypeOK, At, Counted, Locked
  <1>1. TypeOK' /\ AllListed' /\ OneCopy'
    BY Zenon DEF AllListed, OneCopy
  <1>2. NoLostWakeup' /\ LockOwned' /\ KeepsBlock'
    BY Zenon DEF LockOwned, NoLostWakeup, KeepsBlock
  <1>3. Clean'
    BY DEF Clean
  <1>4. RefsExact'
    BY SameRefs, Zenon
  <1> QED
    BY <1>1, <1>2, <1>3, <1>4, Zenon

\* install_trans() writes the block home before it drops the pin.
LEMMA Inv_bunpin ==
  ASSUME IInv, NEW p \in Procs, bunpin(p)
  PROVE  IInv'
  <1>1. PICK b \in Bufs : b = bp[p]
    BY Zenon DEF IInv, TypeOK
  <1>2. /\ pc[p] = "have" /\ b \in pinned /\ disk[blockno[b]] = data[b]
        /\ refcnt' = [refcnt EXCEPT ![b] = @ - 1] /\ pinned' = pinned \ {b}
        /\ UNCHANGED <<order, blockno, valid, data, locked, disk, dirty, pc, bp, want>>
    BY <1>1 DEF bunpin, At, call
  <1>3. RefsExact' /\ refcnt' \in [Bufs -> Nat]
    BY <1>2, UnpinsRef, Zenon
  <1> USE <1>1, <1>2 DEF IInv, TypeOK, At, Counted, Locked
  <1>4. TypeOK' /\ AllListed' /\ OneCopy'
    BY <1>3, Zenon DEF AllListed, OneCopy
  <1>5. NoLostWakeup' /\ LockOwned' /\ KeepsBlock'
    BY Zenon DEF LockOwned, NoLostWakeup, KeepsBlock
  <1>6. Clean'
    BY DEF Clean
  <1> QED
    BY <1>3, <1>4, <1>5, <1>6, Zenon

\* releasesleep() wakes everyone who waits for this buffer.
LEMMA Inv_releasesleep ==
  ASSUME IInv, NEW p \in Procs, releasesleep(p)
  PROVE  IInv'
  <1>1. PICK b \in Bufs : b = bp[p]
    BY Zenon DEF IInv, TypeOK
  <1>2. /\ pc[p] = "have" /\ b \notin dirty
        /\ locked' = [locked EXCEPT ![b] = None]
        /\ pc' = [q \in Procs |-> IF q = p THEN "unref" ELSE
                                  IF pc[q] = "asleep" /\ bp[q] = b THEN "lock" ELSE pc[q]]
        /\ UNCHANGED <<order, blockno, valid, refcnt, data, disk, pinned, dirty, bp, want>>
    BY <1>1, Zenon DEF releasesleep, wakeup, At
  <1>3. ASSUME NEW q \in Procs, pc[q] \in Locked, q # p PROVE bp[q] # b
    <2>1. pc[p] \in Locked
      BY <1>2, Zenon DEF Locked
    <2>2. locked[bp[p]] = p /\ locked[bp[q]] = q
      BY <1>3, <2>1, Zenon DEF IInv, LockOwned
    <2> QED
      BY <1>1, <1>3, <2>2, Zenon
  <1> USE <1>1, <1>2 DEF IInv, TypeOK, At, Counted, Locked
  <1>4. TypeOK' /\ AllListed' /\ OneCopy'
    BY Zenon DEF AllListed, OneCopy
  <1>5. NoLostWakeup'
    BY Zenon DEF NoLostWakeup
  <1>6. LockOwned'
    BY <1>3 DEF LockOwned
  <1>7. KeepsBlock'
    BY Zenon DEF KeepsBlock
  <1>8. Clean'
    <2>1. ASSUME NEW c \in dirty' PROVE \E q \in Procs : pc'[q] = "have" /\ bp'[q] = c
      <3>1. PICK q \in Procs : pc[q] = "have" /\ bp[q] = c
        BY DEF Clean
      <3> QED
        BY <3>1, Zenon
    <2> QED
      BY <2>1, Zenon DEF Clean
  <1>9. RefsExact'
    BY SameRefs
  <1> QED
    BY <1>4, <1>5, <1>6, <1>7, <1>8, <1>9, Zenon

\* brelse() drops the reference and moves an unused buffer to the front.
LEMMA Inv_brelse ==
  ASSUME IInv, NEW p \in Procs, brelse(p)
  PROVE  IInv'
  <1>1. PICK b \in Bufs : b = bp[p]
    BY Zenon DEF IInv, TypeOK
  <1>2. RefsExact' /\ refcnt' \in [Bufs -> Nat]
    BY DropsRef, Zenon
  <1>3. order' \in Seq(Bufs) /\ AllListed'
    <2>1. CASE order' = order
      BY <2>1 DEF IInv, TypeOK, AllListed
    <2>2. CASE order' = MoveToFront(b)
      BY <2>2, MoveKeepsAll, Zenon DEF IInv, AllListed
    <2> QED
      BY <1>1, <2>1, <2>2, Zenon DEF brelse
  <1>4. /\ pc[p] = "unref" /\ pc' = [pc EXCEPT ![p] = "idle"]
        /\ want' = [want EXCEPT ![p] = NoBlock] /\ bp' = [bp EXCEPT ![p] = 1]
        /\ UNCHANGED <<blockno, valid, data, locked, disk, pinned, dirty>>
    BY Zenon DEF brelse, At, Goto
  <1>5. 1 \in Bufs
    BY BioAssumption DEF Bufs
  <1> USE <1>4, <1>5 DEF IInv, TypeOK, At, Counted, Locked
  <1>6. TypeOK'
    BY <1>2, <1>3, Zenon
  <1>7. OneCopy' /\ KeepsBlock'
    BY Zenon DEF OneCopy, KeepsBlock
  <1>8. LockOwned' /\ NoLostWakeup'
    BY DEF LockOwned, NoLostWakeup
  <1>9. Clean'
    BY Zenon DEF Clean
  <1> QED
    BY <1>2, <1>3, <1>6, <1>7, <1>8, <1>9, Zenon

\* Every step of every call preserves the invariant.
LEMMA NextInv ==
  ASSUME IInv, [Next]_vars
  PROVE  IInv'
  <1>1. CASE UNCHANGED vars
    <2>1. UNCHANGED <<order, blockno, valid, refcnt, data, locked, disk, pinned, dirty,
                      pc, bp, want>>
      BY <1>1, Zenon DEF vars, buf, call
    <2>2. RefsExact'
      BY <2>1, SameRefs
    <2> QED
      BY <2>1, <2>2, Zenon DEF IInv, TypeOK, AllListed, LockOwned, KeepsBlock, OneCopy,
         Clean, NoLostWakeup, At
  <1>2. ASSUME NEW p \in Procs, Begin(p) PROVE IInv'
    BY <1>2, Inv_bget_hit, Inv_bget_recycle, Inv_bget_panic, Zenon DEF Begin
  <1>3. ASSUME NEW p \in Procs, Step(p) PROVE IInv'
    BY <1>3, Inv_acquiresleep, Inv_acquiresleep_wait, Inv_bread, Inv_brelse, Zenon DEF Step
  <1>4. ASSUME NEW p \in Procs, Use(p) PROVE IInv'
    BY <1>4, Inv_modify, Inv_bwrite, Inv_bpin, Inv_absorb, Inv_bunpin, Zenon DEF Use
  <1>5. ASSUME NEW p \in Procs, releasesleep(p) PROVE IInv'
    BY <1>5, Inv_releasesleep
  <1> QED
    BY <1>1, <1>2, <1>3, <1>4, <1>5, Zenon DEF Next

\* The inductive invariant holds in every state of the cache.
THEOREM Invariance == Spec => []IInv
  <1>1. IInv /\ [Next]_vars => IInv'
    BY NextInv
  <1> QED
    BY <1>1, InitInv, PTL DEF Spec

\* refcnt counts the calls between bget() and brelse() and the log's pin.
THEOREM RefsCounted == Spec => []RefsExact
  <1>1. IInv => RefsExact
    BY DEF IInv
  <1> QED
    BY <1>1, Invariance, PTL

\* Nobody sleeps in acquiresleep() for a lock that is free.
THEOREM WakeupsKept == Spec => []NoLostWakeup
  <1>1. IInv => NoLostWakeup
    BY DEF IInv
  <1> QED
    BY <1>1, Invariance, PTL

-----------------------------------------------------------------------------
(* The cache is big enough.                                                *)

\* When bget() finds nothing to recycle every buffer is pinned or in use.
LEMMA AllInUse ==
  ASSUME IInv, Unused = {}
  PROVE  \A b \in Bufs : b \in pinned \/ \E q \in Procs : bp[q] = b /\ pc[q] \in Counted
  <1> SUFFICES ASSUME NEW b \in Bufs, b \notin pinned
               PROVE  \E q \in Procs : bp[q] = b /\ pc[q] \in Counted
    BY Zenon
  <1>1. PICK i \in 1 .. Len(order) : order[i] = b
    BY Zenon DEF IInv, AllListed
  <1>2. refcnt[b] # 0
    BY <1>1, Zenon DEF Unused
  <1>3. Cardinality(Users(b)) # 0
    <2>1. Cardinality(Users(b)) \in Nat
      BY Counts, Zenon
    <2>2. refcnt[b] = Cardinality(Users(b)) + 0
      BY Zenon DEF IInv, RefsExact
    <2> QED
      BY <1>2, <2>1, <2>2
  <1>4. Users(b) # {}
    BY <1>3, FS_EmptySet, Zenon
  <1> QED
    BY <1>4, Zenon DEF Users, Counted

\* bget() panics only when the callers and the log need NBUF buffers at once.
LEMMA PanicNeedsAll ==
  ASSUME IInv, NEW p \in Procs, NEW n \in Block, bget_panic(p, n)
  PROVE  Cardinality(pinned)
           + Cardinality({q \in Procs : pc[q] \notin {"idle", "panic"}}) >= NBUF
  <1> DEFINE U == {q \in Procs : pc[q] \notin {"idle", "panic"}}
             T == {bp[q] : q \in U}
             f == [q \in U |-> bp[q]]
  <1>1. Bufs \subseteq pinned \cup T
    BY AllInUse, Zenon DEF bget_panic, Counted
  <1>2. IsFiniteSet(U) /\ Cardinality(U) \in Nat
    BY FS_Subset, FS_CardinalityType, BioAssumption, Zenon
  <1>3. f \in Surjection(U, T)
    BY Zenon DEF Surjection
  <1>4. IsFiniteSet(T) /\ Cardinality(T) <= Cardinality(U)
    BY <1>2, <1>3, FS_Surjection, Zenon
  <1>5. IsFiniteSet(Bufs) /\ Cardinality(Bufs) = NBUF
    BY BioAssumption, FS_Interval DEF Bufs
  <1>6. IsFiniteSet(pinned)
    BY <1>5, FS_Subset, Zenon DEF IInv, TypeOK
  <1> HIDE DEF U, T, f
  <1>7. /\ IsFiniteSet(pinned \cup T)
        /\ Cardinality(pinned \cup T)
             = Cardinality(pinned) + Cardinality(T) - Cardinality(pinned \cap T)
    BY <1>4, <1>6, FS_Union, Zenon
  <1>8. IsFiniteSet(pinned \cap T)
    BY <1>6, FS_Subset, Zenon
  <1>9. /\ Cardinality(pinned) \in Nat /\ Cardinality(T) \in Nat
        /\ Cardinality(pinned \cap T) \in Nat /\ Cardinality(pinned \cup T) \in Nat
    BY <1>4, <1>6, <1>7, <1>8, FS_CardinalityType, Zenon
  <1>10. NBUF <= Cardinality(pinned \cup T)
    BY <1>1, <1>5, <1>7, FS_Subset, Zenon
  <1>11. Cardinality(pinned) + Cardinality(U) >= NBUF
    BY <1>2, <1>4, <1>7, <1>9, <1>10, BioAssumption
  <1> QED
    BY <1>11, Zenon DEF U

\* bget() gives up only when NBUF buffers are really needed at once.
THEOREM NoBufferLost == Spec => BuffersSuffice
  <1>1. IInv /\ [Next]_vars =>
          [\A p \in Procs, n \in Block : bget_panic(p, n) =>
             Cardinality(pinned)
               + Cardinality({q \in Procs : pc[q] \notin {"idle", "panic"}}) >= NBUF]_vars
    BY PanicNeedsAll
  <1> QED
    BY <1>1, Invariance, PTL DEF Spec, BuffersSuffice

-----------------------------------------------------------------------------
(* The cache is a store of blocks.                                         *)

\* What the invariant makes of Content and Owner: a valid buffer shows its
\* block, the disk shows the others, and an owner is who has the buffer.
Typed == Content \in [Block -> Value] /\ Owner \in [Block -> Procs \cup {None}]
CacheShown == \A b \in Bufs : valid[b] => Content[blockno[b]] = data[b]
DiskShown == \A n \in Block :
    (\A b \in Bufs : blockno[b] = n => ~valid[b]) => Content[n] = disk[n]
Owned == \A n \in Block, p \in Procs : Owner[n] = p <=> pc[p] = "have" /\ want[p] = n

Shown == Typed /\ CacheShown /\ DiskShown /\ Owned

\* Two calls that have the same block are the same call.
LEMMA OneOwner ==
  ASSUME IInv, NEW p \in Procs, NEW q \in Procs, pc[p] = "have", pc[q] = "have",
         want[p] = want[q]
  PROVE  p = q
  <1>1. bp[p] \in Bufs /\ bp[q] \in Bufs
    BY Zenon DEF IInv, TypeOK
  <1>2. want[p] \in Block /\ blockno[bp[p]] = want[p] /\ blockno[bp[q]] = want[p]
    BY Zenon DEF IInv, KeepsBlock, Counted
  <1>3. bp[p] = bp[q]
    BY <1>1, <1>2, Zenon DEF IInv, OneCopy
  <1>4. locked[bp[p]] = p /\ locked[bp[q]] = q
    BY Zenon DEF IInv, LockOwned, Locked
  <1> QED
    BY <1>3, <1>4, Zenon

\* What the invariant says about the content and the owner of a block, as the
\* steps of the refinement use it.
LEMMA InvShown == IInv => Shown
  <1> SUFFICES ASSUME IInv PROVE Shown
    BY Zenon
  <1>1. ASSUME NEW b \in Bufs, valid[b] PROVE blockno[b] \in Block /\ Content[blockno[b]] = data[b]
    <2>1. blockno[b] \in Block
      BY <1>1, Zenon DEF IInv, Clean
    <2>2. \A c \in Cached(blockno[b]) : c = b
      BY <2>1, Zenon DEF IInv, OneCopy, Cached
    <2>3. b \in Cached(blockno[b])
      BY Zenon DEF Cached
    <2>4. (CHOOSE c \in Cached(blockno[b]) : valid[c]) = b
      BY <1>1, <2>2, <2>3, Zenon
    <2> QED
      BY <1>1, <2>1, <2>3, <2>4, Zenon DEF Content
  <1>2. ASSUME NEW n \in Block, \A b \in Bufs : blockno[b] = n => ~valid[b]
        PROVE  Content[n] = disk[n]
    BY <1>2, Zenon DEF Content, Cached
  <1>3. Content \in [Block -> Value]
    <2>1. ASSUME NEW n \in Block PROVE Content[n] \in Value
      <3>1. CASE \A b \in Bufs : blockno[b] = n => ~valid[b]
        BY <1>2, <3>1, Zenon DEF IInv, TypeOK
      <3>2. CASE \E b \in Bufs : blockno[b] = n /\ valid[b]
        BY <1>1, <3>2 DEF IInv, TypeOK
      <3> QED
        BY <3>1, <3>2, Zenon
    <2> QED
      BY <2>1, Zenon DEF Content
  <1>4. ASSUME NEW n \in Block, NEW p \in Procs, pc[p] = "have", want[p] = n
        PROVE  Owner[n] = p
    <2>1. \A q \in Procs : At(q, "have") /\ want[q] = n => q = p
      BY <1>4, OneOwner, Zenon DEF At
    <2>2. (CHOOSE q \in Procs : At(q, "have") /\ want[q] = n) = p
      BY <1>4, <2>1, Zenon DEF At
    <2> QED
      BY <1>4, <2>2, Zenon DEF Owner, At
  <1>5. ASSUME NEW n \in Block, \A p \in Procs : ~(pc[p] = "have" /\ want[p] = n)
        PROVE  Owner[n] = None
    BY <1>5, Zenon DEF Owner, At
  <1>6. Owner \in [Block -> Procs \cup {None}]
    <2>1. \A n \in Block : Owner[n] \in Procs \cup {None}
      BY <1>4, <1>5, Zenon
    <2> QED
      BY <2>1, Zenon DEF Owner
  <1> QED
    BY <1>1, <1>2, <1>3, <1>4, <1>5, <1>6, BioAssumption DEF Shown, Typed, CacheShown,
       DiskShown, Owned

\* The same of the state after the step.
LEMMA ShownNext == IInv' => Shown'
  BY InvShown, PTL

\* A step that changes nobody's hold on a block keeps the owners.
LEMMA SameOwner ==
  ASSUME Shown, Shown',
         \A q \in Procs : /\ pc'[q] = "have" <=> pc[q] = "have"
                          /\ pc[q] = "have" => want'[q] = want[q]
  PROVE  Owner' = Owner
  <1>1. ASSUME NEW n \in Block PROVE Owner'[n] = Owner[n]
    BY BioAssumption DEF Shown, Typed, Owned
  <1> QED
    BY <1>1 DEF Shown, Typed

\* A step that changes neither buffers nor disk keeps the contents.
LEMMA SameContent ==
  ASSUME Shown, Shown', UNCHANGED <<blockno, valid, data, disk>>, IInv
  PROVE  Content' = Content
  <1>1. ASSUME NEW n \in Block PROVE Content'[n] = Content[n]
    <2>1. CASE \E b \in Bufs : blockno[b] = n /\ valid[b]
      BY <2>1 DEF Shown, CacheShown
    <2>2. CASE \A b \in Bufs : blockno[b] = n => ~valid[b]
      BY <2>2, Zenon DEF Shown, DiskShown
    <2> QED
      BY <2>1, <2>2, Zenon
  <1> QED
    BY <1>1 DEF Shown, Typed

\* Recycling a buffer forgets nothing: its block is on the disk.
LEMMA RecycleKeeps ==
  ASSUME IInv, Shown, Shown', NEW p \in Procs, NEW n \in Block, bget_recycle(p, n)
  PROVE  Content' = Content /\ Owner' = Owner
  <1>1. PICK b \in Bufs : /\ refcnt[b] = 0
                          /\ blockno' = [blockno EXCEPT ![b] = n]
                          /\ valid' = [valid EXCEPT ![b] = FALSE]
    BY RecycledUnused
  <1>2. b \notin pinned /\ b \notin dirty
    BY <1>1, Counts, Zenon
  <1>3. data' = data /\ disk' = disk /\ \A c \in Bufs : blockno[c] # n
    BY Zenon DEF bget_recycle, Cached
  <1>4. ASSUME NEW m \in Block PROVE Content'[m] = Content[m]
    <2>1. CASE \E c \in Bufs : blockno[c] = m /\ valid[c] /\ c # b
      <3>1. PICK c \in Bufs : blockno[c] = m /\ valid[c] /\ c # b
        BY <2>1
      <3>2. blockno'[c] = m /\ valid'[c]
        BY <1>1, <3>1, Zenon DEF IInv, TypeOK
      <3> QED
        BY <1>3, <3>1, <3>2 DEF Shown, CacheShown
    <2>2. CASE \A c \in Bufs : blockno[c] = m /\ valid[c] => c = b
      <3>1. Content[m] = disk[m]
        <4>1. CASE blockno[b] = m /\ valid[b]
          BY <1>2, <4>1, Zenon DEF Shown, CacheShown, IInv, Clean
        <4>2. CASE ~(blockno[b] = m /\ valid[b])
          BY <2>2, <4>2 DEF Shown, DiskShown
        <4> QED
          BY <4>1, <4>2, Zenon
      <3>2. \A c \in Bufs : blockno'[c] = m => ~valid'[c]
        BY <1>1, <2>2, Zenon DEF IInv, TypeOK
      <3>3. Content'[m] = disk'[m]
        BY <3>2, Zenon DEF Shown, DiskShown
      <3> QED
        BY <1>3, <3>1, <3>3
    <2> QED
      BY <2>1, <2>2, Zenon
  <1>5. Content' = Content
    BY <1>4 DEF Shown, Typed
  <1>6. Owner' = Owner
    BY SameOwner, Zenon DEF bget_recycle, At, Goto, IInv, TypeOK
  <1> QED
    BY <1>5, <1>6, Zenon

\* bread() takes the block, whose content is in the cache or comes from the disk.
LEMMA BreadTakes ==
  ASSUME IInv, Shown, Shown', NEW p \in Procs, bread(p)
  PROVE  want[p] \in Block /\ Store!Take(p, want[p])
  <1>0. PICK b \in Bufs : b = bp[p]
    BY Zenon DEF IInv, TypeOK
  <1> DEFINE n == want[p]
  <1>1. /\ pc[p] = "read" /\ pc' = [pc EXCEPT ![p] = "have"]
        /\ UNCHANGED <<blockno, disk, want, bp, locked>>
    BY DEF bread, At, Goto
  <1>2. n \in Block /\ blockno[b] = n
    BY <1>0, <1>1, Zenon DEF IInv, KeepsBlock, Counted
  <1>3. /\ valid' = [valid EXCEPT ![b] = TRUE]
        /\ IF valid[b] THEN data' = data ELSE data' = [data EXCEPT ![b] = disk[blockno[b]]]
    BY <1>0, BreadFills, Zenon
  <1>4. ASSUME NEW q \in Procs, pc[q] = "have" PROVE want[q] # n
    <2> SUFFICES ASSUME want[q] = n PROVE FALSE
      BY Zenon
    <2>1. bp[q] = b
      BY <1>2, <1>4 DEF IInv, TypeOK, OneCopy, KeepsBlock, Counted
    <2>2. locked[b] = p /\ locked[b] = q
      BY <1>0, <1>1, <1>4, <2>1 DEF IInv, LockOwned, Locked
    <2> QED
      BY <1>1, <1>4, <2>2, Zenon
  <1>5. Owner[n] = None
    BY <1>2, <1>4 DEF Shown, Typed, Owned
  <1>6. Owner' = [Owner EXCEPT ![n] = p]
    <2>1. ASSUME NEW m \in Block, m # n PROVE Owner'[m] = Owner[m]
      <3>1. \A q \in Procs : Owner'[m] = q <=> Owner[m] = q
        <4>1. \A q \in Procs : pc'[q] = "have" /\ want'[q] = m <=> pc[q] = "have" /\ want[q] = m
          BY <1>1, <2>1, Zenon DEF IInv, TypeOK
        <4> QED
          BY <4>1 DEF Shown, Owned
      <3>2. Owner[m] \in Procs \cup {None} /\ Owner'[m] \in Procs \cup {None}
        BY Zenon DEF Shown, Typed
      <3> QED
        BY <3>1, <3>2, Zenon
    <2>2. Owner'[n] = p
      <3>1. pc'[p] = "have" /\ want'[p] = n
        BY <1>1 DEF IInv, TypeOK
      <3> QED
        BY <1>2, <3>1, Zenon DEF Shown, Owned
    <2> QED
      BY <2>1, <2>2, Zenon DEF Shown, Typed
  <1>7. ASSUME NEW m \in Block PROVE Content'[m] = Content[m]
    <2>1. CASE \A c \in Bufs : blockno[c] = m => ~valid[c] /\ c # b
      <3>1. \A c \in Bufs : blockno'[c] = m => ~valid'[c]
        BY <1>1, <1>3, <2>1, Zenon DEF IInv, TypeOK
      <3> QED
        BY <1>1, <2>1, <3>1, Zenon DEF Shown, DiskShown
    <2>2. CASE m = n
      <3>1. Content'[m] = data'[b]
        BY <1>1, <1>2, <1>3, <2>2, Zenon DEF Shown, CacheShown, IInv, TypeOK
      <3>2. CASE valid[b]
        BY <1>2, <1>3, <2>2, <3>1, <3>2, Zenon DEF Shown, CacheShown
      <3>3. CASE ~valid[b]
        <4>1. \A c \in Bufs : blockno[c] = n => ~valid[c]
          BY <1>2, <3>3, Zenon DEF IInv, OneCopy
        <4> QED
          BY <1>2, <1>3, <2>2, <3>1, <3>3, <4>1 DEF Shown, DiskShown, IInv, TypeOK
      <3> QED
        BY <3>2, <3>3, Zenon
    <2>3. CASE \E c \in Bufs : blockno[c] = m /\ valid[c] /\ c # b
      BY <1>1, <1>3, <2>3 DEF Shown, CacheShown, IInv, TypeOK
    <2> QED
      BY <1>2, <2>1, <2>2, <2>3
  <1>8. Content' = Content
    BY <1>7 DEF Shown, Typed
  <1> QED
    BY <1>2, <1>5, <1>6, <1>8, Zenon DEF Store!Take

\* A caller that changes its buffer changes the block it asked for.
LEMMA ModifyChanges ==
  ASSUME IInv, Shown, Shown', NEW p \in Procs, NEW v \in Value, modify(p, v)
  PROVE  want[p] \in Block /\ Store!Change(p, want[p])
  <1>0. PICK b \in Bufs : b = bp[p]
    BY Zenon DEF IInv, TypeOK
  <1>1. /\ pc[p] = "have" /\ data' = [data EXCEPT ![b] = v]
        /\ UNCHANGED <<blockno, valid, disk, pc, bp, want>>
    BY <1>0 DEF modify, At, call
  <1>2. want[p] \in Block /\ blockno[b] = want[p] /\ valid[b]
    BY <1>0, <1>1, Zenon DEF IInv, KeepsBlock, Counted
  <1>3. Owner[want[p]] = p /\ Owner' = Owner
    <2>1. Owner[want[p]] = p
      BY <1>1, <1>2 DEF Shown, Owned
    <2> QED
      BY <1>1, <2>1, SameOwner, Zenon
  <1>4. ASSUME NEW m \in Block, m # want[p] PROVE Content'[m] = Content[m]
    <2>1. CASE \A c \in Bufs : blockno[c] = m => ~valid[c]
      BY <1>1, <2>1, Zenon DEF Shown, DiskShown
    <2>2. CASE \E c \in Bufs : blockno[c] = m /\ valid[c]
      <3>1. PICK c \in Bufs : blockno[c] = m /\ valid[c]
        BY <2>2
      <3>2. data'[c] = data[c]
        BY <1>1, <1>2, <1>4, <3>1, Zenon DEF IInv, TypeOK
      <3> QED
        BY <1>1, <3>1, <3>2, Zenon DEF Shown, CacheShown
    <2> QED
      BY <2>1, <2>2, Zenon
  <1>5. Content'[want[p]] = v
    BY <1>1, <1>2, Zenon DEF Shown, CacheShown, IInv, TypeOK
  <1>6. Content' = [Content EXCEPT ![want[p]] = v]
    BY <1>4, <1>5 DEF Shown, Typed
  <1> QED
    BY <1>2, <1>3, <1>6, Zenon DEF Store!Change

\* bwrite() puts on the disk what the cache already shows.
LEMMA BwriteKeeps ==
  ASSUME IInv, Shown, Shown', NEW p \in Procs, bwrite(p)
  PROVE  Content' = Content /\ Owner' = Owner
  <1>0. PICK b \in Bufs : b = bp[p]
    BY Zenon DEF IInv, TypeOK
  <1>1. /\ pc[p] = "have" /\ disk' = [disk EXCEPT ![blockno[b]] = data[b]]
        /\ UNCHANGED <<blockno, valid, data, pc, want>>
    BY <1>0, Zenon DEF bwrite, At, buf, call
  <1>2. valid[b]
    BY <1>0, <1>1, Zenon DEF IInv, KeepsBlock
  <1>3. ASSUME NEW m \in Block PROVE Content'[m] = Content[m]
    <2>1. CASE \E c \in Bufs : blockno[c] = m /\ valid[c]
      BY <1>1, <2>1 DEF Shown, CacheShown
    <2>2. CASE \A c \in Bufs : blockno[c] = m => ~valid[c]
      <3>1. blockno[b] # m
        BY <1>2, <2>2, Zenon
      <3>2. disk'[m] = disk[m]
        BY <1>1, <3>1, Zenon DEF IInv, TypeOK
      <3> QED
        BY <1>1, <2>2, <3>2, Zenon DEF Shown, DiskShown
    <2> QED
      BY <2>1, <2>2, Zenon
  <1>4. Content' = Content
    BY <1>3 DEF Shown, Typed
  <1>5. Owner' = Owner
    BY <1>1, SameOwner
  <1> QED
    BY <1>4, <1>5, Zenon

\* releasesleep() gives the block back.
LEMMA ReleaseGives ==
  ASSUME IInv, Shown, Shown', NEW p \in Procs, releasesleep(p)
  PROVE  want[p] \in Block /\ Store!Give(p, want[p])
  <1>1. /\ pc[p] = "have"
        /\ pc' = [q \in Procs |-> IF q = p THEN "unref" ELSE
                                  IF pc[q] = "asleep" /\ bp[q] = bp[p] THEN "lock" ELSE pc[q]]
        /\ UNCHANGED <<blockno, valid, data, disk, want>>
    BY Zenon DEF releasesleep, wakeup, At
  <1>2. want[p] \in Block
    BY <1>1, Zenon DEF IInv, KeepsBlock, Counted
  <1>3. Owner[want[p]] = p
    BY <1>1, <1>2, Zenon DEF Shown, Owned
  <1>4. Owner' = [Owner EXCEPT ![want[p]] = None]
    <2>1. ASSUME NEW m \in Block, m # want[p] PROVE Owner'[m] = Owner[m]
      <3>1. \A q \in Procs : pc'[q] = "have" /\ want'[q] = m <=> pc[q] = "have" /\ want[q] = m
        BY <1>1, <2>1, Zenon
      <3>2. \A q \in Procs : Owner'[m] = q <=> Owner[m] = q
        BY <3>1 DEF Shown, Owned
      <3>3. Owner[m] \in Procs \cup {None} /\ Owner'[m] \in Procs \cup {None}
        BY Zenon DEF Shown, Typed
      <3> QED
        BY <3>2, <3>3, Zenon
    <2>2. ASSUME NEW q \in Procs PROVE Owner'[want[p]] # q
      <3>1. ~(pc'[q] = "have" /\ want'[q] = want[p])
        BY <1>1, OneOwner, Zenon
      <3> QED
        BY <1>2, <3>1 DEF Shown, Owned
    <2>3. Owner'[want[p]] = None
      BY <1>2, <2>2, Zenon DEF Shown, Typed
    <2> QED
      BY <2>1, <2>3, Zenon DEF Shown, Typed
  <1>5. Content' = Content
    BY <1>1, SameContent
  <1> QED
    BY <1>2, <1>3, <1>4, <1>5, Zenon DEF Store!Give

\* The other calls change neither a content nor an owner.
LEMMA OthersStutter ==
  ASSUME IInv, Shown, Shown', NEW p \in Procs,
         \/ \E n \in Block : bget_hit(p, n) \/ bget_panic(p, n)
         \/ acquiresleep(p) \/ acquiresleep_wait(p) \/ brelse(p)
         \/ bpin(p) \/ absorb(p) \/ bunpin(p)
  PROVE  Content' = Content /\ Owner' = Owner
  <1>1. UNCHANGED <<blockno, valid, data, disk>>
    BY Zenon DEF bget_hit, bget_panic, acquiresleep, acquiresleep_wait, brelse, bpin, absorb,
       bunpin, buf
  <1>2. \A q \in Procs : /\ pc'[q] = "have" <=> pc[q] = "have"
                         /\ pc[q] = "have" => want'[q] = want[q]
    <2>1. CASE \E n \in Block : bget_hit(p, n) \/ bget_panic(p, n)
      BY <2>1 DEF bget_hit, bget_panic, At, Goto, IInv, TypeOK
    <2>2. CASE acquiresleep(p) \/ acquiresleep_wait(p) \/ brelse(p)
      BY <2>2, Zenon DEF acquiresleep, acquiresleep_wait, brelse, At, Goto, IInv, TypeOK
    <2>3. CASE bpin(p) \/ absorb(p) \/ bunpin(p)
      BY <2>3, Zenon DEF bpin, absorb, bunpin, call
    <2> QED
      BY <2>1, <2>2, <2>3
  <1> QED
    BY <1>1, <1>2, SameContent, SameOwner, Zenon

\* Every step of the cache is a step of the store or changes nothing in it.
LEMMA StepImplements ==
  ASSUME IInv, IInv', [Next]_vars
  PROVE  [Store!Next]_(Store!vars)
  <1>1. Shown /\ Shown'
    BY InvShown, ShownNext, Zenon
  <1>2. CASE UNCHANGED vars
    <2>1. UNCHANGED <<blockno, valid, data, disk, pc, want>>
      BY <1>2, Zenon DEF vars
    <2>2. Content' = Content /\ Owner' = Owner
      BY <1>1, <2>1, SameContent, SameOwner, Zenon
    <2> QED
      BY <2>2, Zenon DEF Store!vars
  <1>3. ASSUME NEW p \in Procs, NEW n \in Block,
               Store!Take(p, n) \/ Store!Change(p, n) \/ Store!Give(p, n)
        PROVE  Store!Next
    BY <1>3 DEF Store!Next
  <1>4. ASSUME NEW p \in Procs, Begin(p) PROVE UNCHANGED Store!vars
    BY <1>1, <1>4, RecycleKeeps, OthersStutter, Zenon DEF Begin, Store!vars
  <1>5. ASSUME NEW p \in Procs, Step(p) PROVE Store!Next \/ UNCHANGED Store!vars
    BY <1>1, <1>3, <1>5, BreadTakes, OthersStutter, Zenon DEF Step, Store!vars
  <1>6. ASSUME NEW p \in Procs, Use(p) PROVE Store!Next \/ UNCHANGED Store!vars
    BY <1>1, <1>3, <1>6, ModifyChanges, BwriteKeeps, OthersStutter, Zenon DEF Use, Store!vars
  <1>7. ASSUME NEW p \in Procs, releasesleep(p) PROVE Store!Next
    BY <1>1, <1>3, <1>7, ReleaseGives, Zenon
  <1> QED
    BY <1>2, <1>4, <1>5, <1>6, <1>7, Zenon DEF Next

\* The cache implements one store of blocks with a lock each.
THEOREM CacheImplementsStore == Spec => CacheIsStore
  <1>1. Init => Store!Init
    <2> SUFFICES ASSUME Init PROVE Store!Init
      BY Zenon
    <2>1. Shown
      BY InitInv, InvShown, Zenon
    <2>2. \A n \in Block : Owner[n] = None
      BY <2>1 DEF Init, Shown, Typed, Owned
    <2>3. Owner = [n \in Block |-> None]
      BY <2>1, <2>2, Zenon DEF Shown, Typed
    <2> QED
      BY <2>1, <2>3, Zenon DEF Store!Init, Shown, Typed
  <1>2. IInv /\ IInv' /\ [Next]_vars => [Store!Next]_(Store!vars)
    BY StepImplements
  <1> QED
    BY <1>1, <1>2, Invariance, PTL DEF Spec, CacheIsStore, Store!Spec

=============================================================================
