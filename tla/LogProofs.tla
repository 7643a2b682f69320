------------------------------ MODULE LogProofs ------------------------------
(* The write-ahead log of Log.tla: its inductive invariant, and that it    *)
(* implements AtomicDisk and writes ahead, for any processes, blocks and   *)
(* contents and any size of the log.                                       *)
EXTENDS Log, FiniteSetTheorems, TLAPS

USE DEF RecoverPC, CommitPC, InOpPC, PC, LogIndex

-----------------------------------------------------------------------------
(* The initial states, and the steps of calls and of the buffer cache.     *)

\* The inductive invariant holds when the machine first boots from a fresh
\* disk: an empty log header, an empty cache, and only init running.
LEMMA InitInv == Init => IInv
  <1> SUFFICES ASSUME Init PROVE IInv
    BY Zenon
  <1> USE ProcsAssumption, ValAssumption, SizeAssumption DEF Init
  <1>1. TypeOK
    <2>1. lh \in Seq(Blocks) /\ Len(lh) = 0 /\ diskHead \in Seq(Blocks) /\ Len(diskHead) = 0
      OBVIOUS
    <2>2. pc \in [Procs -> PC] /\ wrote \in [Procs -> SUBSET Blocks]
      BY Zenon
    <2>3. pin \in [Blocks -> 0..1] /\ tail \in 0..SIZE /\ diskLog \in [LogIndex -> Val]
      OBVIOUS
    <2>4. cache \in [Blocks -> Val \cup {NoBuf}] /\ holder \in [Blocks -> Procs \cup {NoProc}]
      BY Zenon
    <2>5. committing \in BOOLEAN
      BY Zenon
    <2>6. outstanding \in Nat
      BY Zenon
    <2> QED
      BY <2>1, <2>2, <2>3, <2>4, <2>5, <2>6 DEF TypeOK
  <1>2. RecoverAlone
    BY FS_EmptySet, Zenon
       DEF RecoverAlone, Booted, Logged, Contents, Installed, Copied, Distinct, InOps
  <1>3. OneCommitter
    BY FS_EmptySet DEF OneCommitter, Booted, Logged, Contents, Installed, Copied, Distinct, InOps
  <1>4. OpsCounted
    BY Zenon, FS_EmptySet
       DEF OpsCounted, Booted, Logged, Contents, Installed, Copied, Distinct, InOps
  <1>5. LogInUse
    BY FS_EmptySet, Zenon DEF LogInUse, Booted, Logged, Contents, Installed, Copied, Distinct, InOps
  <1>6. HeadPhase
    BY FS_EmptySet DEF HeadPhase, Booted, Logged, Contents, Installed, Copied, Distinct, InOps
  <1>7. LogContents
    BY FS_EmptySet, Zenon
       DEF LogContents, Booted, Logged, Contents, Installed, Copied, Distinct, InOps
  <1>8. CacheCoherent
    BY FS_EmptySet DEF CacheCoherent, Booted, Logged, Contents, Installed, Copied, Distinct, InOps
  <1>9. NoLostWakeup
    BY FS_EmptySet, Zenon
       DEF NoLostWakeup, Booted, Logged, Contents, Installed, Copied, Distinct, InOps
  <1> QED
    BY <1>1, <1>2, <1>3, <1>4, <1>5, <1>6, <1>7, <1>8, <1>9, Zenon DEF IInv

\* A system call that is about to enter begin_op() changes nothing shared.
LEMMA Inv_call ==
  ASSUME IInv, NEW p \in Procs, call(p)
  PROVE  IInv'
  <1> USE ProcsAssumption, ValAssumption, SizeAssumption DEF call, IInv, disk, bufs, log
  <1>1. TypeOK'
    BY Zenon DEF TypeOK
  <1>2. RecoverAlone'
    BY Zenon DEF TypeOK, RecoverAlone, Booted
  <1>3. OneCommitter'
    BY DEF TypeOK, RecoverAlone, OneCommitter, Booted
  <1>4. OpsCounted'
    <2>1. InOps' = InOps
      BY Zenon DEF InOps, TypeOK
    <2> QED
      BY <2>1, Zenon DEF OpsCounted
  <1>5. LogInUse'
    BY Zenon DEF TypeOK, RecoverAlone, OneCommitter, LogInUse, Booted
  <1>6. HeadPhase'
    BY DEF TypeOK, RecoverAlone, OneCommitter, LogInUse, HeadPhase, Distinct, Booted
  <1>7. LogContents'
    BY SMTT(60)
       DEF TypeOK, RecoverAlone, OneCommitter, LogInUse, HeadPhase, Distinct, LogContents,
           Copied, Installed, Contents, Booted
  <1>8. CacheCoherent'
    BY DEF TypeOK, RecoverAlone, OneCommitter, LogInUse, HeadPhase, Distinct, LogContents,
           Copied, Installed, CacheCoherent, Contents, Logged, Booted
  <1>9. NoLostWakeup'
    BY Zenon DEF TypeOK, NoLostWakeup, RecoverAlone, OneCommitter, Booted
  <1> QED
    BY <1>1, <1>2, <1>3, <1>4, <1>5, <1>6, <1>7, <1>8, <1>9, Zenon

\* begin_op() that joins the current group keeps the invariant: the count
\* of outstanding calls goes up with the set of calls.
LEMMA Inv_begin_op ==
  ASSUME IInv, NEW p \in Procs, begin_op(p)
  PROVE  IInv'
  <1> USE ProcsAssumption, ValAssumption, SizeAssumption DEF begin_op, IInv, disk, bufs, log
  <1>1. TypeOK'
    BY DEF TypeOK, LogFull, LogInUse
  <1>2. RecoverAlone'
    BY Zenon DEF TypeOK, RecoverAlone, Booted, LogFull, LogInUse
  <1>3. OneCommitter'
    BY Zenon DEF TypeOK, RecoverAlone, OneCommitter, Booted, LogFull, LogInUse
  <1>4. OpsCounted'
    <2>1. InOps' = InOps \cup {p} /\ p \notin InOps
      BY DEF InOps, TypeOK
    <2>2. IsFiniteSet(InOps)
      BY FS_Subset DEF InOps
    <2> QED
      BY Zenon, <2>1, <2>2, FS_AddElement DEF OpsCounted
  <1>5. LogInUse'
    BY DEF TypeOK, RecoverAlone, OneCommitter, LogInUse, Booted, LogFull, LogInUse
  <1>6. HeadPhase'
    BY DEF TypeOK, RecoverAlone, OneCommitter, LogInUse, HeadPhase, Distinct, Booted,
           LogFull, LogInUse
  <1>7. LogContents'
    BY SMTT(60)
       DEF TypeOK, RecoverAlone, OneCommitter, LogInUse, HeadPhase, Distinct, LogContents,
           Copied, Installed, Contents, Booted, LogFull, LogInUse
  <1>8. CacheCoherent'
    BY SMTT(60)
       DEF TypeOK, RecoverAlone, OneCommitter, LogInUse, HeadPhase, Distinct, LogContents,
           Copied, Installed, CacheCoherent, Contents, Logged, Booted, LogFull, LogInUse
  <1>9. NoLostWakeup'
    BY DEF TypeOK, NoLostWakeup, RecoverAlone, OneCommitter, Booted, LogFull, LogInUse
  <1> QED
    BY <1>1, <1>2, <1>3, <1>4, <1>5, <1>6, <1>7, <1>8, <1>9, Zenon

\* begin_op() that goes to sleep on &log does so with somebody left to wake it.
LEMMA Inv_begin_op_sleep ==
  ASSUME IInv, NEW p \in Procs, begin_op_sleep(p)
  PROVE  IInv'
  <1> USE ProcsAssumption, ValAssumption, SizeAssumption DEF begin_op_sleep, IInv, disk, bufs, log
  <1>1. TypeOK'
    BY Zenon DEF TypeOK, LogFull, LogInUse
  <1>2. RecoverAlone'
    BY Zenon DEF TypeOK, RecoverAlone, Booted, LogFull, LogInUse
  <1>3. OneCommitter'
    BY DEF TypeOK, RecoverAlone, OneCommitter, Booted, LogFull, LogInUse
  <1>4. OpsCounted'
    <2>1. InOps' = InOps
      BY Zenon DEF InOps, TypeOK
    <2> QED
      BY <2>1, Zenon DEF OpsCounted
  <1>5. LogInUse'
    BY Zenon DEF TypeOK, RecoverAlone, OneCommitter, LogInUse, Booted, LogFull, LogInUse
  <1>6. HeadPhase'
    BY DEF TypeOK, RecoverAlone, OneCommitter, LogInUse, HeadPhase, Distinct, Booted,
           LogFull, LogInUse
  <1>7. LogContents'
    BY SMTT(60)
       DEF TypeOK, RecoverAlone, OneCommitter, LogInUse, HeadPhase, Distinct, LogContents,
           Copied, Installed, Contents, Booted, LogFull, LogInUse
  <1>8. CacheCoherent'
    BY SMTT(60)
       DEF TypeOK, RecoverAlone, OneCommitter, LogInUse, HeadPhase, Distinct, LogContents,
           Copied, Installed, CacheCoherent, Contents, Logged, Booted, LogFull, LogInUse
  <1>9. NoLostWakeup'
    <2>1. committing \/ outstanding > 0
      <3>1. CASE committing
        BY <3>1, Zenon
      <3>2. CASE ~committing /\ outstanding = 0
        <4>1. lh = <<>>
          BY <3>2 DEF LogInUse, RecoverAlone, Booted, TypeOK
        <4>2. Len(lh) = 0
          BY <4>1, Zenon
        <4> QED
          BY <3>2, <4>2 DEF LogFull
      <3> QED
        BY <3>1, <3>2 DEF TypeOK
    <2> QED
      BY <2>1, Zenon DEF TypeOK, NoLostWakeup
  <1> QED
    BY <1>1, <1>2, <1>3, <1>4, <1>5, <1>6, <1>7, <1>8, <1>9, Zenon

\* end_op() keeps the invariant in each of its branches: the last call out
\* becomes the committer, any other wakes the sleepers.
LEMMA Inv_end_op ==
  ASSUME IInv, NEW p \in Procs, end_op(p)
  PROVE  IInv'
  <1> USE ProcsAssumption, ValAssumption, SizeAssumption DEF IInv, disk, bufs, log
  <1>a. ~committing
    BY Zenon DEF end_op, OneCommitter
  <1>b. /\ pc[p] = "op"
        /\ ~Holds(p)
        /\ outstanding' = outstanding - 1
        /\ wrote' = [wrote EXCEPT ![p] = {}]
        /\ UNCHANGED <<home, diskHead, diskLog, cache, pin, holder, lh>>
        /\ LogLockFree
    BY Zenon DEF end_op
  <1>c. \/ /\ outstanding' = 0
           /\ committing' = TRUE
           /\ tail' = 1
           /\ pc' = [pc EXCEPT ![p] = IF lh = <<>> THEN "finish" ELSE "write_log"]
        \/ /\ outstanding' # 0
           /\ pc' = [wakeup(pc) EXCEPT ![p] = "idle"]
           /\ UNCHANGED <<committing, tail>>
    BY <1>a DEF end_op
  <1>d. Booted /\ Booted'
    BY ZenonT(60), <1>b, <1>c DEF RecoverAlone, Booted, TypeOK, wakeup
  <1>e. /\ outstanding' = Cardinality(InOps')
        /\ outstanding' \in Nat
        /\ outstanding' = 0 => InOps' = {}
    <2>1. InOps' = InOps \ {p} /\ p \in InOps
      BY Zenon, <1>b, <1>c DEF InOps, TypeOK, wakeup
    <2>2. IsFiniteSet(InOps)
      BY FS_Subset, Zenon DEF InOps
    <2>3. IsFiniteSet(InOps') /\ Cardinality(InOps') = Cardinality(InOps) - 1
      BY <2>1, <2>2, FS_RemoveElement, Zenon
    <2> QED
      BY <2>3, <1>b, FS_EmptySet, FS_CardinalityType, Zenon DEF OpsCounted
  <1>f. \A q \in Procs : pc[q] \notin CommitPC
    BY <1>a, Zenon DEF OneCommitter
  <1>g. \A q \in Procs : pc'[q] \in CommitPC =>
          q = p /\ outstanding' = 0 /\ pc'[p] = IF lh = <<>> THEN "finish" ELSE "write_log"
    BY Zenon, <1>b, <1>c, <1>f DEF TypeOK, wakeup
  <1>h. \A q \in Procs : pc'[q] \notin RecoverPC /\ pc[q] \notin RecoverPC
    BY Zenon, <1>b, <1>c, <1>d DEF RecoverAlone, Booted, TypeOK, wakeup
  <1>1. TypeOK'
    <2>1. pc' \in [Procs -> PC]
      BY ZenonT(60), <1>b, <1>c DEF TypeOK, wakeup
    <2>2. tail' \in 0..SIZE
      BY <1>c DEF TypeOK
    <2>3. committing' \in BOOLEAN
      BY <1>c, Zenon DEF TypeOK
    <2> QED
      BY Zenon, <1>b, <1>e, <2>1, <2>2, <2>3 DEF TypeOK
  <1>2. RecoverAlone'
    BY <1>d, <1>h, Zenon DEF RecoverAlone
  <1>3. OneCommitter'
    <2>1. CASE outstanding' = 0
      <3>1. \A q \in Procs : pc'[q] \notin InOpPC
        BY <2>1, <1>e, Zenon DEF InOps
      <3>2. committing' = TRUE /\ pc'[p] \in CommitPC
        BY <2>1, <1>c, Zenon DEF TypeOK
      <3> QED
        BY <3>1, <3>2, <1>g, Zenon DEF OneCommitter
    <2>2. CASE outstanding' # 0
      BY <2>2, <1>a, <1>c, <1>g DEF OneCommitter
    <2> QED
      BY <2>1, <2>2, Zenon
  <1>4. OpsCounted'
    BY <1>e, Zenon DEF OpsCounted
  <1>5. LogInUse'
    <2>1. lh # <<>> => Len(lh) \in Nat /\ Len(lh) > 0
      BY DEF TypeOK
    <2>2. outstanding' > 0 \/ committing'
      BY <1>c, <1>e
    <2>3. ASSUME NEW q \in Procs, pc'[q] \in {"write_log", "install", "rinstall"}
          PROVE  tail' \in 1..Len(lh)
      <3>1. pc'[q] \in CommitPC
        BY <2>3, <1>h, Zenon
      <3>2. q = p /\ outstanding' = 0 /\ lh # <<>>
        BY <3>1, <2>3, <1>g, Zenon
      <3> QED
        BY <3>2, <2>1, <1>c
    <2>4. \A q \in Procs : (pc'[q] = "finish" => lh = <<>>) /\ pc'[q] # "write_head"
      BY <1>g, Zenon
    <2> QED
      BY <1>b, <1>h, <2>2, <2>3, <2>4, Zenon DEF LogInUse
  <1>6. HeadPhase'
    <2>1. diskHead = <<>>
      BY <1>f, <1>h, Zenon DEF HeadPhase
    <2>2. \A q \in Procs : pc'[q] \notin {"install", "clear", "rinstall", "rclear"}
      BY <1>g, <1>h, Zenon
    <2>3. Distinct(lh)' /\ Distinct(diskHead)'
      BY <1>b, Zenon DEF HeadPhase, Distinct
    <2> QED
      BY <1>b, <2>1, <2>2, <2>3, Zenon DEF HeadPhase
  <1>i. \A i \in 1..Len(lh) : ~Installed(i) /\ ~Installed(i)'
    BY <1>f, <1>g, <1>h, Zenon DEF Installed
  <1>7. LogContents'
    <2>1. \A i \in 1..Len(lh) : ~Copied(i)'
      BY SMTT(60), <1>c, <1>g DEF Copied
    <2> QED
      BY <1>b, <1>i, <2>1, Zenon DEF LogContents
  <1>8. CacheCoherent'
    <2>1. \A q \in Procs : pc[q] # "panic"
      BY <1>b, Zenon DEF LogLockFree
    <2>2. \A b \in Blocks : Contents(b)' = Contents(b)
      BY <1>b, Zenon DEF Contents
    <2>3. Logged' = Logged
      BY <1>b, Zenon DEF Logged
    <2> QED
      BY <1>b, <1>d, <1>i, <2>1, <2>2, <2>3, Zenon DEF CacheCoherent, TypeOK
  <1>9. NoLostWakeup'
    BY <1>c, <1>e DEF NoLostWakeup
  <1> QED
    BY <1>1, <1>2, <1>3, <1>4, <1>5, <1>6, <1>7, <1>8, <1>9, Zenon

\* bread() keeps the invariant: a buffer it loads holds what is on the disk.
LEMMA Inv_bread ==
  ASSUME IInv, NEW p \in Procs, NEW b \in Blocks, bread(p, b)
  PROVE  IInv'
  <1> USE ProcsAssumption, ValAssumption, SizeAssumption DEF bread, IInv, disk, bufs, log
  <1>1. TypeOK'
    BY Zenon DEF TypeOK, Contents
  <1>2. RecoverAlone'
    BY Zenon DEF TypeOK, RecoverAlone, Booted, Contents
  <1>3. OneCommitter'
    BY Zenon DEF TypeOK, RecoverAlone, OneCommitter, Booted, Contents
  <1>4. OpsCounted'
    <2>1. InOps' = InOps
      BY Zenon DEF InOps, TypeOK
    <2> QED
      BY <2>1, Zenon DEF OpsCounted
  <1>5. LogInUse'
    BY Zenon DEF TypeOK, RecoverAlone, OneCommitter, LogInUse, Booted, Contents
  <1>6. HeadPhase'
    BY DEF TypeOK, RecoverAlone, OneCommitter, LogInUse, HeadPhase, Distinct, Booted, Contents
  <1>7. LogContents'
    <2>1. \A c \in Blocks : Contents(c)' = Contents(c)
      BY Zenon DEF TypeOK, Contents
    <2>2. \A i : (Copied(i)' <=> Copied(i)) /\ (Installed(i)' <=> Installed(i))
      BY Zenon DEF Copied, Installed
    <2> QED
      BY <2>1, <2>2 DEF LogContents, TypeOK
  <1>8. CacheCoherent'
    BY SMTT(60)
       DEF TypeOK, RecoverAlone, OneCommitter, LogInUse, HeadPhase, Distinct, LogContents,
           Copied, Installed, CacheCoherent, Contents, Logged, Booted
  <1>9. NoLostWakeup'
    BY Zenon DEF TypeOK, NoLostWakeup, RecoverAlone, OneCommitter, Booted, Contents
  <1> QED
    BY <1>1, <1>2, <1>3, <1>4, <1>5, <1>6, <1>7, <1>8, <1>9, Zenon

\* brelse() keeps the invariant.
LEMMA Inv_brelse ==
  ASSUME IInv, NEW p \in Procs, NEW b \in Blocks, brelse(p, b)
  PROVE  IInv'
  <1> USE ProcsAssumption, ValAssumption, SizeAssumption DEF brelse, IInv, disk, bufs, log
  <1>1. TypeOK'
    BY Zenon DEF TypeOK
  <1>2. RecoverAlone'
    BY Zenon DEF TypeOK, RecoverAlone, Booted
  <1>3. OneCommitter'
    BY Zenon DEF TypeOK, RecoverAlone, OneCommitter, Booted
  <1>4. OpsCounted'
    <2>1. InOps' = InOps
      BY Zenon DEF InOps, TypeOK
    <2> QED
      BY <2>1, Zenon DEF OpsCounted
  <1>5. LogInUse'
    BY Zenon DEF TypeOK, RecoverAlone, OneCommitter, LogInUse, Booted
  <1>6. HeadPhase'
    BY DEF TypeOK, RecoverAlone, OneCommitter, LogInUse, HeadPhase, Distinct, Booted
  <1>7. LogContents'
    <2>1. \A c \in Blocks : Contents(c)' = Contents(c)
      BY Zenon DEF Contents
    <2>2. \A i : (Copied(i)' <=> Copied(i)) /\ (Installed(i)' <=> Installed(i))
      BY Zenon DEF Copied, Installed
    <2> QED
      BY SMTT(60), <2>1, <2>2 DEF LogContents, TypeOK
  <1>8. CacheCoherent'
    BY SMTT(60)
       DEF TypeOK, RecoverAlone, OneCommitter, LogInUse, HeadPhase, Distinct, LogContents,
           Copied, Installed, CacheCoherent, Contents, Logged, Booted
  <1>9. NoLostWakeup'
    BY Zenon DEF TypeOK, NoLostWakeup, RecoverAlone, OneCommitter, Booted
  <1> QED
    BY <1>1, <1>2, <1>3, <1>4, <1>5, <1>6, <1>7, <1>8, <1>9, Zenon

\* log_write() keeps the invariant, whether it appends and pins the block,
\* absorbs it or panics.
LEMMA Inv_log_write ==
  ASSUME IInv, NEW p \in Procs, NEW b \in Blocks, NEW v \in Val, log_write(p, b, v)
  PROVE  IInv'
  <1> USE ProcsAssumption, ValAssumption, SizeAssumption DEF IInv, disk
  <1>a. /\ pc[p] = "op" /\ holder[b] = p /\ LogLockFree
        /\ cache' = [cache EXCEPT ![b] = v]
        /\ wrote' = [wrote EXCEPT ![p] = @ \cup {b}]
        /\ UNCHANGED <<home, diskHead, diskLog, holder, outstanding, committing, tail>>
    BY Zenon DEF log_write
  <1>b. \/ /\ pc' = [pc EXCEPT ![p] = "panic"]
           /\ UNCHANGED <<lh, pin>>
        \/ /\ b \in Logged
           /\ UNCHANGED <<lh, pin, pc>>
        \/ /\ b \notin Logged /\ Len(lh) < SIZE - 1
           /\ lh' = Append(lh, b) /\ pin' = [pin EXCEPT ![b] = @ + 1]
           /\ UNCHANGED pc
    BY DEF log_write, TooBig, TypeOK
  <1>c. /\ \A q \in Procs : pc[q] \notin CommitPC /\ pc'[q] \notin CommitPC
        /\ \A q \in Procs : pc[q] \notin RecoverPC /\ pc'[q] \notin RecoverPC
        /\ ~committing
    BY SMTT(60), <1>a, <1>b DEF OneCommitter, RecoverAlone, Booted, TypeOK
  <1>d. Booted /\ Booted'
    BY <1>c, Zenon DEF Booted
  <1>e. \A i : ~Copied(i) /\ ~Copied(i)' /\ ~Installed(i) /\ ~Installed(i)'
    BY <1>c, Zenon DEF Copied, Installed
  <1>f. b \notin Logged => pin[b] = 0
    BY SMTT(60) DEF CacheCoherent, Logged, TypeOK
  <1>g. lh' \in Seq(Blocks) /\ Len(lh') <= SIZE - 1
    <2>1. CASE lh' = lh
      BY <2>1, Zenon DEF TypeOK
    <2>2. CASE Len(lh) < SIZE - 1 /\ lh' = Append(lh, b)
      <3>1. lh' \in Seq(Blocks) /\ Len(lh') = Len(lh) + 1 /\ Len(lh) \in Nat
        BY <2>2 DEF TypeOK
      <3> QED
        BY <2>2, <3>1
    <2> QED
      BY <1>b, <2>1, <2>2, Zenon
  <1>h. \/ lh' = lh
        \/ /\ Len(lh') = Len(lh) + 1 /\ lh'[Len(lh) + 1] = b
           /\ \A i \in 1..Len(lh) : lh'[i] = lh[i]
           /\ b \notin Logged /\ pin' = [pin EXCEPT ![b] = @ + 1]
    BY SMTT(60), <1>b DEF TypeOK
  <1>i. /\ pc' \in [Procs -> PC]
        /\ \A q \in Procs : q # p => pc'[q] = pc[q]
        /\ pc'[p] \in {"op", "panic"}
    BY <1>a, <1>b, Zenon DEF TypeOK
  <1>1. TypeOK'
    <2>1. pin' \in [Blocks -> 0..1]
      BY <1>b, <1>f DEF TypeOK
    <2> QED
      BY ZenonT(60), <1>a, <1>g, <1>i, <2>1 DEF TypeOK
  <1>2. RecoverAlone'
    BY <1>c, <1>d, Zenon DEF RecoverAlone
  <1>3. OneCommitter'
    BY <1>a, <1>c, Zenon DEF OneCommitter
  <1>4. OpsCounted'
    <2>1. InOps' = InOps
      BY <1>a, <1>i, Zenon DEF InOps
    <2> QED
      BY <1>a, <2>1, Zenon DEF OpsCounted
  <1>j. p \in InOps /\ outstanding > 0
    <2>1. p \in InOps /\ IsFiniteSet(InOps)
      BY <1>a, FS_Subset, Zenon DEF InOps
    <2>2. Cardinality(InOps) # 0 /\ Cardinality(InOps) \in Nat
      BY <2>1, FS_EmptySet, FS_CardinalityType, Zenon
    <2> QED
      BY SMTT(60), <2>1, <2>2 DEF OpsCounted
  <1>5. LogInUse'
    BY <1>a, <1>c, <1>j, Zenon DEF LogInUse
  <1>6. HeadPhase'
    <2>1. Distinct(lh)'
      <3>1. CASE lh' = lh
        BY <3>1, Zenon DEF HeadPhase, Distinct
      <3>2. CASE lh' # lh
        <4>1. \A i \in 1..Len(lh) : lh[i] # b
          BY <1>h, <3>2, Zenon DEF Logged
        <4>2. Len(lh) \in Nat
          BY DEF TypeOK
        <4>3. /\ \A i \in 1..Len(lh') : i \in 1..Len(lh) \/ i = Len(lh) + 1
              /\ \A i \in 1..Len(lh) : lh'[i] = lh[i]
              /\ lh'[Len(lh) + 1] = b
          BY <1>h, <3>2, <4>2
        <4>4. \A i, j \in 1..Len(lh) : lh[i] = lh[j] => i = j
          BY Zenon DEF HeadPhase, Distinct
        <4> HIDE DEF IInv
        <4> QED
          BY <4>1, <4>3, <4>4, Zenon DEF Distinct
      <3> QED
        BY <3>1, <3>2, Zenon
    <2> QED
      BY <1>a, <1>c, <2>1 DEF HeadPhase, Distinct
  <1>7. LogContents'
    BY Zenon, <1>e DEF LogContents
  <1>8. CacheCoherent'
    <2>1. \A c \in Blocks : c # b => cache'[c] = cache[c] /\ Contents(c)' = Contents(c)
      BY <1>a, Zenon DEF Contents, TypeOK
    <2>2. cache'[b] = v
      BY <1>a, Zenon DEF TypeOK
    <2>3. \A c \in Blocks : c # b => pin'[c] = pin[c]
      BY <1>b, Zenon DEF TypeOK
    <2>4. \A c \in Blocks : c # b => (c \in Logged' <=> c \in Logged)
      <3>1. CASE lh' = lh
        BY <3>1, Zenon DEF Logged
      <3>2. CASE lh' # lh
        <4>1. \A i \in 1..Len(lh') : i \in 1..Len(lh) \/ i = Len(lh) + 1
          BY <1>h, <3>2 DEF TypeOK
        <4>2. \A i \in 1..Len(lh) : i \in 1..Len(lh')
          BY <1>h, <3>2 DEF TypeOK
        <4> QED
          BY <1>h, <3>2, <4>1, <4>2, Zenon DEF Logged
      <3> QED
        BY <3>1, <3>2, Zenon
    <2>5. \A q \in Procs : pc[q] # "panic"
      BY <1>a, Zenon DEF LogLockFree
    <2>6. \A c \in Blocks : c \notin Logged' =>
            Contents(c)' = home'[c] \/ (pc'[p] = "panic" /\ holder'[c] = p)
      <3>1. ASSUME b \notin Logged' PROVE pc'[p] = "panic"
        <4>1. CASE lh' = Append(lh, b)
          <5>1. lh'[Len(lh) + 1] = b /\ Len(lh) + 1 \in 1..Len(lh')
            BY <4>1 DEF TypeOK
          <5> QED
            BY <3>1, <5>1, Zenon DEF Logged
        <4>2. CASE b \in Logged /\ lh' = lh
          BY <3>1, <4>2, Zenon DEF Logged
        <4> QED
          BY <1>b, <4>1, <4>2, Zenon DEF TypeOK
      <3> QED
        BY <1>a, <2>1, <2>4, <2>5, <3>1, Zenon DEF CacheCoherent
    <2>7. \A i \in 1..Len(lh') : pin'[lh'[i]] = 1
      <3>1. \A i \in 1..Len(lh) : pin[lh[i]] = 1 /\ lh[i] \in Blocks
        BY SMTT(60), <1>d, <1>e DEF CacheCoherent, TypeOK
      <3>2. CASE lh' = lh /\ pin' = pin
        BY <3>1, <3>2, Zenon
      <3>3. CASE lh' = Append(lh, b) /\ pin' = [pin EXCEPT ![b] = @ + 1] /\ b \notin Logged
        <4>1. pin'[b] = 1
          BY SMTT(60), <3>3, <1>f DEF TypeOK
        <4>2. \A i \in 1..Len(lh) : lh'[i] = lh[i] /\ lh[i] # b
          BY <3>3 DEF TypeOK, Logged
        <4>3. Len(lh') = Len(lh) + 1 /\ lh'[Len(lh) + 1] = b
          BY <3>3 DEF TypeOK
        <4>4. \A i \in 1..Len(lh') : i \in 1..Len(lh) \/ i = Len(lh) + 1
          BY SMTT(60), <4>3 DEF TypeOK
        <4> QED
          BY SMTT(60), <3>1, <2>3, <4>1, <4>2, <4>3, <4>4
      <3> QED
        BY <1>b, <3>2, <3>3, Zenon
    <2>8. \A c \in Blocks : pin'[c] = 1 => \E i \in 1..Len(lh') : lh'[i] = c
      <3>1. \A c \in Blocks : pin[c] = 1 => \E i \in 1..Len(lh) : lh[i] = c
        BY Zenon DEF CacheCoherent
      <3>2. CASE lh' = lh /\ pin' = pin
        BY <3>1, <3>2, Zenon
      <3>3. CASE lh' = Append(lh, b)
        <4>1. Len(lh) + 1 \in 1..Len(lh') /\ lh'[Len(lh) + 1] = b
          BY SMTT(60), <3>3 DEF TypeOK
        <4>2. \A i \in 1..Len(lh) : lh'[i] = lh[i] /\ i \in 1..Len(lh')
          BY SMTT(60), <3>3 DEF TypeOK
        <4> QED
          BY <3>1, <2>3, <4>1, <4>2, Zenon
      <3> QED
        BY <1>b, <3>2, <3>3, Zenon
    <2>9. \A c \in Blocks : pin'[c] > 0 \/ holder'[c] # NoProc => cache'[c] # NoBuf
      BY SMTT(60), <1>a, <2>1, <2>2, <2>3 DEF CacheCoherent
    <2> QED
      BY Zenon, <1>d, <1>e, <2>6, <2>7, <2>8, <2>9 DEF CacheCoherent
  <1>9. NoLostWakeup'
    BY ZenonT(60), <1>a, <1>j DEF NoLostWakeup
  <1> QED
    BY <1>1, <1>2, <1>3, <1>4, <1>5, <1>6, <1>7, <1>8, <1>9, Zenon

\* bget() may recycle an unpinned, unlocked buffer: the block it held was not
\* in the log, so the disk has its contents.
LEMMA Inv_recycle ==
  ASSUME IInv, NEW b \in Blocks, recycle(b)
  PROVE  IInv'
  <1> USE ProcsAssumption, ValAssumption, SizeAssumption DEF recycle, IInv, disk, bufs, log
  <1>1. TypeOK'
    BY Zenon DEF TypeOK
  <1>2. RecoverAlone'
    BY Zenon DEF TypeOK, RecoverAlone, Booted
  <1>3. OneCommitter'
    BY Zenon DEF TypeOK, RecoverAlone, OneCommitter, Booted
  <1>4. OpsCounted'
    <2>1. InOps' = InOps
      BY Zenon DEF InOps, TypeOK
    <2> QED
      BY <2>1, Zenon DEF OpsCounted
  <1>5. LogInUse'
    BY Zenon DEF TypeOK, RecoverAlone, OneCommitter, LogInUse, Booted
  <1>6. HeadPhase'
    BY SMTT(60) DEF TypeOK, RecoverAlone, OneCommitter, LogInUse, HeadPhase, Distinct, Booted
  <1>7. LogContents'
    <2>1. \A c \in Blocks : c # b => Contents(c)' = Contents(c)
      BY Zenon DEF TypeOK, Contents
    <2>2. Contents(b)' = home[b]
      BY Zenon DEF TypeOK, Contents
    <2>3. \A i : (Copied(i)' <=> Copied(i)) /\ (Installed(i)' <=> Installed(i))
      BY Zenon DEF Copied, Installed
    <2>4. ASSUME NEW i \in 1..Len(lh), Copied(i), lh[i] = b
          PROVE  diskLog[i] = home[b]
      <3>1. Booted
        BY <2>4, Zenon DEF Copied, RecoverAlone, Booted, TypeOK
      <3>2. Installed(i)
        BY SMTT(60), <2>4, <3>1 DEF CacheCoherent
      <3> QED
        BY <2>4, <3>2, Zenon DEF LogContents
    <2> QED
      BY SMTT(60), <2>1, <2>2, <2>3, <2>4 DEF LogContents, TypeOK
  <1>8. CacheCoherent'
    BY SMTT(60)
       DEF TypeOK, RecoverAlone, OneCommitter, LogInUse, HeadPhase, Distinct, LogContents,
           Copied, Installed, CacheCoherent, Contents, Logged, Booted
  <1>9. NoLostWakeup'
    BY DEF TypeOK, NoLostWakeup, RecoverAlone, OneCommitter, Booted
  <1> QED
    BY ZenonT(60), <1>1, <1>2, <1>3, <1>4, <1>5, <1>6, <1>7, <1>8, <1>9

-----------------------------------------------------------------------------
(* Commits, crashes and recovery, and what follows from the invariant.     *)

\* One block copied by write_log() keeps the invariant: it lands in a log
\* block no header on disk refers to.
LEMMA Inv_write_log ==
  ASSUME IInv, NEW p \in Procs, write_log(p)
  PROVE  IInv'
  <1> USE ProcsAssumption, ValAssumption, SizeAssumption DEF write_log, IInv, disk, bufs, log
  <1>1. TypeOK'
    BY DEF TypeOK, LogInUse, Contents
  <1>2. RecoverAlone'
    BY Zenon DEF TypeOK, RecoverAlone, Booted, Contents
  <1>3. OneCommitter'
    BY DEF TypeOK, RecoverAlone, OneCommitter, Booted, Contents
  <1>4. OpsCounted'
    <2>1. InOps' = InOps
      BY Zenon DEF InOps, TypeOK
    <2> QED
      BY <2>1, Zenon DEF OpsCounted
  <1>5. LogInUse'
    BY DEF TypeOK, RecoverAlone, OneCommitter, LogInUse, Booted, Contents
  <1>6. HeadPhase'
    BY DEF TypeOK, RecoverAlone, OneCommitter, LogInUse, HeadPhase, Distinct, Booted, Contents
  <1>7. LogContents'
    <2>1. /\ \A q \in Procs : pc[q] \in CommitPC \cup InOpPC => q = p
          /\ \A q \in Procs : pc[q] \notin RecoverPC
      BY Zenon DEF OneCommitter, RecoverAlone, Booted, TypeOK
    <2>2. tail \in 1..Len(lh) /\ tail \in LogIndex /\ lh[tail] \in Blocks
      BY DEF LogInUse, TypeOK
    <2>3. \A c \in Blocks : Contents(c)' = Contents(c)
      BY <2>2, Zenon DEF TypeOK, Contents
    <2>4. \A i \in 1..Len(lh) : ~Installed(i)'
      BY <2>1, Zenon DEF Installed, TypeOK
    <2>5. \A i \in 1..Len(lh) : Copied(i)' => Copied(i) \/ i = tail
      <3>1. ASSUME NEW i \in 1..Len(lh), Copied(i)', i # tail
            PROVE  i < tail
        BY <3>1, <2>1, <2>2 DEF Copied, TypeOK
      <3> QED
        BY <3>1, Zenon DEF Copied
    <2>6. \A i \in 1..Len(lh) : i # tail => diskLog'[i] = diskLog[i]
      BY <2>2 DEF TypeOK
    <2>7. diskLog'[tail] = Contents(lh[tail])
      BY <2>2, Zenon DEF TypeOK
    <2>8. \A i \in 1..Len(lh) : lh[i] \in Blocks
      BY SMTT(60) DEF TypeOK
    <2> QED
      BY <2>3, <2>4, <2>5, <2>6, <2>7, <2>8, Zenon DEF LogContents
  <1>8. CacheCoherent'
    BY SMTT(60)
       DEF TypeOK, RecoverAlone, OneCommitter, LogInUse, HeadPhase, Distinct, LogContents,
           Copied, Installed, CacheCoherent, Contents, Logged, Booted
  <1>9. NoLostWakeup'
    BY Zenon DEF TypeOK, NoLostWakeup, RecoverAlone, OneCommitter, Booted, Contents
  <1> QED
    BY <1>1, <1>2, <1>3, <1>4, <1>5, <1>6, <1>7, <1>8, <1>9, Zenon

\* The commit point keeps the invariant: the header names log blocks that
\* are all in place.
LEMMA Inv_write_head ==
  ASSUME IInv, NEW p \in Procs, write_head(p)
  PROVE  IInv'
  <1> USE ProcsAssumption, ValAssumption, SizeAssumption DEF write_head, IInv, disk, bufs, log
  <1>1. TypeOK'
    BY DEF TypeOK
  <1>2. RecoverAlone'
    BY Zenon DEF TypeOK, RecoverAlone, Booted
  <1>3. OneCommitter'
    BY DEF TypeOK, RecoverAlone, OneCommitter, Booted
  <1>4. OpsCounted'
    <2>1. InOps' = InOps
      BY Zenon DEF InOps, TypeOK
    <2> QED
      BY <2>1, Zenon DEF OpsCounted
  <1>5. LogInUse'
    BY DEF TypeOK, RecoverAlone, OneCommitter, LogInUse, Booted
  <1>6. HeadPhase'
    BY DEF TypeOK, RecoverAlone, OneCommitter, LogInUse, HeadPhase, Distinct, Booted
  <1>7. LogContents'
    BY SMTT(60)
       DEF TypeOK, RecoverAlone, OneCommitter, LogInUse, HeadPhase, Distinct, LogContents,
           Copied, Installed, Contents, Booted
  <1>8. CacheCoherent'
    BY SMTT(60)
       DEF TypeOK, RecoverAlone, OneCommitter, LogInUse, HeadPhase, Distinct, LogContents,
           Copied, Installed, CacheCoherent, Contents, Logged, Booted
  <1>9. NoLostWakeup'
    BY Zenon DEF TypeOK, NoLostWakeup, RecoverAlone, OneCommitter, Booted
  <1> QED
    BY <1>1, <1>2, <1>3, <1>4, <1>5, <1>6, <1>7, <1>8, <1>9, Zenon

\* One block installed by install_trans() and unpinned keeps the invariant.
LEMMA Inv_install_trans ==
  ASSUME IInv, NEW p \in Procs, install_trans(p)
  PROVE  IInv'
  <1> USE ProcsAssumption, ValAssumption, SizeAssumption
          DEF install_trans, IInv, disk, bufs, log, Install
  <1>1. TypeOK'
    BY DEF TypeOK, LogInUse, CacheCoherent, Installed, RecoverAlone, OneCommitter, Booted
  <1>2. RecoverAlone'
    BY Zenon DEF TypeOK, RecoverAlone, Booted
  <1>3. OneCommitter'
    BY SMTT(60) DEF TypeOK, RecoverAlone, OneCommitter, Booted
  <1>4. OpsCounted'
    <2>1. InOps' = InOps
      BY Zenon DEF InOps, TypeOK
    <2> QED
      BY <2>1, Zenon DEF OpsCounted
  <1>5. LogInUse'
    BY SMTT(60) DEF TypeOK, RecoverAlone, OneCommitter, LogInUse, Booted
  <1>6. HeadPhase'
    BY DEF TypeOK, RecoverAlone, OneCommitter, LogInUse, HeadPhase, Distinct, Booted
  <1>7. LogContents'
    <2>1. /\ \A q \in Procs : pc[q] \in CommitPC \cup InOpPC => q = p
          /\ \A q \in Procs : pc[q] \notin RecoverPC
      BY Zenon DEF OneCommitter, RecoverAlone, Booted, TypeOK
    <2>2. tail \in 1..Len(lh) /\ tail \in LogIndex /\ lh[tail] \in Blocks
      BY DEF LogInUse, TypeOK
    <2>3. \A c \in Blocks : c # lh[tail] => Contents(c)' = Contents(c) /\ home'[c] = home[c]
      BY <2>2, Zenon DEF TypeOK, Contents
    <2>4. \A c \in Blocks : c = lh[tail] => Contents(c)' = diskLog[tail] /\ home'[c] = diskLog[tail]
      BY <2>2, Zenon DEF TypeOK, Contents
    <2>5. \A i \in 1..Len(lh) : lh[i] \in Blocks /\ (lh[i] = lh[tail] <=> i = tail)
      BY <2>2 DEF TypeOK, HeadPhase, Distinct
    <2>6. \A i \in 1..Len(lh) : Copied(i)
      BY Zenon DEF Copied
    <2>7. \A i \in 1..Len(lh) : Installed(i)' => Installed(i) \/ i = tail
      <3>1. ASSUME NEW i \in 1..Len(lh), Installed(i)', i # tail
            PROVE  i < tail
        BY SMTT(60), <3>1, <2>1, <2>2 DEF Installed, TypeOK
      <3> QED
        BY <3>1, Zenon DEF Installed
    <2> QED
      BY SMTT(60), <2>3, <2>4, <2>5, <2>6, <2>7 DEF LogContents
  <1>8. CacheCoherent'
    <2>1. /\ \A q \in Procs : pc[q] \in CommitPC \cup InOpPC => q = p
          /\ \A q \in Procs : pc[q] \notin RecoverPC
      BY Zenon DEF OneCommitter, RecoverAlone, Booted, TypeOK
    <2>2. tail \in 1..Len(lh) /\ tail \in LogIndex /\ lh[tail] \in Blocks
      BY DEF LogInUse, TypeOK
    <2>3. \A c \in Blocks : c # lh[tail] => Contents(c)' = Contents(c) /\ home'[c] = home[c]
      BY <2>2, Zenon DEF TypeOK, Contents
    <2>4. \A c \in Blocks : c = lh[tail] => Contents(c)' = diskLog[tail] /\ home'[c] = diskLog[tail]
      BY <2>2, Zenon DEF TypeOK, Contents
    <2>5. \A i \in 1..Len(lh) : lh[i] \in Blocks /\ (lh[i] = lh[tail] <=> i = tail)
      BY <2>2 DEF TypeOK, HeadPhase, Distinct
    <2>6. \A i \in 1..Len(lh) : Installed(i)' <=> (Installed(i) \/ i = tail)
      <3>1. ASSUME NEW i \in 1..Len(lh)
            PROVE  Installed(i)' <=> i <= tail
        BY SMTT(60), <2>1, <2>2 DEF Installed, TypeOK
      <3>2. ASSUME NEW i \in 1..Len(lh)
            PROVE  Installed(i) <=> i < tail
        BY <2>1, <2>2, Zenon DEF Installed, TypeOK
      <3> QED
        BY SMTT(60), <3>1, <3>2, <2>2 DEF TypeOK
    <2>7. Booted /\ Booted' /\ Logged' = Logged
      BY SMTT(60), <2>1 DEF Booted, Logged, TypeOK
    <2>8. ~Installed(tail) /\ pin[lh[tail]] = 1
      BY SMTT(60), <2>1, <2>2, <2>7 DEF Installed, TypeOK, CacheCoherent
    <2>9. pin'[lh[tail]] = 0 /\ \A c \in Blocks : c # lh[tail] => pin'[c] = pin[c]
      BY SMTT(60), <2>2, <2>8 DEF TypeOK
    <2>10. \A c \in Blocks : pin'[c] > 0 \/ holder'[c] # NoProc => cache'[c] # NoBuf
      BY SMTT(60), <2>2, <2>9 DEF CacheCoherent, TypeOK
    <2>11. \A c \in Blocks : c \notin Logged' => Contents(c)' = home'[c]
      <3>1. \A q \in Procs : pc[q] # "panic"
        BY <2>1, Zenon
      <3>2. lh[tail] \in Logged
        BY <2>2, Zenon DEF Logged
      <3> QED
        BY <2>3, <2>7, <3>1, <3>2, Zenon DEF CacheCoherent
    <2>12. \A i \in 1..Len(lh) : ~Installed(i)' => pin'[lh[i]] = 1
      BY <2>5, <2>6, <2>7, <2>9, Zenon DEF CacheCoherent
    <2>13. \A c \in Blocks : pin'[c] = 1 => \E i \in 1..Len(lh) : lh[i] = c /\ ~Installed(i)'
      BY SMTT(60), <2>5, <2>6, <2>9 DEF CacheCoherent
    <2> QED
      BY <2>7, <2>10, <2>11, <2>12, <2>13, Zenon DEF CacheCoherent
  <1>9. NoLostWakeup'
    BY Zenon DEF TypeOK, NoLostWakeup, RecoverAlone, OneCommitter, Booted
  <1> QED
    BY <1>1, <1>2, <1>3, <1>4, <1>5, <1>6, <1>7, <1>8, <1>9, Zenon

\* Erasing the header after the installation keeps the invariant.
LEMMA Inv_clear ==
  ASSUME IInv, NEW p \in Procs, clear(p)
  PROVE  IInv'
  <1> USE ProcsAssumption, ValAssumption, SizeAssumption DEF clear, IInv, disk, bufs, log
  <1>1. TypeOK'
    BY DEF TypeOK
  <1>2. RecoverAlone'
    BY Zenon DEF TypeOK, RecoverAlone, Booted
  <1>3. OneCommitter'
    BY DEF TypeOK, RecoverAlone, OneCommitter, Booted
  <1>4. OpsCounted'
    <2>1. InOps' = InOps
      BY Zenon DEF InOps, TypeOK
    <2> QED
      BY <2>1, Zenon DEF OpsCounted
  <1>5. LogInUse'
    BY Zenon DEF TypeOK, RecoverAlone, OneCommitter, LogInUse, Booted
  <1>6. HeadPhase'
    BY SMTT(60) DEF TypeOK, RecoverAlone, OneCommitter, LogInUse, HeadPhase, Distinct, Booted
  <1>7. LogContents'
    BY SMTT(60)
       DEF TypeOK, RecoverAlone, OneCommitter, LogInUse, HeadPhase, Distinct, LogContents,
           Copied, Installed, Contents, Booted
  <1>8. CacheCoherent'
    <2>1. /\ \A q \in Procs : pc[q] \in CommitPC \cup InOpPC => q = p
          /\ \A q \in Procs : pc[q] \notin RecoverPC
      BY Zenon DEF OneCommitter, RecoverAlone, Booted, TypeOK
    <2>2. Booted /\ Booted' /\ Logged' = {} /\ Len(lh') = 0
      BY <2>1 DEF Booted, Logged, TypeOK
    <2>3. \A i \in 1..Len(lh) : Installed(i) /\ Copied(i)
      BY Zenon DEF Installed, Copied
    <2>4. \A c \in Blocks : Contents(c) = home[c]
      BY <2>1, <2>3 DEF CacheCoherent, LogContents, Logged
    <2>5. \A c \in Blocks : pin[c] # 1
      BY <2>3, Zenon DEF CacheCoherent
    <2>6. \A c \in Blocks : Contents(c)' = home'[c]
      BY <2>4, Zenon DEF Contents
    <2> QED
      BY SMTT(60), <2>2, <2>5, <2>6 DEF CacheCoherent
  <1>9. NoLostWakeup'
    BY Zenon DEF TypeOK, NoLostWakeup, RecoverAlone, OneCommitter, Booted
  <1> QED
    BY <1>1, <1>2, <1>3, <1>4, <1>5, <1>6, <1>7, <1>8, <1>9, Zenon

\* The end of a commit, which clears log.committing and wakes the sleepers,
\* keeps the invariant.
LEMMA Inv_finish ==
  ASSUME IInv, NEW p \in Procs, finish(p)
  PROVE  IInv'
  <1> USE ProcsAssumption, ValAssumption, SizeAssumption DEF finish, IInv, disk, bufs, log
  <1>1. TypeOK'
    BY Zenon DEF TypeOK, wakeup
  <1>2. RecoverAlone'
    BY DEF TypeOK, RecoverAlone, Booted, wakeup
  <1>3. OneCommitter'
    BY ZenonT(60) DEF TypeOK, RecoverAlone, OneCommitter, Booted, wakeup
  <1>4. OpsCounted'
    <2>1. InOps' = InOps
      BY Zenon DEF InOps, TypeOK, wakeup
    <2> QED
      BY <2>1, Zenon DEF OpsCounted
  <1>5. LogInUse'
    BY Zenon DEF TypeOK, RecoverAlone, OneCommitter, LogInUse, Booted, wakeup
  <1>6. HeadPhase'
    BY DEF TypeOK, RecoverAlone, OneCommitter, LogInUse, HeadPhase, Distinct, Booted, wakeup
  <1>7. LogContents'
    BY SMTT(60)
       DEF TypeOK, RecoverAlone, OneCommitter, LogInUse, HeadPhase, Distinct, LogContents,
           Copied, Installed, Contents, Booted, wakeup
  <1>8. CacheCoherent'
    <2>1. /\ \A q \in Procs : pc[q] \in CommitPC \cup InOpPC => q = p
          /\ \A q \in Procs : pc[q] \notin RecoverPC
      BY Zenon DEF OneCommitter, RecoverAlone, Booted, TypeOK
    <2>2. Booted /\ Booted' /\ Len(lh) = 0 /\ Logged = {} /\ Logged' = {}
      BY SMTT(60), <2>1 DEF Booted, Logged, TypeOK, LogInUse, wakeup
    <2>3. \A c \in Blocks : Contents(c)' = Contents(c)
      BY Zenon DEF Contents
    <2>4. \A c \in Blocks : Contents(c) = home[c]
      BY SMTT(60), <2>1, <2>2 DEF CacheCoherent
    <2> QED
      BY SMTT(60), <2>2, <2>3, <2>4 DEF CacheCoherent
  <1>9. NoLostWakeup'
    BY Zenon DEF TypeOK, NoLostWakeup, RecoverAlone, OneCommitter, Booted, wakeup
  <1> QED
    BY <1>1, <1>2, <1>3, <1>4, <1>5, <1>6, <1>7, <1>8, <1>9, Zenon

\* A crash at any step keeps the invariant: a header on disk refers to log
\* blocks that are complete.
LEMMA Inv_Crash ==
  ASSUME IInv, Crash
  PROVE  IInv'
  <1> USE ProcsAssumption, ValAssumption, SizeAssumption DEF Crash, IInv, disk, bufs, log
  <1>1. TypeOK'
    <2>1. lh' \in Seq(Blocks) /\ Len(lh') = 0
      OBVIOUS
    <2>2. pc' \in [Procs -> PC] /\ wrote' \in [Procs -> SUBSET Blocks]
      BY Zenon
    <2>3. pin' \in [Blocks -> 0..1] /\ tail' \in 0..SIZE
      OBVIOUS
    <2>4. cache' \in [Blocks -> Val \cup {NoBuf}] /\ holder' \in [Blocks -> Procs \cup {NoProc}]
      BY Zenon
    <2>5. committing' \in BOOLEAN
      BY Zenon
    <2>6. outstanding' \in Nat
      BY SMTT(60)
    <2> QED
      BY SMTT(60), <2>1, <2>2, <2>3, <2>4, <2>5, <2>6 DEF TypeOK
  <1>2. RecoverAlone'
    BY Zenon DEF TypeOK, RecoverAlone, Booted
  <1>3. OneCommitter'
    BY Zenon DEF TypeOK, RecoverAlone, OneCommitter, Booted
  <1>4. OpsCounted'
    <2>1. InOps' = {}
      BY Zenon DEF InOps
    <2> QED
      BY <2>1, FS_EmptySet, Zenon DEF OpsCounted
  <1>5. LogInUse'
    BY Zenon DEF TypeOK, RecoverAlone, OneCommitter, LogInUse, Booted
  <1>6. HeadPhase'
    BY SMTT(60) DEF TypeOK, RecoverAlone, OneCommitter, LogInUse, HeadPhase, Distinct, Booted
  <1>7. LogContents'
    BY Zenon
       DEF TypeOK, RecoverAlone, OneCommitter, LogInUse, HeadPhase, Distinct, LogContents,
           Copied, Installed, Contents, Booted
  <1>8. CacheCoherent'
    BY DEF TypeOK, RecoverAlone, OneCommitter, LogInUse, HeadPhase, Distinct, LogContents,
           Copied, Installed, CacheCoherent, Contents, Logged, Booted
  <1>9. NoLostWakeup'
    BY Zenon DEF TypeOK, NoLostWakeup, RecoverAlone, OneCommitter, Booted
  <1> QED
    BY <1>1, <1>2, <1>3, <1>4, <1>5, <1>6, <1>7, <1>8, <1>9, Zenon

\* The start of recovery keeps the invariant.
LEMMA Inv_read_head ==
  ASSUME IInv, read_head
  PROVE  IInv'
  <1> USE ProcsAssumption, ValAssumption, SizeAssumption DEF read_head, IInv, disk, bufs, log
  <1>1. TypeOK'
    BY DEF TypeOK
  <1>2. RecoverAlone'
    BY Zenon DEF TypeOK, RecoverAlone, Booted
  <1>3. OneCommitter'
    BY DEF TypeOK, RecoverAlone, OneCommitter, Booted
  <1>4. OpsCounted'
    <2>1. InOps' = InOps
      BY Zenon DEF InOps, TypeOK
    <2> QED
      BY <2>1, Zenon DEF OpsCounted
  <1>5. LogInUse'
    BY SMTT(60) DEF TypeOK, RecoverAlone, OneCommitter, LogInUse, Booted
  <1>6. HeadPhase'
    BY SMTT(60) DEF TypeOK, RecoverAlone, OneCommitter, LogInUse, HeadPhase, Distinct, Booted
  <1>7. LogContents'
    BY SMTT(60)
       DEF TypeOK, RecoverAlone, OneCommitter, LogInUse, HeadPhase, Distinct, LogContents,
           Copied, Installed, Contents, Booted
  <1>8. CacheCoherent'
    BY SMTT(60)
       DEF TypeOK, RecoverAlone, OneCommitter, LogInUse, HeadPhase, Distinct, LogContents,
           Copied, Installed, CacheCoherent, Contents, Logged, Booted
  <1>9. NoLostWakeup'
    BY Zenon DEF TypeOK, NoLostWakeup, RecoverAlone, OneCommitter, Booted
  <1> QED
    BY <1>1, <1>2, <1>3, <1>4, <1>5, <1>6, <1>7, <1>8, <1>9, Zenon

\* One block installed by recovery keeps the invariant, also when a crash
\* makes recovery do it again.
LEMMA Inv_recover_install ==
  ASSUME IInv, recover_install
  PROVE  IInv'
  <1> USE ProcsAssumption, ValAssumption, SizeAssumption
          DEF recover_install, IInv, disk, bufs, log, Install
  <1>1. TypeOK'
    BY SMTT(60) DEF TypeOK, LogInUse
  <1>2. RecoverAlone'
    BY Zenon DEF TypeOK, RecoverAlone, Booted
  <1>3. OneCommitter'
    BY SMTT(60) DEF TypeOK, RecoverAlone, OneCommitter, Booted
  <1>4. OpsCounted'
    <2>1. InOps' = InOps
      BY Zenon DEF InOps, TypeOK
    <2> QED
      BY <2>1, Zenon DEF OpsCounted
  <1>5. LogInUse'
    BY SMTT(60) DEF TypeOK, RecoverAlone, OneCommitter, LogInUse, Booted
  <1>6. HeadPhase'
    BY SMTT(60) DEF TypeOK, RecoverAlone, OneCommitter, LogInUse, HeadPhase, Distinct, Booted
  <1>7. LogContents'
    BY SMTT(60)
       DEF TypeOK, RecoverAlone, OneCommitter, LogInUse, HeadPhase, Distinct, LogContents,
           Copied, Installed, Contents, Booted
  <1>8. CacheCoherent'
    BY SMTT(60)
       DEF TypeOK, RecoverAlone, OneCommitter, LogInUse, HeadPhase, Distinct, LogContents,
           Copied, Installed, CacheCoherent, Contents, Logged, Booted
  <1>9. NoLostWakeup'
    BY Zenon DEF TypeOK, NoLostWakeup, RecoverAlone, OneCommitter, Booted
  <1> QED
    BY <1>1, <1>2, <1>3, <1>4, <1>5, <1>6, <1>7, <1>8, <1>9, Zenon

\* The end of recovery keeps the invariant.
LEMMA Inv_recover_clear ==
  ASSUME IInv, recover_clear
  PROVE  IInv'
  <1> USE ProcsAssumption, ValAssumption, SizeAssumption DEF recover_clear, IInv, disk, bufs, log
  <1>1. TypeOK'
    BY DEF TypeOK
  <1>2. RecoverAlone'
    BY Zenon DEF TypeOK, RecoverAlone, Booted
  <1>3. OneCommitter'
    BY Zenon DEF TypeOK, RecoverAlone, OneCommitter, Booted
  <1>4. OpsCounted'
    <2>1. InOps' = InOps
      BY Zenon DEF InOps, TypeOK
    <2> QED
      BY <2>1, Zenon DEF OpsCounted
  <1>5. LogInUse'
    BY Zenon DEF TypeOK, RecoverAlone, OneCommitter, LogInUse, Booted
  <1>6. HeadPhase'
    BY SMTT(60) DEF TypeOK, RecoverAlone, OneCommitter, LogInUse, HeadPhase, Distinct, Booted
  <1>7. LogContents'
    BY Zenon
       DEF TypeOK, RecoverAlone, OneCommitter, LogInUse, HeadPhase, Distinct, LogContents,
           Copied, Installed, Contents, Booted
  <1>8. CacheCoherent'
    BY SMTT(60)
       DEF TypeOK, RecoverAlone, OneCommitter, LogInUse, HeadPhase, Distinct, LogContents,
           Copied, Installed, CacheCoherent, Contents, Logged, Booted
  <1>9. NoLostWakeup'
    BY Zenon DEF TypeOK, NoLostWakeup, RecoverAlone, OneCommitter, Booted
  <1> QED
    BY <1>1, <1>2, <1>3, <1>4, <1>5, <1>6, <1>7, <1>8, <1>9, Zenon

\* Every step keeps the invariant.
LEMMA InvNext == IInv /\ [Next]_vars => IInv'
  <1> SUFFICES ASSUME IInv, [Next]_vars PROVE IInv'
    BY Zenon
  <1>1. CASE UNCHANGED vars
    <2> USE <1>1 DEF vars
    <2>1. TypeOK'
      BY Zenon DEF IInv, TypeOK
    <2>2. RecoverAlone'
      BY Zenon DEF IInv, RecoverAlone, Booted
    <2>3. OneCommitter'
      BY Zenon DEF IInv, OneCommitter
    <2>4. OpsCounted'
      BY Zenon DEF IInv, OpsCounted, InOps
    <2>5. LogInUse'
      BY Zenon DEF IInv, LogInUse, Booted
    <2>6. HeadPhase'
      BY Zenon DEF IInv, HeadPhase, Distinct
    <2>7. LogContents'
      BY Zenon DEF IInv, LogContents, Contents, Installed, Copied
    <2>8. CacheCoherent'
      <3>1. Booted' = Booted /\ Logged' = Logged
        BY Zenon DEF Booted, Logged
      <3>2. \A b \in Blocks : Contents(b)' = Contents(b)
        BY Zenon DEF Contents
      <3>3. \A i \in 1..Len(lh) : Installed(i)' <=> Installed(i)
        BY Zenon DEF Installed
      <3> QED
        BY <3>1, <3>2, <3>3, Zenon DEF IInv, CacheCoherent
    <2>9. NoLostWakeup'
      BY Zenon DEF IInv, NoLostWakeup
    <2> QED
      BY <2>1, <2>2, <2>3, <2>4, <2>5, <2>6, <2>7, <2>8, <2>9, Zenon DEF IInv
  <1>2. CASE \E p \in Procs :
               \/ call(p) \/ begin_op(p) \/ begin_op_sleep(p) \/ end_op(p) \/ Commit(p)
    BY <1>2, Inv_call, Inv_begin_op, Inv_begin_op_sleep, Inv_end_op, Inv_write_log,
       Inv_write_head, Inv_install_trans, Inv_clear, Inv_finish, Zenon DEF Commit
  <1>3. CASE \E p \in Procs, b \in Blocks : bread(p, b) \/ brelse(p, b)
    BY <1>3, Inv_bread, Inv_brelse, Zenon
  <1>4. CASE \E p \in Procs, b \in Blocks, v \in Val : log_write(p, b, v)
    BY <1>4, Inv_log_write, Zenon
  <1>5. CASE \E b \in Blocks : recycle(b)
    BY <1>5, Inv_recycle, Zenon
  <1>6. CASE Recover
    BY <1>6, Inv_read_head, Inv_recover_install, Inv_recover_clear, Zenon DEF Recover
  <1>7. CASE Crash
    BY <1>7, Inv_Crash, Zenon
  <1> QED
    BY <1>1, <1>2, <1>3, <1>4, <1>5, <1>6, <1>7, Zenon DEF Next

\* The invariant of log.c holds in every reachable state, for any number of
\* processes, blocks, block contents and any log size.
THEOREM Invariance == Spec => []IInv
  BY InitInv, InvNext, PTL DEF Spec

\* The log never outgrows the on-disk log, a buffer is pinned at most once,
\* and every loop index of the commit stays in range.
THEOREM TypeCorrect == Spec => []TypeOK
  <1>1. IInv => TypeOK
    BY DEF IInv
  <1> QED
    BY <1>1, Invariance, PTL

\* No wakeup is lost: a process asleep in begin_op() has a call that has not
\* reached end_op(), or a commit that has not finished, to wake it.
THEOREM SleepersHaveAWaker == Spec => []NoLostWakeup
  <1>1. IInv => NoLostWakeup
    BY SMTT(60) DEF IInv
  <1> QED
    BY <1>1, Invariance, PTL

\* The invariant implies that an idle log has nothing left to lose.
LEMMA IdleLemma == IInv => IdleIsDurable
  <1> SUFFICES ASSUME IInv, Booted, outstanding = 0, ~committing
               PROVE  Durable = View
    BY Zenon DEF IdleIsDurable
  <1> USE ProcsAssumption, ValAssumption, SizeAssumption DEF IInv
  <1>1. lh = <<>> /\ Logged = {}
    BY SMTT(60) DEF LogInUse, Logged
  <1>2. \A p \in Procs : pc[p] \notin CommitPC /\ pc[p] \notin RecoverPC
    BY Zenon DEF OneCommitter, RecoverAlone, Booted
  <1>3. diskHead = <<>> /\ Len(diskHead) = 0
    BY <1>2, Zenon DEF HeadPhase
  <1>4. \A p \in Procs : pc[p] # "panic"
    <2>1. IsFiniteSet(InOps) /\ Cardinality(InOps) = 0
      BY FS_Subset, Zenon DEF OpsCounted, InOps
    <2>2. InOps = {}
      BY <2>1, FS_EmptySet, Zenon
    <2> QED
      BY <2>2, Zenon DEF InOps
  <1>5. \A b \in Blocks : Contents(b) = home[b]
    BY <1>1, <1>4, Zenon DEF CacheCoherent
  <1> QED
    BY <1>3, <1>5 DEF Durable, Overlay, View

\* Once no call is outstanding and no commit is running, all that calls ever
\* wrote survives a crash: end_op() returned to its last caller after commit().
THEOREM EverythingCommitted == Spec => []IdleIsDurable
  BY Invariance, IdleLemma, PTL

-----------------------------------------------------------------------------
(* Refinement of AtomicDisk.                                               *)

\* What recovery reads: the log block for a block in the header, the home
\* block for any other.
LEMMA OverlayAt ==
  ASSUME NEW h, NEW head \in Seq(Blocks), NEW logged, Distinct(head)
  PROVE  /\ \A i \in 1..Len(head) : Overlay(h, head, logged)[head[i]] = logged[i]
         /\ \A b \in Blocks : (\A i \in 1..Len(head) : head[i] # b)
                                => Overlay(h, head, logged)[b] = h[b]
  <1>1. ASSUME NEW i \in 1..Len(head)
        PROVE  Overlay(h, head, logged)[head[i]] = logged[i]
    <2>1. head[i] \in Blocks
      OBVIOUS
    <2>2. (CHOOSE j \in 1..Len(head) : head[j] = head[i]) = i
      BY Zenon DEF Distinct
    <2> QED
      BY <2>1, <2>2, Zenon DEF Overlay
  <1>2. ASSUME NEW b \in Blocks, \A i \in 1..Len(head) : head[i] # b
        PROVE  Overlay(h, head, logged)[b] = h[b]
    BY <1>2, Zenon DEF Overlay
  <1> QED
    BY <1>1, <1>2, Zenon

\* With an empty header recovery changes nothing.
LEMMA OverlayEmpty ==
  ASSUME NEW h \in [Blocks -> Val], NEW logged
  PROVE  Overlay(h, <<>>, logged) = h
  BY DEF Overlay

\* A disk that agrees with the log on the header and with the home blocks
\* elsewhere is what recovery produces.
LEMMA OverlayEqual ==
  ASSUME NEW f \in [Blocks -> Val], NEW h, NEW head \in Seq(Blocks), NEW logged,
         Distinct(head),
         \A i \in 1..Len(head) : f[head[i]] = logged[i],
         \A b \in Blocks : (\A i \in 1..Len(head) : head[i] # b) => f[b] = h[b]
  PROVE  Overlay(h, head, logged) = f
  <1>1. \A b \in Blocks : Overlay(h, head, logged)[b] = f[b]
    BY OverlayAt
  <1>2. Overlay(h, head, logged) = [b \in Blocks |-> Overlay(h, head, logged)[b]]
    BY Zenon DEF Overlay
  <1> QED
    BY <1>1, <1>2, Zenon

\* Installing entry i of the header changes nothing recovery would see.
LEMMA OverlayInstall ==
  ASSUME NEW h \in [Blocks -> Val], NEW head \in Seq(Blocks), NEW logged,
         Distinct(head), NEW i \in 1..Len(head)
  PROVE  Overlay([h EXCEPT ![head[i]] = logged[i]], head, logged) = Overlay(h, head, logged)
  <1> DEFINE g == [h EXCEPT ![head[i]] = logged[i]]
  <1>1. \A b \in Blocks : Overlay(g, head, logged)[b] = Overlay(h, head, logged)[b]
    <2> TAKE b \in Blocks
    <2>1. CASE \E j \in 1..Len(head) : head[j] = b
      BY <2>1, OverlayAt
    <2>2. CASE \A j \in 1..Len(head) : head[j] # b
      <3>1. g[b] = h[b]
        BY <2>2, Zenon
      <3>2. Overlay(g, head, logged)[b] = g[b] /\ Overlay(h, head, logged)[b] = h[b]
        BY <2>2, Zenon DEF Overlay
      <3> QED
        BY <3>1, <3>2, Zenon
    <2> QED
      BY <2>1, <2>2, Zenon
  <1>2. /\ Overlay(g, head, logged) = [b \in Blocks |-> Overlay(g, head, logged)[b]]
        /\ Overlay(h, head, logged) = [b \in Blocks |-> Overlay(h, head, logged)[b]]
    BY DEF Overlay
  <1> QED
    BY Zenon, <1>1, <1>2

\* What one step does to the abstract state.
Quiet == Durable' = Durable /\ View' = View /\ InOps' = InOps

\* Moving buffers in and out of the cache changes neither what recovery would
\* find nor what calls read.
LEMMA QuietBuffers ==
  ASSUME IInv, NEW p \in Procs, NEW b \in Blocks,
         bread(p, b) \/ brelse(p, b) \/ recycle(b)
  PROVE  Quiet
  <1> USE ValAssumption DEF IInv, disk, bufs, log, bread, brelse, recycle
  <1>1. Durable' = Durable
    BY Zenon DEF Durable
  <1>2. InOps' = InOps
    BY Zenon DEF InOps
  <1>3. Booted' <=> Booted
    BY Zenon DEF Booted
  <1>4. \A c \in Blocks : Booted => Contents(c)' = Contents(c)
    <2>1. CASE bread(p, b) \/ brelse(p, b)
      BY <2>1, Zenon DEF Contents, TypeOK
    <2>2. CASE recycle(b)
      <3>1. \A c \in Blocks : c # b => Contents(c)' = Contents(c)
        BY <2>2, Zenon DEF Contents, TypeOK
      <3>2. Contents(b)' = home[b]
        BY <2>2, Zenon DEF Contents, TypeOK
      <3>3. Booted => Contents(b) = home[b]
        <4>1. CASE b \notin Logged
          BY <4>1, <2>2, ProcsAssumption, Zenon DEF CacheCoherent
        <4>2. CASE b \in Logged /\ Booted
          <5>1. PICK i \in 1..Len(lh) : lh[i] = b
            BY <4>2, Zenon DEF Logged
          <5>2. Installed(i)
            BY SMTT(60), <5>1, <4>2, <2>2 DEF CacheCoherent
          <5>3. Copied(i)
            BY <5>2, <4>2, Zenon DEF Installed, Copied, Booted, RecoverAlone
          <5> QED
            BY <5>1, <5>2, <5>3, Zenon DEF LogContents
        <4> QED
          BY <4>1, <4>2, Zenon
      <3> QED
        BY <3>1, <3>2, <3>3, Zenon
    <2> QED
      BY <2>1, <2>2, Zenon
  <1> QED
    BY <1>1, <1>2, <1>3, <1>4, Zenon DEF Quiet, View

\* Entering, sleeping in begin_op() and ending a commit change no contents.
LEMMA QuietWaiting ==
  ASSUME IInv, NEW p \in Procs, call(p) \/ begin_op_sleep(p) \/ finish(p)
  PROVE  Quiet
  <1> USE DEF IInv, disk, bufs, log, call, begin_op_sleep, finish, wakeup
  <1>1. Durable' = Durable
    BY DEF Durable
  <1>2. InOps' = InOps
    BY Zenon DEF InOps, TypeOK
  <1>3. Booted' <=> Booted
    BY ZenonT(60), ProcsAssumption DEF Booted, TypeOK
  <1>4. \A c \in Blocks : Contents(c)' = Contents(c)
    BY Zenon DEF Contents
  <1> QED
    BY <1>1, <1>2, <1>3, <1>4, Zenon DEF Quiet, View

\* Filling the log before the commit point is invisible to recovery.
LEMMA QuietWriteLog ==
  ASSUME IInv, NEW p \in Procs, write_log(p)
  PROVE  Quiet
  <1> USE ProcsAssumption, ValAssumption DEF IInv, disk, bufs, log, write_log
  <1>1. /\ \A q \in Procs : pc[q] \in CommitPC => q = p
        /\ Booted
    BY Zenon DEF OneCommitter, RecoverAlone, Booted, TypeOK
  <1>2. diskHead = <<>>
    BY <1>1, Zenon DEF HeadPhase, RecoverAlone, Booted
  <1>3. Durable = home /\ Durable' = home
    BY <1>2, OverlayEmpty, Zenon DEF Durable, TypeOK
  <1>4. Booted' /\ InOps' = InOps
    BY <1>1, Zenon DEF Booted, InOps, TypeOK
  <1>5. lh[tail] \in Blocks
    BY SMTT(60) DEF LogInUse, TypeOK
  <1>6. \A c \in Blocks : Contents(c)' = Contents(c)
    BY <1>5, Zenon DEF Contents, TypeOK
  <1> QED
    BY <1>1, <1>3, <1>4, <1>6, Zenon DEF Quiet, View

\* The header write commits the whole group.
LEMMA CommitPoint ==
  ASSUME IInv, NEW p \in Procs, write_head(p)
  PROVE  Durable' = View /\ View' = View /\ InOps = {} /\ InOps' = {}
  <1> USE ProcsAssumption, ValAssumption DEF IInv, disk, bufs, log, write_head
  <1>1. /\ \A q \in Procs : pc[q] \in CommitPC \cup InOpPC => q = p
        /\ Booted
    BY Zenon DEF OneCommitter, RecoverAlone, Booted, TypeOK
  <1>2. InOps = {} /\ InOps' = {} /\ Booted'
    BY <1>1, Zenon DEF InOps, Booted, TypeOK
  <1>3. \A c \in Blocks : Contents(c)' = Contents(c)
    BY Zenon DEF Contents
  <1>4. View' = View
    BY <1>1, <1>2, <1>3, Zenon DEF View
  <1>5. View \in [Blocks -> Val] /\ \A b \in Blocks : View[b] = Contents(b)
    <2>1. \A b \in Blocks : Contents(b) \in Val
      BY Zenon DEF Contents, TypeOK
    <2> QED
      BY <1>1, <2>1, Zenon DEF View
  <1>6. \A i \in 1..Len(lh) : lh[i] \in Blocks /\ diskLog[i] = Contents(lh[i])
    BY SMTT(60) DEF LogContents, Copied, TypeOK
  <1>7. \A b \in Blocks : (\A i \in 1..Len(lh) : lh[i] # b) => Contents(b) = home[b]
    BY <1>1 DEF CacheCoherent, Logged
  <1>8. lh \in Seq(Blocks) /\ Distinct(lh)
    BY Zenon DEF TypeOK, HeadPhase
  <1>9. Overlay(home, lh, diskLog) = View
    BY SMTT(60), <1>5, <1>6, <1>7, <1>8, OverlayEqual
  <1> QED
    BY <1>2, <1>4, <1>9, Zenon DEF Durable

\* An installation step leaves what recovery would find as it is.
LEMMA QuietInstall ==
  ASSUME IInv, Install, UNCHANGED <<diskHead, diskLog, lh>>,
         \E p \in Procs : pc[p] \in {"install", "rinstall"}
  PROVE  Durable' = Durable
  <1> USE DEF IInv, Install
  <1>1. diskHead = lh /\ tail \in 1..Len(diskHead)
    BY Zenon DEF HeadPhase, LogInUse
  <1>2. diskHead \in Seq(Blocks) /\ Distinct(diskHead) /\ home \in [Blocks -> Val]
    BY DEF TypeOK, HeadPhase
  <1> QED
    BY ZenonT(60), <1>1, <1>2, OverlayInstall DEF Durable

\* Installing a committed transaction and erasing its header is invisible.
LEMMA QuietCommitTail ==
  ASSUME IInv, NEW p \in Procs, install_trans(p) \/ clear(p)
  PROVE  Quiet
  <1> USE ProcsAssumption, ValAssumption DEF IInv, disk, bufs, log, install_trans, clear
  <1>1. /\ \A q \in Procs : pc[q] \in CommitPC \cup InOpPC => q = p
        /\ Booted
    BY Zenon DEF OneCommitter, RecoverAlone, Booted, TypeOK
  <1>2. Booted' /\ InOps' = InOps
    BY <1>1, Zenon DEF Booted, InOps, TypeOK
  <1>3. CASE install_trans(p)
    <2>1. Durable' = Durable
      BY <1>3, QuietInstall, Zenon
    <2>2. tail \in 1..Len(lh) /\ lh[tail] \in Blocks
      BY SMTT(60), <1>3 DEF LogInUse, TypeOK
    <2>3. diskLog[tail] = Contents(lh[tail]) /\ diskLog[tail] \in Val
      <3>1. Copied(tail)
        BY <1>3, Zenon DEF Copied
      <3>2. tail \in LogIndex
        BY <2>2, SizeAssumption DEF TypeOK
      <3> QED
        BY Zenon, <2>2, <3>1, <3>2 DEF LogContents, TypeOK
    <2>4. \A c \in Blocks : Contents(c)' = Contents(c)
      BY <1>3, <2>2, <2>3, Zenon DEF Contents, Install, TypeOK
    <2> QED
      BY <1>1, <1>2, <2>1, <2>4, Zenon DEF Quiet, View
  <1>4. CASE clear(p)
    <2>1. \A c \in Blocks : Contents(c)' = Contents(c)
      BY <1>4, Zenon DEF Contents
    <2>2. diskHead = lh /\ \A i \in 1..Len(lh) : home[lh[i]] = diskLog[i]
      BY <1>4, Zenon DEF HeadPhase, LogContents, Installed
    <2>3. Overlay(home, diskHead, diskLog) = home
      <3>1. diskHead \in Seq(Blocks) /\ Distinct(diskHead) /\ home \in [Blocks -> Val]
        BY Zenon DEF TypeOK, HeadPhase
      <3> QED
        BY SMTT(60), <2>2, <3>1, OverlayEqual
    <2>4. Durable' = home
      BY <1>4, OverlayEmpty, Zenon DEF Durable, TypeOK
    <2> QED
      BY <1>1, <1>2, <2>1, <2>3, <2>4, Zenon DEF Quiet, View, Durable
  <1> QED
    BY <1>3, <1>4, Zenon

\* Every step of recovery leaves what a further recovery would find as it is.
LEMMA QuietRecover ==
  ASSUME IInv, Recover
  PROVE  Quiet
  <1> USE ProcsAssumption, ValAssumption DEF IInv, disk, bufs, log, Recover,
          read_head, recover_install, recover_clear
  <1>1. ~Booted /\ InOps' = InOps
    BY Zenon DEF Booted, InOps, TypeOK
  <1>2. CASE read_head
    <2>1. ~Booted'
      BY <1>2, Zenon DEF Booted, TypeOK
    <2> QED
      BY <1>1, <1>2, <2>1, Zenon DEF Quiet, View, Durable
  <1>3. CASE recover_install
    <2>1. ~Booted'
      BY <1>3, Zenon DEF Booted, TypeOK
    <2>2. Durable' = Durable
      BY <1>3, QuietInstall, Zenon
    <2> QED
      BY <1>1, <2>1, <2>2, Zenon DEF Quiet, View
  <1>4. CASE recover_clear
    <2>1. Booted'
      BY <1>4, Zenon DEF Booted, TypeOK
    <2>2. diskHead = lh /\ \A i \in 1..Len(lh) : home[lh[i]] = diskLog[i]
      BY <1>4, Zenon DEF HeadPhase, LogContents, Installed
    <2>3. Durable = home
      <3>1. diskHead \in Seq(Blocks) /\ Distinct(diskHead) /\ home \in [Blocks -> Val]
        BY Zenon DEF TypeOK, HeadPhase
      <3> QED
        BY SMTT(60), <2>2, <3>1, OverlayEqual DEF Durable
    <2>4. Durable' = home
      BY <1>4, OverlayEmpty, Zenon DEF Durable, TypeOK
    <2>5. \A c \in Blocks : Contents(c)' = home[c]
      BY <1>1, <1>4, Zenon DEF CacheCoherent, Contents
    <2>6. View' = home
      BY <2>1, <2>5, Zenon DEF View, TypeOK
    <2> QED
      BY <1>1, <2>3, <2>4, <2>6, Zenon DEF Quiet, View
  <1> QED
    BY <1>2, <1>3, <1>4, Zenon

\* Every step of the log is a step of the atomic disk, or invisible there.
LEMMA Simulation ==
  ASSUME IInv, [Next]_vars
  PROVE  [Abstract!Next]_(Abstract!vars)
  <1> USE ProcsAssumption, ValAssumption DEF Abstract!Next, Abstract!vars, InOps
  <1>1. CASE UNCHANGED vars
    BY <1>1, Zenon DEF vars, Durable, View, Booted, Contents
  <1>2. CASE Quiet
    BY <1>2, Zenon DEF Quiet
  <1>3. ASSUME NEW p \in Procs, begin_op(p) PROVE Abstract!Begin(p)
    <2>1. p \notin InOps /\ InOps' = InOps \cup {p}
      BY <1>3, Zenon DEF IInv, TypeOK, begin_op
    <2>2. Durable' = Durable
      BY <1>3, Zenon DEF begin_op, disk, Durable
    <2>3. View' = View
      BY <1>3, <2>2, Zenon
         DEF begin_op, bufs, disk, View, Booted, Contents, IInv, TypeOK, RecoverAlone
    <2> QED
      BY <2>1, <2>2, <2>3, Zenon DEF Abstract!Begin
  <1>4. ASSUME NEW p \in Procs, end_op(p) PROVE Abstract!End(p)
    <2>1. ~committing /\ Booted
      <3>1. pc[p] = "op"
        BY <1>4, Zenon DEF end_op
      <3>2. ~committing
        BY <3>1, Zenon DEF IInv, OneCommitter
      <3>3. Booted
        BY <3>1, Zenon DEF IInv, RecoverAlone, Booted
      <3> QED
        BY <3>2, <3>3
    <2>2. p \in InOps /\ InOps' = InOps \ {p} /\ Booted'
      BY ZenonT(60), <1>4, <2>1 DEF end_op, IInv, TypeOK, wakeup, Booted
    <2>3. Durable' = Durable
      BY <1>4, Zenon DEF end_op, disk, Durable
    <2>4. View' = View
      BY <1>4, <2>1, <2>2, Zenon DEF end_op, bufs, disk, View, Contents
    <2> QED
      BY <2>2, <2>3, <2>4, Zenon DEF Abstract!End
  <1>5. ASSUME NEW p \in Procs, NEW b \in Blocks, NEW v \in Val, log_write(p, b, v)
        PROVE  Abstract!Write(p, b, v)
    <2>1. Booted /\ Booted' /\ p \in InOps /\ InOps' = InOps
      BY <1>5 DEF log_write, IInv, TypeOK, RecoverAlone, Booted
    <2>2. Durable' = Durable
      BY <1>5, Zenon DEF log_write, disk, Durable
    <2>3. \A c \in Blocks : Contents(c)' = IF c = b THEN v ELSE Contents(c)
      BY <1>5 DEF log_write, disk, Contents, IInv, TypeOK
    <2>4. View' = [View EXCEPT ![b] = v]
      BY Zenon, <2>1, <2>3 DEF View
    <2> QED
      BY <2>1, <2>2, <2>4, Zenon DEF Abstract!Write
  <1>6. ASSUME NEW p \in Procs, write_head(p) PROVE Abstract!Commit
    BY <1>6, CommitPoint, Zenon DEF Abstract!Commit
  <1>7. ASSUME Crash PROVE Abstract!Crash
    <2>1. Durable' = Durable /\ ~Booted' /\ InOps' = {}
      BY <1>7, Zenon DEF Crash, disk, Durable, Booted
    <2> QED
      BY <2>1, Zenon DEF View, Abstract!Crash
  <1>8. ASSUME NEW p \in Procs, Commit(p) PROVE Quiet \/ Abstract!Commit
    BY <1>8, <1>6, QuietWriteLog, QuietCommitTail, QuietWaiting, Zenon DEF Commit
  <1>9. ASSUME NEW p \in Procs, call(p) \/ begin_op_sleep(p) PROVE Quiet
    BY <1>9, QuietWaiting, Zenon
  <1>10. ASSUME NEW b \in Blocks, recycle(b) PROVE Quiet
    BY <1>10, QuietBuffers, Zenon
  <1>11. ASSUME NEW p \in Procs, NEW b \in Blocks, bread(p, b) \/ brelse(p, b) PROVE Quiet
    BY <1>11, QuietBuffers, Zenon
  <1>12. ASSUME Next PROVE Quiet \/ Abstract!Next
    BY <1>12, <1>3, <1>4, <1>5, <1>7, <1>8, <1>9, <1>10, <1>11, QuietRecover, Zenon DEF Next
  <1> QED
    BY <1>1, <1>2, <1>12, Zenon

\* A fresh boot is an initial state of the atomic disk.
LEMMA InitialStates == Init => Abstract!Init
  <1> SUFFICES ASSUME Init PROVE Abstract!Init
    BY Zenon
  <1>1. ~Booted /\ Durable = home /\ InOps = {}
    BY OverlayEmpty, ProcsAssumption, Zenon DEF Init, Booted, Durable, InOps
  <1> QED
    BY <1>1, Zenon DEF Init, View, InOps, Abstract!Init

\* Crash atomicity: log.c implements the atomic disk.  Whatever the crashes,
\* a reboot finds the state after some whole number of commits.
THEOREM LogIsAtomic == Spec => CrashAtomic
  <1>1. IInv /\ [Next]_vars => [Abstract!Next]_(Abstract!vars)
    BY Simulation
  <1> QED
    BY <1>1, InitialStates, Invariance, PTL DEF Spec, CrashAtomic, Abstract!Spec

\* Each step obeys the write-ahead rule.
LEMMA WriteAheadStep ==
  ASSUME IInv, [Next]_vars
  PROVE  \/ /\ home' # home => Durable' = Durable
            /\ diskLog' # diskLog => diskHead = <<>>
            /\ diskHead' = <<>> => Durable' = Durable
         \/ UNCHANGED vars
  <1>1. ASSUME NEW p \in Procs, write_head(p)
        PROVE  home' = home /\ diskLog' = diskLog /\ diskHead' # <<>>
    BY <1>1, Zenon DEF write_head, IInv, LogInUse
  <1>2. ASSUME NEW p \in Procs, write_log(p) PROVE diskHead = <<>> /\ Durable' = Durable
    <2>1. \A q \in Procs : pc[q] \in CommitPC => q = p
      BY <1>2, Zenon DEF write_log, IInv, OneCommitter
    <2>2. diskHead = <<>>
      BY <1>2, <2>1, ProcsAssumption, Zenon DEF write_log, IInv, HeadPhase, RecoverAlone, Booted
    <2> QED
      BY <1>2, <2>2, QuietWriteLog, Zenon DEF Quiet
  <1>3. ASSUME NEW p \in Procs, install_trans(p) \/ clear(p)
        PROVE  diskLog' = diskLog /\ Durable' = Durable
    BY <1>3, QuietCommitTail, Zenon DEF Quiet, install_trans, clear
  <1>4. ASSUME Recover PROVE diskLog' = diskLog /\ Durable' = Durable
    BY <1>4, QuietRecover, Zenon DEF Quiet, Recover, read_head, recover_install, recover_clear, disk
  <1>5. ASSUME UNCHANGED disk PROVE diskLog' = diskLog /\ home' = home /\ Durable' = Durable
    BY <1>5, Zenon DEF disk, Durable
  <1>6. ASSUME Next
        PROVE  \/ UNCHANGED disk \/ Recover
               \/ \E p \in Procs : write_head(p) \/ write_log(p) \/ install_trans(p) \/ clear(p)
    BY Zenon, <1>6 DEF Next, Commit, call, begin_op, begin_op_sleep, end_op, finish, bread, brelse,
                log_write, recycle, Crash
  <1> QED
    BY <1>1, <1>2, <1>3, <1>4, <1>5, <1>6, Zenon

\* The write-ahead rule: home blocks are overwritten only with committed
\* contents, and a committed log is erased or reused only after them.
THEOREM LogIsWriteAhead == Spec => WriteAhead
  <1>1. IInv /\ [Next]_vars =>
          [ /\ home' # home => Durable' = Durable
            /\ diskLog' # diskLog => diskHead = <<>>
            /\ diskHead' = <<>> => Durable' = Durable ]_vars
    BY WriteAheadStep
  <1> QED
    BY <1>1, Invariance, PTL DEF Spec, WriteAhead


-----------------------------------------------------------------------------
(* The reservation of begin_op() keeps log_write() within the log.         *)

\* The writes that the calls in progress may still do.
Unwritten == {x \in InOps \X (1..OPWRITES) : x[2] > Cardinality(wrote[x[1]])}

\* What a call wrote is in the log as long as the call lasts.
Writes == \A p \in Procs :
    /\ IsFiniteSet(wrote[p]) /\ Cardinality(wrote[p]) <= OPWRITES
    /\ wrote[p] \subseteq Logged
    /\ pc[p] # "op" => wrote[p] = {}

\* Either one call is alone in the group and wrote all that is logged, or the
\* second call to enter was let in with room for everybody's writes.
Room == Booted /\ ~committing =>
    \/ \E p \in Procs : InOps \subseteq {p} /\ Len(lh) <= Cardinality(wrote[p])
    \/ Len(lh) + Cardinality(Unwritten) <= LOGSIZE - 2 * (MAXOPBLOCKS - OPWRITES)

RoomInv == Writes /\ Room /\ NoPanic

\* begin_op() admits finitely many calls, each with OPWRITES writes.
UnwrittenBounded ==
    /\ IsFiniteSet(InOps) /\ Cardinality(InOps) = outstanding /\ outstanding \in Nat
    /\ IsFiniteSet(Unwritten) /\ Cardinality(Unwritten) \in Nat
    /\ Cardinality(Unwritten) <= outstanding * OPWRITES

\* ... because log.outstanding counts them.
LEMMA UnwrittenAlways == IInv => UnwrittenBounded
  <1> SUFFICES ASSUME IInv PROVE UnwrittenBounded
    BY Zenon
  <1>1. IsFiniteSet(InOps) /\ Cardinality(InOps) = outstanding /\ outstanding \in Nat
    BY FS_Subset, ProcsAssumption, Zenon DEF IInv, OpsCounted, InOps, TypeOK
  <1>2. IsFiniteSet(1..OPWRITES) /\ Cardinality(1..OPWRITES) = OPWRITES
    BY FS_Interval, SizeAssumption
  <1> DEFINE S == InOps \X (1..OPWRITES)
  <1>3. IsFiniteSet(S) /\ Cardinality(S) = outstanding * OPWRITES
    BY <1>1, <1>2, FS_Product, Zenon
  <1>4. Unwritten \in SUBSET S
    BY Zenon DEF Unwritten
  <1> HIDE DEF S
  <1>5. IsFiniteSet(Unwritten) /\ Cardinality(Unwritten) <= outstanding * OPWRITES
    BY <1>3, <1>4, FS_Subset, Zenon
  <1> QED
    BY <1>1, <1>5, FS_CardinalityType, Zenon DEF UnwrittenBounded

\* A step that leaves the log, its calls and their writes alone keeps the room.
LEMMA RoomKept ==
  ASSUME RoomInv, lh' = lh, wrote' = wrote, InOps' = InOps, NoPanic',
         Booted' /\ ~committing' => Booted /\ ~committing
  PROVE  RoomInv'
  <1>1. Unwritten' = Unwritten
    BY Zenon DEF Unwritten
  <1>2. Room'
    BY <1>1, Zenon DEF RoomInv, Room
  <1>3. \A p \in Procs : pc[p] = "op" <=> pc'[p] = "op"
    <2>1. \A p \in Procs : pc[p] = "op" <=> p \in InOps
      BY Zenon DEF InOps, RoomInv, NoPanic
    <2>2. \A p \in Procs : pc'[p] = "op" <=> p \in InOps'
      BY Zenon DEF InOps, NoPanic
    <2> QED
      BY <2>1, <2>2, Zenon
  <1>4. Writes'
    BY <1>3, Zenon DEF Writes, Logged, RoomInv
  <1> QED
    BY <1>2, <1>4, Zenon DEF RoomInv

\* With no call in progress there is room as soon as the log is empty.
LEMMA RoomEmpty ==
  ASSUME \A p \in Procs : wrote'[p] = {}, InOps' = {},
         Booted' /\ ~committing' => lh' = <<>>
  PROVE  RoomInv'
  <1>1. NoPanic'
    BY Zenon DEF NoPanic, InOps
  <1>2. Writes'
    <2>1. IsFiniteSet({}) /\ Cardinality({}) = 0
      BY FS_EmptySet, Zenon
    <2>2. 0 <= OPWRITES
      BY SizeAssumption
    <2> QED
      BY <2>1, <2>2, Zenon DEF Writes
  <1>3. Room'
    <2> SUFFICES ASSUME lh' = <<>> PROVE Room'
      BY Zenon DEF Room
    <2>1. Len(lh') <= 0 /\ Cardinality({}) = 0
      BY FS_EmptySet
    <2>2. InOps' \subseteq {InitProc} /\ wrote'[InitProc] = {} /\ InitProc \in Procs
      BY ProcsAssumption, Zenon
    <2>3. Len(lh') <= Cardinality(wrote'[InitProc])
      BY <2>1, <2>2, Zenon
    <2> QED
      BY <2>2, <2>3, Zenon DEF Room
  <1> QED
    BY <1>1, <1>2, <1>3, Zenon DEF RoomInv

\* While a process commits, or recovers, no call is in progress.
LEMMA NoCalls ==
  ASSUME IInv, RoomInv, committing \/ ~Booted
  PROVE  InOps = {} /\ \A p \in Procs : wrote[p] = {}
  <1>1. InOps = {}
    BY ProcsAssumption, Zenon DEF IInv, OneCommitter, RecoverAlone, InOps, Booted, RoomInv, NoPanic
  <1> QED
    BY <1>1, Zenon DEF RoomInv, Writes, InOps

\* n + 1 calls, each writing OPWRITES of the MAXOPBLOCKS blocks reserved for it.
LEMMA TwoCalls ==
  ASSUME NEW n \in Nat, n # 0, NEW len \in Nat, NEW c \in Nat,
         len + (n + 1) * MAXOPBLOCKS <= LOGSIZE, c <= (n + 1) * OPWRITES
  PROVE  len + c <= LOGSIZE - 2 * (MAXOPBLOCKS - OPWRITES)
  <1> DEFINE d == MAXOPBLOCKS - OPWRITES
  <1>1. d \in Nat /\ MAXOPBLOCKS = d + OPWRITES /\ OPWRITES \in Nat /\ LOGSIZE \in Nat
    BY SizeAssumption
  <1> HIDE DEF d
  <1>2. PICK m \in Nat : n + 1 = m + 2
    <2>1. n - 1 \in Nat /\ n + 1 = (n - 1) + 2
      OBVIOUS
    <2> QED
      BY <2>1, Zenon
  <1>3. (m + 2) * (d + OPWRITES) = m * d + 2 * d + (m + 2) * OPWRITES /\ m * d \in Nat
    BY <1>1
  <1>4. len + m * d + 2 * d + (m + 2) * OPWRITES <= LOGSIZE /\ c <= (m + 2) * OPWRITES
    BY <1>1, <1>2, <1>3
  <1>5. (m + 2) * OPWRITES \in Nat
    BY <1>1
  <1> QED
    BY <1>1, <1>3, <1>4, <1>5

\* Admitting a call: the first one finds the log empty, and a later one is let
\* in only if MAXOPBLOCKS blocks are left for it and for every call inside.
LEMMA Room_begin_op ==
  ASSUME IInv, IInv', RoomInv, NEW p \in Procs, begin_op(p)
  PROVE  RoomInv'
  <1>a. /\ pc[p] = "begin" /\ ~committing /\ ~LogFull
        /\ outstanding' = outstanding + 1
        /\ pc' = [pc EXCEPT ![p] = "op"]
        /\ lh' = lh /\ wrote' = wrote /\ committing' = committing
    BY Zenon DEF begin_op
  <1>b. pc'[p] = "op" /\ \A q \in Procs : q # p => pc'[q] = pc[q]
    BY <1>a, Zenon DEF IInv, TypeOK
  <1>c. InOps' = InOps \cup {p} /\ NoPanic'
    BY <1>b, Zenon DEF InOps, RoomInv, NoPanic
  <1>d. Booted
    BY <1>a, Zenon DEF IInv, RecoverAlone, Booted
  <1>1. Writes'
    BY <1>a, <1>b, Zenon DEF RoomInv, Writes, Logged
  <1>2. Room'
    <2>1. CASE outstanding = 0
      <3>1. InOps = {}
        BY <2>1, UnwrittenAlways, FS_EmptySet, Zenon DEF UnwrittenBounded
      <3>2. lh = <<>>
        BY <1>a, <1>d, <2>1 DEF IInv, LogInUse
      <3>3. Len(lh') = 0 /\ wrote'[p] = {} /\ Cardinality({}) = 0
        BY <1>a, <3>2, FS_EmptySet DEF RoomInv, Writes
      <3>4. Len(lh') <= Cardinality(wrote'[p])
        BY <3>3
      <3>5. InOps' \subseteq {p}
        BY <1>c, <3>1, Zenon
      <3> QED
        BY <3>4, <3>5, Zenon DEF Room
    <2>2. CASE outstanding # 0
      <3>1. /\ outstanding \in Nat /\ Cardinality(Unwritten') \in Nat
            /\ Cardinality(Unwritten') <= outstanding' * OPWRITES
        <4>1. UnwrittenBounded'
          BY UnwrittenAlways, PTL
        <4> QED
          BY <4>1, UnwrittenAlways, Zenon DEF UnwrittenBounded
      <3>2. Len(lh) + (outstanding + 1) * MAXOPBLOCKS <= LOGSIZE /\ Len(lh) \in Nat
        BY <1>a, SizeAssumption, UnwrittenAlways DEF UnwrittenBounded, LogFull, IInv, TypeOK
      <3> QED
        BY <1>a, <2>2, <3>1, <3>2, TwoCalls, Zenon DEF Room
    <2> QED
      BY <2>1, <2>2, Zenon
  <1> QED
    BY <1>1, <1>2, <1>c, Zenon DEF RoomInv

\* log_write() finds room, whether it appends the block or absorbs it.
LEMMA NotTooBig ==
  ASSUME IInv, RoomInv, NEW p \in Procs, pc[p] = "op"
  PROVE  ~TooBig /\ outstanding >= 1 /\ Booted /\ ~committing
  <1>1. Booted /\ ~committing /\ p \in InOps
    BY Zenon DEF IInv, RecoverAlone, OneCommitter, Booted, InOps
  <1>2. outstanding >= 1
    <2>1. outstanding \in Nat /\ outstanding # 0
      BY <1>1, UnwrittenAlways, FS_EmptySet, Zenon DEF UnwrittenBounded
    <2> QED
      BY <2>1
  <1>3. Len(lh) \in Nat
    BY DEF IInv, TypeOK
  <1>4. CASE \E q \in Procs : InOps \subseteq {q} /\ Len(lh) <= Cardinality(wrote[q])
    <2>1. Len(lh) <= Cardinality(wrote[p]) /\ Cardinality(wrote[p]) <= OPWRITES
          /\ Cardinality(wrote[p]) \in Nat
      BY <1>1, <1>4, FS_CardinalityType, Zenon DEF RoomInv, Writes
    <2> QED
      BY <1>1, <1>2, <1>3, <2>1, SizeAssumption, RoomAssumption DEF TooBig
  <1>5. CASE Len(lh) + Cardinality(Unwritten) <= LOGSIZE - 2 * (MAXOPBLOCKS - OPWRITES)
    <2>1. Cardinality(Unwritten) \in Nat
      BY UnwrittenAlways, Zenon DEF UnwrittenBounded
    <2> QED
      BY <1>1, <1>2, <1>3, <1>5, <2>1, SizeAssumption, RoomAssumption DEF TooBig
  <1> QED
    BY <1>1, <1>4, <1>5, Zenon DEF RoomInv, Room

\* A call's next block takes one of the writes it had left.
LEMMA Room_log_write ==
  ASSUME IInv, RoomInv, NEW p \in Procs, NEW b \in Blocks, NEW v \in Val,
         log_write(p, b, v)
  PROVE  RoomInv'
  <1>a. /\ pc[p] = "op" /\ (b \in wrote[p] \/ Cardinality(wrote[p]) < OPWRITES)
        /\ wrote' = [wrote EXCEPT ![p] = @ \cup {b}] /\ committing' = committing
    BY Zenon DEF log_write
  <1>b. ~TooBig /\ outstanding >= 1 /\ Booted /\ ~committing
    BY <1>a, NotTooBig, Zenon
  <1>c. outstanding \in Nat
    BY Zenon DEF IInv, TypeOK
  <1>d. ~(outstanding < 1)
    BY <1>b, <1>c
  <1>e. pc' = pc /\ lh' = IF b \in Logged THEN lh ELSE Append(lh, b)
    BY <1>b, <1>d, Zenon DEF log_write
  <1>f. InOps' = InOps /\ NoPanic' /\ p \in InOps
    BY <1>a, <1>e, Zenon DEF InOps, NoPanic, RoomInv
  <1>g. wrote'[p] = wrote[p] \cup {b} /\ \A q \in Procs : q # p => wrote'[q] = wrote[q]
    BY <1>a, Zenon DEF IInv, TypeOK
  <1>1. CASE b \in wrote[p]
    <2>1. b \in Logged
      BY <1>1, Zenon DEF RoomInv, Writes
    <2>2. wrote' = wrote
      <3>1. \A q \in Procs : wrote'[q] = wrote[q]
        BY <1>1, <1>g, Zenon
      <3>2. wrote = [q \in Procs |-> wrote[q]] /\ wrote' = [q \in Procs |-> wrote'[q]]
        BY <1>a DEF IInv, TypeOK
      <3> QED
        BY <3>1, <3>2, Zenon
    <2>3. lh' = lh
      BY <1>e, <2>1, Zenon
    <2> QED
      BY <1>a, <1>b, <1>f, <2>2, <2>3, RoomKept, Zenon
  <1>2. CASE b \notin wrote[p]
    <2> DEFINE k == Cardinality(wrote[p])
    <2>1. k \in Nat /\ k < OPWRITES /\ IsFiniteSet(wrote[p])
      BY <1>2, <1>a, FS_CardinalityType, Zenon DEF RoomInv, Writes
    <2>2. IsFiniteSet(wrote'[p]) /\ Cardinality(wrote'[p]) = k + 1
      <3> DEFINE W == wrote[p]
      <3>1. IsFiniteSet(W) /\ b \notin W
        BY <1>2, <2>1, Zenon
      <3> HIDE DEF W
      <3>2. IsFiniteSet(W \cup {b}) /\ Cardinality(W \cup {b}) = Cardinality(W) + 1
        BY <3>1, FS_AddElement, Zenon
      <3> QED
        BY <1>g, <3>2, Zenon DEF W
    <2> HIDE DEF k
    <2>3. /\ Len(lh) \in Nat /\ Len(lh') \in Nat /\ Len(lh') <= Len(lh) + 1
          /\ Logged \subseteq Logged' /\ b \in Logged'
      <3>1. CASE b \in Logged
        <4>1. lh' = lh /\ Logged' = Logged /\ lh \in Seq(Blocks)
          BY <1>e, <3>1, Zenon DEF Logged, IInv, TypeOK
        <4>2. Len(lh) \in Nat /\ Len(lh) <= Len(lh) + 1
          BY <4>1
        <4> QED
          BY <3>1, <4>1, <4>2, Zenon
      <3>2. CASE b \notin Logged
        <4>1. Len(lh) \in Nat /\ Len(lh') = Len(lh) + 1 /\ lh'[Len(lh) + 1] = b
              /\ \A i \in 1..Len(lh) : lh'[i] = lh[i]
          BY <1>e, <3>2 DEF IInv, TypeOK
        <4>2. Len(lh) + 1 \in 1..Len(lh') /\ \A i \in 1..Len(lh) : i \in 1..Len(lh')
          BY <4>1
        <4>3. Logged \subseteq Logged' /\ b \in Logged'
          BY <4>1, <4>2, Zenon DEF Logged
        <4> QED
          BY <4>1, <4>3
      <3> QED
        BY <3>1, <3>2, Zenon
    <2>4. Writes'
      <3>1. k + 1 <= OPWRITES
        BY <2>1, SizeAssumption
      <3>2. \A q \in Procs : wrote[q] \subseteq Logged'
        BY <2>3, Zenon DEF RoomInv, Writes
      <3>3. wrote'[p] \subseteq Logged' /\ pc'[p] = "op"
        BY <1>a, <1>e, <1>g, <2>3, <3>2, Zenon
      <3>4. ASSUME NEW q \in Procs, q # p
            PROVE  /\ IsFiniteSet(wrote'[q]) /\ Cardinality(wrote'[q]) <= OPWRITES
                   /\ wrote'[q] \subseteq Logged'
                   /\ pc'[q] # "op" => wrote'[q] = {}
        BY <1>e, <1>g, <3>2, <3>4, Zenon DEF RoomInv, Writes
      <3> QED
        BY <2>2, <3>1, <3>3, <3>4, Zenon DEF Writes
    <2>5. Room'
      <3>1. CASE \E q \in Procs : InOps \subseteq {q} /\ Len(lh) <= Cardinality(wrote[q])
        <4>1. InOps' \subseteq {p} /\ Len(lh) <= k
          BY <1>f, <3>1, Zenon DEF k
        <4>2. Len(lh') <= Cardinality(wrote'[p])
          BY <2>1, <2>2, <2>3, <4>1
        <4> QED
          BY <4>1, <4>2, Zenon DEF Room
      <3>2. CASE Len(lh) + Cardinality(Unwritten) <= LOGSIZE - 2 * (MAXOPBLOCKS - OPWRITES)
        <4> DEFINE x == <<p, k + 1>>
        <4>1. x \in Unwritten
          <5>1. k + 1 \in 1..OPWRITES /\ k + 1 > k
            BY <2>1, SizeAssumption
          <5>2. x \in InOps \X (1..OPWRITES) /\ x[1] = p /\ x[2] = k + 1
            BY <1>f, <5>1
          <5> HIDE DEF x
          <5> QED
            BY <5>1, <5>2, Zenon DEF Unwritten, k
        <4>2. Unwritten' \subseteq Unwritten \ {x}
          <5> SUFFICES ASSUME NEW y \in InOps \X (1..OPWRITES), y[2] > Cardinality(wrote'[y[1]])
                       PROVE  y[2] > Cardinality(wrote[y[1]]) /\ y # x
            BY <1>f, Zenon DEF Unwritten
          <5>1. y[1] \in InOps /\ y[1] \in Procs /\ y[2] \in Nat /\ x[1] = p /\ x[2] = k + 1
            BY SizeAssumption DEF InOps
          <5> HIDE DEF x
          <5>2. CASE y[1] = p
            BY <2>1, <2>2, <5>1, <5>2 DEF k
          <5>3. CASE y[1] # p
            BY <1>g, <5>1, <5>3, Zenon
          <5> QED
            BY <5>2, <5>3, Zenon
        <4> HIDE DEF x
        <4>3. /\ IsFiniteSet(Unwritten) /\ Cardinality(Unwritten) \in Nat
              /\ IsFiniteSet(Unwritten \ {x})
              /\ Cardinality(Unwritten \ {x}) = Cardinality(Unwritten) - 1
          BY <4>1, UnwrittenAlways, FS_RemoveElement, Zenon DEF UnwrittenBounded
        <4>4. Cardinality(Unwritten') <= Cardinality(Unwritten) - 1
              /\ Cardinality(Unwritten') \in Nat
          <5> DEFINE S == Unwritten \ {x}
                     T == Unwritten'
          <5>1. T \in SUBSET S /\ IsFiniteSet(S) /\ Cardinality(S) = Cardinality(Unwritten) - 1
            BY <4>2, <4>3, Zenon
          <5> HIDE DEF S, T
          <5>2. IsFiniteSet(T) /\ Cardinality(T) <= Cardinality(S)
            BY <5>1, FS_Subset, Zenon
          <5>3. Cardinality(T) \in Nat
            BY <5>2, FS_CardinalityType, Zenon
          <5> QED
            BY <5>1, <5>2, <5>3, Zenon DEF T
        <4>5. Len(lh') + Cardinality(Unwritten') <= LOGSIZE - 2 * (MAXOPBLOCKS - OPWRITES)
          BY <2>3, <3>2, <4>3, <4>4, SizeAssumption
        <4> QED
          BY <4>5, Zenon DEF Room
      <3> QED
        BY <1>b, <3>1, <3>2, Zenon DEF RoomInv, Room
    <2> QED
      BY <1>f, <2>4, <2>5, Zenon DEF RoomInv
  <1> QED
    BY <1>1, <1>2, Zenon

\* A call that leaves others behind takes its unused writes with it; the last
\* one starts the commit.
LEMMA Room_end_op ==
  ASSUME IInv, RoomInv, NEW p \in Procs, end_op(p)
  PROVE  RoomInv'
  <1>a. pc[p] = "op" /\ wrote' = [wrote EXCEPT ![p] = {}] /\ lh' = lh
    BY Zenon DEF end_op
  <1>b. Booted /\ ~committing
    BY <1>a, NotTooBig, Zenon
  <1>g. wrote'[p] = {} /\ \A q \in Procs : q # p => wrote'[q] = wrote[q]
    BY <1>a, Zenon DEF IInv, TypeOK
  <1>c. p \in InOps /\ IsFiniteSet(InOps) /\ outstanding = Cardinality(InOps) /\ outstanding \in Nat
    BY <1>a, UnwrittenAlways, Zenon DEF UnwrittenBounded, InOps
  <1>d. IsFiniteSet(InOps \ {p}) /\ Cardinality(InOps \ {p}) = outstanding - 1
    BY <1>c, FS_RemoveElement, Zenon
  <1>e. outstanding' = outstanding - 1
    BY Zenon DEF end_op
  <1>1. CASE outstanding' = 0
    <2>1. InOps \ {p} = {}
      BY <1>1, <1>d, <1>e, FS_EmptySet, Zenon
    <2>2. committing' = TRUE
          /\ pc' = [pc EXCEPT ![p] = IF lh = <<>> THEN "finish" ELSE "write_log"]
      BY <1>1, <1>b, Zenon DEF end_op
    <2>3. pc'[p] \notin InOpPC /\ \A q \in Procs : q # p => pc'[q] = pc[q]
      BY <2>2, Zenon DEF IInv, TypeOK
    <2>4. InOps' = {}
      BY <2>1, <2>3, Zenon DEF InOps
    <2>5. \A q \in Procs : q # p => pc[q] # "op"
      BY <2>1, Zenon DEF InOps
    <2>6. \A q \in Procs : wrote'[q] = {}
      BY <1>g, <2>5, Zenon DEF RoomInv, Writes
    <2> QED
      BY <2>2, <2>4, <2>6, RoomEmpty, Zenon
  <1>2. CASE outstanding' # 0
    <2>1. committing' = committing /\ pc' = [wakeup(pc) EXCEPT ![p] = "idle"]
      BY <1>2, <1>b, Zenon DEF end_op
    <2>2. /\ pc'[p] = "idle"
          /\ \A q \in Procs : q # p => pc'[q] = IF pc[q] = "asleep" THEN "begin" ELSE pc[q]
      BY <2>1, Zenon DEF wakeup
    <2>3. InOps' = InOps \ {p} /\ NoPanic'
      BY <2>2, Zenon DEF InOps, NoPanic, RoomInv
    <2>4. Writes'
      <3>1. IsFiniteSet({}) /\ Cardinality({}) = 0 /\ 0 <= OPWRITES
        BY FS_EmptySet, SizeAssumption
      <3>2. \A q \in Procs : q # p => (pc'[q] = "op" <=> pc[q] = "op")
        BY <2>2, Zenon
      <3>3. Logged' = Logged
        BY <1>a, Zenon DEF Logged
      <3>4. ASSUME NEW q \in Procs, q # p
            PROVE  /\ IsFiniteSet(wrote'[q]) /\ Cardinality(wrote'[q]) <= OPWRITES
                   /\ wrote'[q] \subseteq Logged'
                   /\ pc'[q] # "op" => wrote'[q] = {}
        BY <1>g, <3>2, <3>3, <3>4, Zenon DEF RoomInv, Writes
      <3>5. /\ IsFiniteSet(wrote'[p]) /\ Cardinality(wrote'[p]) <= OPWRITES
            /\ wrote'[p] \subseteq Logged' /\ wrote'[p] = {}
        BY <1>g, <3>1, Zenon
      <3> QED
        BY <3>4, <3>5, Zenon DEF Writes
    <2>5. Len(lh) + Cardinality(Unwritten) <= LOGSIZE - 2 * (MAXOPBLOCKS - OPWRITES)
      <3>1. ~ \E q \in Procs : InOps \subseteq {q}
        <4> SUFFICES ASSUME NEW q \in Procs, InOps \subseteq {q} PROVE FALSE
          BY Zenon
        <4>1. InOps \ {p} = {}
          BY <1>c, Zenon
        <4> QED
          BY <4>1, <1>2, <1>d, <1>e, FS_EmptySet, Zenon
      <3> QED
        BY <3>1, <1>b, Zenon DEF RoomInv, Room
    <2>6. Cardinality(Unwritten') \in Nat /\ Cardinality(Unwritten') <= Cardinality(Unwritten)
      <3> DEFINE S == Unwritten
                 T == Unwritten'
      <3>1. T \subseteq S
        <4> SUFFICES ASSUME NEW y \in InOps' \X (1..OPWRITES), y[2] > Cardinality(wrote'[y[1]])
                     PROVE  y \in Unwritten
          BY Zenon DEF Unwritten
        <4>1. y[1] \in InOps /\ y[1] # p /\ y[1] \in Procs /\ y \in InOps \X (1..OPWRITES)
          BY <2>3 DEF InOps
        <4> QED
          BY <4>1, <1>g, Zenon DEF Unwritten
      <3>2. IsFiniteSet(S)
        BY UnwrittenAlways, Zenon DEF UnwrittenBounded
      <3> HIDE DEF S, T
      <3>3. IsFiniteSet(T) /\ Cardinality(T) <= Cardinality(S)
        BY <3>1, <3>2, FS_Subset, Zenon
      <3> QED
        BY <3>3, FS_CardinalityType, Zenon DEF S, T
    <2>7. Len(lh') + Cardinality(Unwritten') <= LOGSIZE - 2 * (MAXOPBLOCKS - OPWRITES)
      <3>1. Len(lh) \in Nat /\ Cardinality(Unwritten) \in Nat
        BY UnwrittenAlways DEF UnwrittenBounded, IInv, TypeOK
      <3> QED
        BY <1>a, <2>5, <2>6, <3>1, SizeAssumption
    <2> QED
      BY <2>3, <2>4, <2>7, Zenon DEF RoomInv, Room
  <1> QED
    BY <1>1, <1>2, Zenon

\* Every step keeps the room: only calls and their ends touch it, and a commit
\* or a recovery that empties the log has it to itself.
LEMMA RoomNext ==
  ASSUME IInv, IInv', RoomInv, [Next]_vars
  PROVE  RoomInv'
  <1> USE DEF disk, bufs, log
  <1>1. ASSUME NEW p \in Procs, call(p) \/ begin_op_sleep(p)
        PROVE  RoomInv'
    <2>1. /\ lh' = lh /\ wrote' = wrote /\ committing' = committing
          /\ \A q \in Procs : q # p => pc'[q] = pc[q]
          /\ pc[p] \in {"idle", "begin"} /\ pc'[p] \in {"begin", "asleep"}
      BY <1>1, Zenon DEF call, begin_op_sleep, IInv, TypeOK
    <2>2. \A q \in Procs : /\ pc'[q] \in InOpPC <=> pc[q] \in InOpPC
                           /\ pc'[q] \in RecoverPC <=> pc[q] \in RecoverPC
                           /\ pc'[q] = "panic" => pc[q] = "panic"
      BY <2>1, Zenon
    <2>3. InOps' = InOps
      BY <2>2, Zenon DEF InOps
    <2>4. NoPanic' /\ (Booted' <=> Booted)
      BY <2>2, ProcsAssumption, Zenon DEF RoomInv, NoPanic, Booted
    <2> QED
      BY <2>1, <2>3, <2>4, RoomKept, Zenon
  <1>2. ASSUME NEW p \in Procs, write_log(p) \/ write_head(p) \/ install_trans(p)
        PROVE  RoomInv'
    <2>1. /\ lh' = lh /\ wrote' = wrote /\ committing' = committing
          /\ \A q \in Procs : q # p => pc'[q] = pc[q]
          /\ pc[p] \in CommitPC /\ pc'[p] \in CommitPC
      BY <1>2, Zenon DEF write_log, write_head, install_trans, IInv, TypeOK
    <2>2. \A q \in Procs : /\ pc'[q] \in InOpPC <=> pc[q] \in InOpPC
                           /\ pc'[q] \in RecoverPC <=> pc[q] \in RecoverPC
                           /\ pc'[q] = "panic" => pc[q] = "panic"
      BY <2>1, Zenon
    <2>3. InOps' = InOps
      BY <2>2, Zenon DEF InOps
    <2>4. NoPanic' /\ (Booted' <=> Booted)
      BY <2>2, ProcsAssumption, Zenon DEF RoomInv, NoPanic, Booted
    <2> QED
      BY <2>1, <2>3, <2>4, RoomKept, Zenon
  <1>3. ASSUME NEW p \in Procs, clear(p) \/ finish(p)
        PROVE  RoomInv'
    <2>1. committing
      BY <1>3, Zenon DEF clear, finish, IInv, OneCommitter
    <2>2. InOps = {} /\ \A q \in Procs : wrote[q] = {}
      BY <2>1, NoCalls, Zenon
    <2>3. lh' = <<>> /\ wrote' = wrote
      BY <1>3, Zenon DEF clear, finish, IInv, LogInUse
    <2>4. \A q \in Procs : pc'[q] \in InOpPC => pc[q] \in InOpPC
      BY <1>3, Zenon DEF clear, finish, wakeup, IInv, TypeOK
    <2>5. InOps' = {}
      BY <2>2, <2>4, Zenon DEF InOps
    <2> QED
      BY <2>2, <2>3, <2>5, RoomEmpty, Zenon
  <1>4. CASE Recover
    <2>1. ~Booted
      BY <1>4, Zenon DEF Recover, read_head, recover_install, recover_clear, Booted
    <2>2. InOps = {} /\ \A q \in Procs : wrote[q] = {}
      BY <2>1, NoCalls, Zenon
    <2>3. wrote' = wrote /\ \A q \in Procs : q # InitProc => pc'[q] = pc[q]
      BY <1>4, Zenon DEF Recover, read_head, recover_install, recover_clear, IInv, TypeOK
    <2>4. pc'[InitProc] \in RecoverPC \/ (pc'[InitProc] = "idle" /\ lh' = <<>>)
      BY <1>4, ProcsAssumption, Zenon
         DEF Recover, read_head, recover_install, recover_clear, IInv, TypeOK
    <2>5. InOps' = {}
      BY <2>2, <2>3, <2>4, Zenon DEF InOps
    <2>6. Booted' => lh' = <<>>
      BY <2>4, Zenon DEF Booted
    <2> QED
      BY <2>2, <2>3, <2>5, <2>6, RoomEmpty, Zenon
  <1>5. CASE Crash
    <2>1. lh' = <<>> /\ InOps' = {} /\ \A q \in Procs : wrote'[q] = {}
      BY <1>5, Zenon DEF Crash, InOps
    <2> QED
      BY <2>1, RoomEmpty, Zenon
  <1>6. ASSUME UNCHANGED <<lh, wrote, committing, pc>>
        PROVE  RoomInv'
    <2>1. InOps' = InOps /\ NoPanic' /\ (Booted' <=> Booted) /\ committing' = committing
      BY <1>6, Zenon DEF InOps, RoomInv, NoPanic, Booted
    <2>2. lh' = lh /\ wrote' = wrote
      BY <1>6, Zenon
    <2> QED
      BY <2>1, <2>2, RoomKept, Zenon
  <1>7. ASSUME NEW p \in Procs, NEW b \in Blocks, bread(p, b) \/ brelse(p, b)
        PROVE  RoomInv'
    BY <1>7, <1>6, Zenon DEF bread, brelse
  <1>8. ASSUME NEW b \in Blocks, recycle(b)
        PROVE  RoomInv'
    BY <1>8, <1>6, Zenon DEF recycle
  <1>9. CASE UNCHANGED vars
    BY <1>9, <1>6, Zenon DEF vars
  <1> QED
    BY <1>1, <1>2, <1>3, <1>4, <1>5, <1>7, <1>8, <1>9,
       Room_begin_op, Room_log_write, Room_end_op, Zenon DEF Next, Commit

\* The initial state has an empty log and no call.
LEMMA RoomInit == Init => RoomInv
  <1> SUFFICES ASSUME Init PROVE RoomInv
    BY Zenon
  <1>1. NoPanic /\ InOps = {} /\ (\A p \in Procs : wrote[p] = {}) /\ ~Booted
    BY ProcsAssumption, Zenon DEF Init, NoPanic, InOps, Booted
  <1>2. IsFiniteSet({}) /\ Cardinality({}) = 0 /\ 0 <= OPWRITES
    BY FS_EmptySet, SizeAssumption
  <1> QED
    BY <1>1, <1>2, Zenon DEF RoomInv, Writes, Room

\* No panic in log.c: begin_op()'s reservation keeps log_write() from ever
\* reporting "too big a transaction" or a write outside a transaction, and
\* end_op() never meets a running commit, through crashes and recoveries, for
\* any processes and blocks and every size of the log that RoomAssumption allows.
THEOREM ReservationSuffices == Spec => []NoPanic
  <1>1. Init => IInv /\ RoomInv
    BY InitInv, RoomInit, Zenon
  <1>2. (IInv /\ RoomInv) /\ [Next]_vars => (IInv /\ RoomInv)'
    BY InvNext, RoomNext, Zenon
  <1>3. IInv /\ RoomInv => NoPanic
    BY Zenon DEF RoomInv
  <1> QED
    BY <1>1, <1>2, <1>3, PTL DEF Spec
=============================================================================
