----------------------------- MODULE PipeProofs -----------------------------
(* The pipe of Pipe.tla loses no wakeup, is freed only when nobody uses it *)
(* and is a bounded FIFO, for any number of processes, any PIPESIZE and    *)
(* any width of its counters.                                              *)
EXTENDS Pipe, RingTheorems, SequenceTheorems, TLAPS

WriterPC == {"user", "wacquire", "wloop", "wput", "wasleep"}
ReaderPC == {"user", "racquire", "rloop", "rwait", "rcopy", "rasleep"}

TypeOK ==
    /\ data \in [0 .. PIPESIZE - 1 -> Byte]
    /\ nread \in 0 .. MOD - 1 /\ nwrite \in 0 .. MOD - 1
    /\ readopen \in BOOLEAN /\ writeopen \in BOOLEAN /\ freed \in BOOLEAN
    /\ lock \in Procs \cup {None}
    /\ open \subseteq Procs
    /\ killed \in [Procs -> BOOLEAN]
    /\ pc \in [Procs -> WriterPC \cup ReaderPC]
    /\ \A p \in Writers : pc[p] \in WriterPC
    /\ \A p \in Readers : pc[p] \in ReaderPC
    /\ i \in [Procs -> Nat] /\ n \in [Procs -> Nat]

\* Who is between acquire() and release() or sleep() is who has pi->lock.
LockHeld == \A p \in Procs : pc[p] \in {"wloop", "wput", "rloop", "rwait", "rcopy"} <=> lock = p

\* A closed end stays unused, and calls are made through open ends only.
Ends ==
    /\ ~writeopen => open \cap Writers = {}
    /\ ~readopen => open \cap Readers = {}
    /\ freed => ~readopen /\ ~writeopen
    /\ \A p \in Procs : pc[p] # "user" => p \in open

\* What a process has tested stays true up to its sleep or its write, because
\* it has pi->lock.
Tested ==
    /\ \A p \in Procs : pc[p] = "rwait" => Wait
    /\ \A p \in Procs : pc[p] = "wput" => readopen

IInv == TypeOK /\ LockHeld /\ Ends /\ Tested /\ Count <= PIPESIZE /\ NoLostWakeup

-----------------------------------------------------------------------------
(* Types and counters.                                                     *)

\* No process is at both ends of the pipe, and "nobody" is not a process.
LEMMA Roles == Writers \cap Readers = {} /\ None \notin Writers \cup Readers
  BY PipeAssumption, Zenon DEF Procs

\* The ring is smaller than the range of its counters.
LEMMA Sizes == PIPESIZE \in Nat \ {0} /\ MOD \in Nat \ {0} /\ PIPESIZE < MOD
  BY PipeAssumption

USE DEF Procs

\* pipealloc() makes a well-formed pipe.
LEMMA InitType == Init => TypeOK
  <1> SUFFICES ASSUME Init PROVE TypeOK
    BY Zenon
  <1> USE PipeAssumption
  <1>1. data \in [0 .. PIPESIZE - 1 -> Byte]
    BY DEF Init
  <1>2. readopen \in BOOLEAN /\ writeopen \in BOOLEAN /\ freed \in BOOLEAN
    BY Zenon DEF Init
  <1> QED
    BY <1>1, <1>2 DEF Init, TypeOK, WriterPC, ReaderPC

\* Every step of pipewrite(), piperead(), pipeclose() and kill() keeps the
\* types; the counters stay below MOD because they are unsigned.
LEMMA NextType ==
  ASSUME TypeOK, [Next]_vars
  PROVE  TypeOK'
  <1> USE Roles, Sizes DEF TypeOK, pipe, Goto, wakeup, leave, return, return_waking,
             WriterPC, ReaderPC
  <1>1. ASSUME NEW p \in Procs, call(p) PROVE TypeOK'
    BY <1>1 DEF call
  <1>2. ASSUME NEW p \in Procs, acquire(p) PROVE TypeOK'
    BY <1>2, Zenon DEF acquire
  <1>3. ASSUME NEW p \in Procs, Write(p) PROVE TypeOK'
    <2>1. CASE write_refused(p)
      BY <2>1, Zenon DEF write_refused
    <2>2. CASE write_check(p)
      BY <2>2, Zenon DEF write_check
    <2>3. CASE write_sleep(p)
      BY <2>3, Zenon DEF write_sleep
    <2>4. ASSUME NEW b \in Byte, write_byte(p, b) PROVE TypeOK'
      BY <2>4 DEF write_byte
    <2>5. CASE write_fault(p)
      BY <2>5, Zenon DEF write_fault
    <2>6. CASE write_done(p)
      BY <2>6, Zenon DEF write_done
    <2> QED
      BY <1>3, <2>1, <2>2, <2>3, <2>4, <2>5, <2>6, Zenon DEF Write
  <1>4. ASSUME NEW p \in Procs, Read(p) PROVE TypeOK'
    <2>1. CASE read_killed(p)
      BY <2>1, Zenon DEF read_killed
    <2>2. CASE read_check(p)
      BY <2>2, Zenon DEF read_check
    <2>3. CASE read_sleep(p)
      BY <2>3, Zenon DEF read_sleep
    <2>4. CASE read_start(p)
      BY <2>4, Zenon DEF read_start
    <2>5. CASE read_byte(p)
      BY <2>5 DEF read_byte, take
    <2>6. CASE read_fault(p)
      <3>1. nread' \in 0 .. MOD - 1
        BY <2>6 DEF read_fault, take
      <3> QED
        BY <2>6, <3>1, Zenon DEF read_fault, take
    <2>7. CASE read_done(p)
      BY <2>7, Zenon DEF read_done
    <2> QED
      BY <1>4, <2>1, <2>2, <2>3, <2>4, <2>5, <2>6, <2>7, Zenon DEF Read
  <1>5. ASSUME NEW p \in Procs, close(p) PROVE TypeOK'
    <2>1. readopen' \in BOOLEAN /\ writeopen' \in BOOLEAN /\ freed' \in BOOLEAN
      BY <1>5, Zenon DEF close, Frees
    <2>2. pc' \in [Procs -> WriterPC \cup ReaderPC] /\ (\A q \in Writers : pc'[q] \in WriterPC)
            /\ (\A q \in Readers : pc'[q] \in ReaderPC)
      BY <1>5 DEF close
    <2>3. open' \subseteq Procs
      BY <1>5, Zenon DEF close
    <2> QED
      BY <1>5, <2>1, <2>2, <2>3, Zenon DEF close
  <1>6. ASSUME NEW p \in Procs, kill(p) PROVE TypeOK'
    BY <1>6, Zenon DEF kill
  <1>7. CASE UNCHANGED vars
    BY <1>7, Zenon DEF vars
  <1> QED
    BY <1>1, <1>2, <1>3, <1>4, <1>5, <1>6, <1>7, Zenon DEF Next

\* What the 32-bit difference of two counters is, and their increment.
LEMMA Wraps ==
  ASSUME NEW a \in 0 .. MOD - 1, NEW b \in 0 .. MOD - 1
  PROVE  /\ (a - b) % MOD = IF a >= b THEN a - b ELSE a - b + MOD
         /\ (a + 1) % MOD = IF a = MOD - 1 THEN 0 ELSE a + 1
         /\ (a + PIPESIZE) % MOD = IF a + PIPESIZE < MOD THEN a + PIPESIZE ELSE a + PIPESIZE - MOD
  <1>1. ASSUME NEW x \in -MOD .. 2 * MOD - 1
        PROVE  x % MOD = IF x < 0 THEN x + MOD ELSE IF x < MOD THEN x ELSE x - MOD
    BY ModWraps, Sizes, Zenon
  <1>2. a - b \in -MOD .. 2 * MOD - 1 /\ a + 1 \in -MOD .. 2 * MOD - 1
          /\ a + PIPESIZE \in -MOD .. 2 * MOD - 1
    BY Sizes
  <1>3. (a - b) % MOD = IF a >= b THEN a - b ELSE a - b + MOD
    BY <1>1, <1>2, Sizes
  <1>4. (a + 1) % MOD = IF a = MOD - 1 THEN 0 ELSE a + 1
    BY <1>1, <1>2, Sizes
  <1>5. (a + PIPESIZE) % MOD = IF a + PIPESIZE < MOD THEN a + PIPESIZE ELSE a + PIPESIZE - MOD
    BY <1>1, <1>2, Sizes
  <1> QED
    BY <1>3, <1>4, <1>5, Zenon

\* The test of pipewrite() and the test of piperead(), on counters that wrap.
LEMMA TestsRight ==
  ASSUME TypeOK
  PROVE  (Empty <=> Count = 0) /\ (Full <=> Count = PIPESIZE)
  <1>1. Count = IF nwrite >= nread THEN nwrite - nread ELSE nwrite - nread + MOD
    BY Wraps, Zenon DEF TypeOK, Count
  <1>2. (nread + PIPESIZE) % MOD =
           IF nread + PIPESIZE < MOD THEN nread + PIPESIZE ELSE nread + PIPESIZE - MOD
    BY Wraps, Zenon DEF TypeOK
  <1>3. Full <=> nwrite = IF nread + PIPESIZE < MOD THEN nread + PIPESIZE
                          ELSE nread + PIPESIZE - MOD
    BY <1>2 DEF Full
  <1> QED
    BY <1>1, <1>3, Sizes DEF TypeOK, Empty

\* A byte that is written makes the count grow by one and one that is taken
\* out makes it shrink by one, also where a counter wraps.
LEMMA CountSteps ==
  ASSUME TypeOK, TypeOK', Count <= PIPESIZE
  PROVE  /\ nwrite' = (nwrite + 1) % MOD /\ nread' = nread /\ ~Full =>
              Count' = Count + 1 /\ Count' <= PIPESIZE
         /\ nread' = (nread + 1) % MOD /\ nwrite' = nwrite /\ ~Empty =>
              Count' = Count - 1 /\ Count' <= PIPESIZE
  <1>1. Count = IF nwrite >= nread THEN nwrite - nread ELSE nwrite - nread + MOD
    BY Wraps, Zenon DEF TypeOK, Count
  <1>2. Count' = IF nwrite' >= nread' THEN nwrite' - nread' ELSE nwrite' - nread' + MOD
    BY Wraps, Zenon DEF TypeOK, Count
  <1>3. ASSUME nwrite' = (nwrite + 1) % MOD, nread' = nread, ~Full
        PROVE  Count' = Count + 1 /\ Count' <= PIPESIZE
    <2>1. nwrite' = IF nwrite = MOD - 1 THEN 0 ELSE nwrite + 1
      BY <1>3, Wraps, Zenon DEF TypeOK
    <2>2. nread' = nread /\ Count < PIPESIZE
      BY <1>1, <1>3, TestsRight, Sizes DEF TypeOK
    <2> QED
      BY <1>1, <1>2, <2>1, <2>2, Sizes DEF TypeOK
  <1>4. ASSUME nread' = (nread + 1) % MOD, nwrite' = nwrite, ~Empty
        PROVE  Count' = Count - 1 /\ Count' <= PIPESIZE
    <2>1. nread' = IF nread = MOD - 1 THEN 0 ELSE nread + 1
      BY <1>4, Wraps, Zenon DEF TypeOK
    <2>2. nwrite' = nwrite /\ Count # 0
      BY <1>4, TestsRight, Zenon
    <2> QED
      BY <1>1, <1>2, <2>1, <2>2, Sizes DEF TypeOK
  <1> QED
    BY <1>3, <1>4, Zenon

-----------------------------------------------------------------------------
(* The inductive invariant.                                                *)

\* The invariant holds for the pipe that pipealloc() returns.
LEMMA InitInv == Init => IInv
  <1> SUFFICES ASSUME Init PROVE IInv
    BY Zenon
  <1>1. TypeOK
    BY InitType, Zenon
  <1>2. LockHeld /\ Ends /\ Tested /\ NoLostWakeup
    BY Roles, Zenon DEF Init, LockHeld, Ends, Tested, NoLostWakeup
  <1>3. Count <= PIPESIZE
    BY Sizes, ModSmall DEF Init, Count
  <1> QED
    BY <1>1, <1>2, <1>3, Zenon DEF IInv

\* Every step of pipewrite(), piperead(), pipeclose() and kill() keeps the
\* invariant.
LEMMA NextInv ==
  ASSUME IInv, [Next]_vars
  PROVE  IInv'
  <1>0. TypeOK /\ TypeOK'
    BY NextType, Zenon DEF IInv
  <1> USE Roles, <1>0 DEF IInv, TypeOK, WriterPC, ReaderPC, LockHeld, Ends, Tested,
             Wait, Empty, pipe, Goto, wakeup, leave, return, return_waking
  <1>1. ASSUME NEW p \in Procs, call(p) PROVE IInv'
    BY <1>1 DEF call, Count, NoLostWakeup, Full
  <1>2. ASSUME NEW p \in Procs, acquire(p) PROVE IInv'
    BY <1>2 DEF acquire, Count, NoLostWakeup, Full
  <1>3. ASSUME NEW p \in Procs, write_refused(p) PROVE IInv'
    BY <1>3 DEF write_refused, Count, NoLostWakeup, Full
  <1>4. ASSUME NEW p \in Procs, write_check(p) PROVE IInv'
    BY <1>4 DEF write_check, Count, NoLostWakeup, Full
  <1>5. ASSUME NEW p \in Procs, write_sleep(p) PROVE IInv'
    <2>1. (LockHeld /\ Ends /\ Tested)'
      BY <1>5 DEF write_sleep
    <2>2. NoLostWakeup'
      <3>1. ASSUME NEW q \in Readers PROVE pc'[q] # "rasleep"
        BY <1>5, Zenon DEF write_sleep, NoLostWakeup, Full
      <3>2. ASSUME NEW q \in Writers, pc'[q] = "wasleep" PROVE Full' /\ readopen'
        BY <1>5, <3>2, Zenon DEF write_sleep, NoLostWakeup, Full
      <3> QED
        BY <3>1, <3>2, Zenon DEF NoLostWakeup
    <2>3. Count' = Count
      BY <1>5, Zenon DEF write_sleep, Count
    <2> QED
      BY <2>1, <2>2, <2>3, Zenon
  <1>6. ASSUME NEW p \in Procs, NEW b \in Byte, write_byte(p, b) PROVE IInv'
    <2>1. Count' <= PIPESIZE
      BY <1>6, CountSteps, Zenon DEF write_byte
    <2>2. (LockHeld /\ Ends /\ Tested)'
      BY <1>6 DEF write_byte
    <2>3. NoLostWakeup'
      BY <1>6 DEF write_byte, NoLostWakeup, Full
    <2> QED
      BY <2>1, <2>2, <2>3, Zenon
  <1>7. ASSUME NEW p \in Procs, write_fault(p) PROVE IInv'
    <2>1. (LockHeld /\ Ends /\ Tested)'
      BY <1>7 DEF write_fault
    <2>2. NoLostWakeup'
      BY <1>7, Zenon DEF write_fault, NoLostWakeup, Full
    <2>3. Count' = Count
      BY <1>7, Zenon DEF write_fault, Count
    <2> QED
      BY <2>1, <2>2, <2>3, Zenon
  <1>8. ASSUME NEW p \in Procs, write_done(p) PROVE IInv'
    <2>1. (LockHeld /\ Ends /\ Tested)'
      BY <1>8 DEF write_done
    <2>2. NoLostWakeup'
      BY <1>8, Zenon DEF write_done, NoLostWakeup, Full
    <2>3. Count' = Count
      BY <1>8, Zenon DEF write_done, Count
    <2> QED
      BY <2>1, <2>2, <2>3, Zenon
  <1>9. ASSUME NEW p \in Procs, read_killed(p) PROVE IInv'
    BY <1>9 DEF read_killed, Count, NoLostWakeup, Full
  <1>10. ASSUME NEW p \in Procs, read_check(p) PROVE IInv'
    BY <1>10 DEF read_check, Count, NoLostWakeup, Full
  <1>11. ASSUME NEW p \in Procs, read_sleep(p) PROVE IInv'
    BY <1>11 DEF read_sleep, Count, NoLostWakeup, Full
  <1>12. ASSUME NEW p \in Procs, read_start(p) PROVE IInv'
    BY <1>12 DEF read_start, Count, NoLostWakeup, Full
  <1>13. ASSUME NEW p \in Procs, read_byte(p) PROVE IInv'
    <2>1. Count' <= PIPESIZE
      BY <1>13, CountSteps, Zenon DEF read_byte, take
    <2>2. (LockHeld /\ Ends /\ Tested)'
      BY <1>13, Zenon DEF read_byte, take
    <2>3. NoLostWakeup'
      BY <1>13, Zenon DEF read_byte, take, NoLostWakeup, Full
    <2> QED
      BY <2>1, <2>2, <2>3, Zenon
  <1>14. ASSUME NEW p \in Procs, read_fault(p) PROVE IInv'
    <2>1. Count' <= PIPESIZE
      BY <1>14, CountSteps, Zenon DEF read_fault, take
    <2>2. (LockHeld /\ Ends /\ Tested)'
      BY <1>14 DEF read_fault, take
    <2>3. NoLostWakeup'
      BY <1>14, Zenon DEF read_fault, take, NoLostWakeup, Full
    <2> QED
      BY <2>1, <2>2, <2>3, Zenon
  <1>15. ASSUME NEW p \in Procs, read_done(p) PROVE IInv'
    <2>1. (LockHeld /\ Ends /\ Tested)'
      BY <1>15 DEF read_done
    <2>2. NoLostWakeup'
      <3>1. ASSUME NEW q \in Readers, pc'[q] = "rasleep"
            PROVE  Wait' \/ (writeopen' /\ \E w \in Writers : killed'[w])
        BY <1>15, <3>1, Zenon DEF read_done, NoLostWakeup
      <3>2. ASSUME NEW q \in Writers PROVE pc'[q] # "wasleep"
        BY <1>15, Zenon DEF read_done, NoLostWakeup, Full
      <3> QED
        BY <3>1, <3>2, Zenon DEF NoLostWakeup
    <2>3. Count' = Count
      BY <1>15, Zenon DEF read_done, Count
    <2> QED
      BY <2>1, <2>2, <2>3, Zenon
  <1>16. ASSUME NEW p \in Procs, close(p) PROVE IInv'
    <2>1. (LockHeld /\ Ends /\ Tested)'
      BY <1>16 DEF close, Last, Frees, Chan
    <2>2. NoLostWakeup'
      <3>0. Full' = Full
        BY <1>16, Zenon DEF close, Full
      <3>1. CASE ~Last(p)
        BY <1>16, <3>0, <3>1 DEF close, NoLostWakeup
      <3>2. CASE Last(p) /\ p \in Writers
        BY <1>16, <3>0, <3>2 DEF close, Chan, Last, NoLostWakeup
      <3>3. CASE Last(p) /\ p \in Readers
        BY <1>16, <3>0, <3>3 DEF close, Chan, Last, NoLostWakeup
      <3> QED
        BY <3>1, <3>2, <3>3, Zenon
    <2>3. Count' = Count
      BY <1>16, Zenon DEF close, Count
    <2> QED
      BY <2>1, <2>2, <2>3, Zenon
  <1>17. ASSUME NEW p \in Procs, kill(p) PROVE IInv'
    <2>1. (LockHeld /\ Ends /\ Tested)'
      BY <1>17 DEF kill
    <2>2. NoLostWakeup'
      BY <1>17 DEF kill, NoLostWakeup, Full
    <2>3. Count' = Count
      BY <1>17, Zenon DEF kill, Count
    <2> QED
      BY <2>1, <2>2, <2>3, Zenon
  <1>18. CASE UNCHANGED vars
    BY <1>18, Zenon DEF vars, Count, NoLostWakeup, Full
  <1> QED
    BY <1>1, <1>2, <1>3, <1>4, <1>5, <1>6, <1>7, <1>8, <1>9, <1>10, <1>11, <1>12,
       <1>13, <1>14, <1>15, <1>16, <1>17, <1>18, Zenon DEF Next, Write, Read

\* The inductive invariant holds in every state of the pipe.
THEOREM Invariance == Spec => []IInv
  <1> QED
    BY InitInv, NextInv, PTL DEF Spec

\* No reader and no writer sleeps through the change it waits for.
THEOREM WakeupsKept == Spec => []NoLostWakeup
  <1>1. IInv => NoLostWakeup
    BY DEF IInv
  <1> QED
    BY <1>1, Invariance, PTL

\* pipeclose() frees the page only after the last call on the pipe.
THEOREM NeverFreedInUse == Spec => []FreedUnused
  <1>1. IInv => FreedUnused
    BY DEF IInv, TypeOK, Ends, FreedUnused
  <1> QED
    BY <1>1, Invariance, PTL

-----------------------------------------------------------------------------
(* The ring implements the queue.                                          *)

\* The slots of the ring do not move when a counter wraps.
LEMMA SlotPeriod ==
  ASSUME NEW x \in Int
  PROVE  (x + MOD) % PIPESIZE = x % PIPESIZE
  <1>1. MOD % PIPESIZE = 0
    BY PipeAssumption, Zenon
  <1> QED
    BY <1>1, Period, Sizes, Zenon

\* Fewer than PIPESIZE bytes further on there is another slot.
LEMMA SlotsApart ==
  ASSUME NEW x \in Int, NEW d \in 1 .. PIPESIZE - 1
  PROVE  (x + d) % PIPESIZE # x % PIPESIZE
  BY OtherSlot, Sizes, Zenon

\* What lies between nread and nwrite is a sequence of Count bytes.
LEMMA QueueType ==
  ASSUME TypeOK, Count \in Nat
  PROVE  Queue \in Seq(Byte) /\ Len(Queue) = Count /\ DOMAIN Queue = 1 .. Count
  <1>1. ASSUME NEW k \in 1 .. Count PROVE data[(nread + k - 1) % PIPESIZE] \in Byte
    BY Sizes DEF TypeOK
  <1> QED
    BY <1>1 DEF Queue

\* The slot of the next byte follows those that are in use.
LEMMA NextSlot ==
  ASSUME TypeOK
  PROVE  Count \in Nat /\ (nread + Count) % PIPESIZE = nwrite % PIPESIZE
  <1>1. Count = IF nwrite >= nread THEN nwrite - nread ELSE nwrite - nread + MOD
    BY Wraps, Zenon DEF TypeOK, Count
  <1>2. CASE nwrite >= nread
    BY <1>1, <1>2, Sizes DEF TypeOK
  <1>3. CASE nwrite < nread
    <2>1. nread + Count = nwrite + MOD /\ Count \in Nat
      BY <1>1, <1>3, Sizes DEF TypeOK
    <2>2. (nwrite + MOD) % PIPESIZE = nwrite % PIPESIZE
      BY SlotPeriod DEF TypeOK
    <2> QED
      BY <2>1, <2>2, Zenon
  <1> QED
    BY <1>2, <1>3 DEF TypeOK

\* pipewrite() puts its byte at the end of the queue.
LEMMA WritePuts ==
  ASSUME IInv, IInv', NEW p \in Procs, NEW b \in Byte, write_byte(p, b)
  PROVE  Ring!Put(b)
  <1> USE DEF IInv
  <1>1. Count' = Count + 1 /\ Count < PIPESIZE /\ Count \in Nat /\ Count' \in Nat
    BY CountSteps, TestsRight, NextSlot, Sizes DEF write_byte
  <1>2. Queue \in Seq(Byte) /\ Len(Queue) = Count
    BY <1>1, QueueType, Zenon
  <1>3. ASSUME NEW k \in 1 .. Count PROVE Queue'[k] = Queue[k]
    <2>1. (nread + k - 1) % PIPESIZE # nwrite % PIPESIZE
      <3>1. ((nread + k - 1) + (Count - k + 1)) % PIPESIZE # (nread + k - 1) % PIPESIZE
        <4>1. nread + k - 1 \in Int /\ Count - k + 1 \in 1 .. PIPESIZE - 1
          BY <1>1, Sizes DEF TypeOK
        <4> QED
          BY <4>1, SlotsApart, Zenon
      <3>2. (nread + k - 1) + (Count - k + 1) = nread + Count
        BY <1>1 DEF TypeOK
      <3> QED
        BY <3>1, <3>2, NextSlot, Zenon
    <2> DEFINE s == (nread + k - 1) % PIPESIZE
    <2>2. s \in 0 .. PIPESIZE - 1
      BY Sizes DEF TypeOK
    <2>3. data'[s] = data[s] /\ nread' = nread
      BY <2>1, <2>2, Zenon DEF write_byte, TypeOK
    <2>4. Queue'[k] = data'[(nread' + k - 1) % PIPESIZE] /\ Queue[k] = data[s]
      BY <1>1 DEF Queue
    <2> QED
      BY <2>3, <2>4, Zenon
  <1>4. Queue'[Count + 1] = b
    <2>1. Queue'[Count + 1] = data'[(nread' + (Count + 1) - 1) % PIPESIZE]
      BY <1>1 DEF Queue
    <2>2. nread' + (Count + 1) - 1 = nread + Count
      BY <1>1 DEF TypeOK, write_byte
    <2>3. nwrite % PIPESIZE \in 0 .. PIPESIZE - 1
      BY Sizes DEF TypeOK
    <2> QED
      BY <2>1, <2>2, <2>3, NextSlot, Zenon DEF write_byte, TypeOK
  <1>5. Queue' = Append(Queue, b)
    <2>1. Queue' = [k \in 1 .. Count + 1 |-> Queue'[k]]
      BY <1>1, Zenon DEF Queue
    <2> QED
      BY <1>1, <1>2, <1>3, <1>4, <2>1
  <1>6. readopen /\ writeopen /\ UNCHANGED <<readopen, writeopen>>
    BY Zenon DEF write_byte, Tested, Ends, TypeOK, ReaderPC
  <1> QED
    BY <1>1, <1>2, <1>5, <1>6, Zenon DEF Ring!Put

\* piperead() takes the first byte of the queue.
LEMMA ReadGets ==
  ASSUME IInv, IInv', NEW p \in Procs, pc[p] = "rcopy", take, ~Empty
  PROVE  Ring!Get
  <1> USE DEF IInv
  <1>1. Count' = Count - 1 /\ Count \in Nat \ {0}
    BY CountSteps, TestsRight, NextSlot, Zenon DEF take
  <1>2. Queue \in Seq(Byte) /\ Len(Queue) = Count
    BY <1>1, QueueType, Zenon
  <1>3. ASSUME NEW k \in 1 .. Count - 1 PROVE Queue'[k] = Queue[k + 1]
    <2>1. Queue'[k] = data'[(nread' + k - 1) % PIPESIZE]
            /\ Queue[k + 1] = data[(nread + (k + 1) - 1) % PIPESIZE]
      BY <1>1 DEF Queue
    <2>2. nread' = IF nread = MOD - 1 THEN 0 ELSE nread + 1
      BY Wraps, Zenon DEF take, TypeOK
    <2>3. ((k - 1) + MOD) % PIPESIZE = (k - 1) % PIPESIZE
      BY SlotPeriod, <1>1
    <2>4. CASE nread = MOD - 1
      <3>1. nread' + k - 1 = k - 1 /\ nread + (k + 1) - 1 = (k - 1) + MOD
        BY <1>1, <2>2, <2>4, Sizes
      <3> QED
        BY <2>1, <2>3, <3>1, Zenon DEF take
    <2>5. CASE nread # MOD - 1
      <3>1. nread' + k - 1 = nread + (k + 1) - 1
        BY <1>1, <2>2, <2>5 DEF TypeOK
      <3> QED
        BY <2>1, <3>1, Zenon DEF take
    <2> QED
      BY <2>4, <2>5, Zenon
  <1>4. Queue' = Tail(Queue)
    <2>1. Queue' = [k \in 1 .. Count - 1 |-> Queue'[k]]
      BY <1>1, Zenon DEF Queue
    <2> QED
      BY <1>1, <1>2, <1>3, <2>1
  <1>5. readopen /\ UNCHANGED <<readopen, writeopen>>
    BY Roles, Zenon DEF take, Ends, TypeOK, WriterPC
  <1> QED
    BY <1>1, <1>2, <1>4, <1>5, Zenon DEF Ring!Get

\* Every step of the pipe is a step of the queue or leaves it alone.
LEMMA StepImplements ==
  ASSUME IInv, IInv', [Next]_vars
  PROVE  [Ring!Next]_Ring!vars
  <1>1. ASSUME UNCHANGED pipe PROVE UNCHANGED Ring!vars
    BY <1>1, Zenon DEF pipe, Ring!vars, Queue, Count
  <1>2. ASSUME NEW p \in Procs, close(p) PROVE [Ring!Next]_Ring!vars
    <2>1. Queue' = Queue
      BY <1>2, Zenon DEF close, Queue, Count
    <2>2. CASE ~Last(p)
      BY <1>2, <2>1, <2>2, Zenon DEF close, Ring!vars
    <2>3. CASE Last(p) /\ p \in Writers
      <3>1. writeopen /\ writeopen' = FALSE /\ readopen' = readopen
        BY <1>2, <2>3, Roles, Zenon DEF close, Last, IInv, TypeOK, Ends
      <3> QED
        BY <2>1, <3>1, Zenon DEF Ring!Next, Ring!CloseWrite
    <2>4. CASE Last(p) /\ p \in Readers
      <3>1. readopen /\ readopen' = FALSE /\ writeopen' = writeopen
        BY <1>2, <2>4, Roles, Zenon DEF close, Last, IInv, TypeOK, Ends
      <3> QED
        BY <2>1, <3>1, Zenon DEF Ring!Next, Ring!CloseRead
    <2> QED
      BY <2>2, <2>3, <2>4, Zenon
  <1>3. ASSUME NEW p \in Procs, Write(p) PROVE [Ring!Next]_Ring!vars
    <2>1. ASSUME NEW b \in Byte, write_byte(p, b) PROVE Ring!Next
      BY <2>1, WritePuts, Zenon DEF Ring!Next
    <2> QED
      BY <1>1, <1>3, <2>1, Zenon DEF Write, write_refused, write_check, write_sleep, write_fault,
         write_done
  <1>4. ASSUME NEW p \in Procs, Read(p) PROVE [Ring!Next]_Ring!vars
    <2>1. CASE read_byte(p) \/ read_fault(p)
      BY <2>1, ReadGets, Zenon DEF Ring!Next, read_byte, read_fault
    <2> QED
      BY <1>1, <1>4, <2>1, Zenon
         DEF Read, read_killed, read_check, read_sleep, read_start, read_done
  <1>5. ASSUME NEW p \in Procs, call(p) \/ acquire(p) \/ kill(p) PROVE UNCHANGED pipe
    BY <1>5, Zenon DEF call, acquire, kill
  <1>6. CASE UNCHANGED vars
    BY <1>1, <1>6, Zenon DEF vars, pipe
  <1> QED
    BY <1>1, <1>2, <1>3, <1>4, <1>5, <1>6, Zenon DEF Next

\* The ring of pipe.c is a bounded FIFO whatever PIPESIZE and the width of the
\* counters are, as long as the one divides the other.
THEOREM PipeIsFifo == Spec => IsFifo
  <1>1. Init => Ring!Init
    <2> SUFFICES ASSUME Init PROVE Ring!Init
      BY Zenon
    <2>1. Count = 0
      BY ModSmall, Sizes DEF Init, Count
    <2>2. Queue = <<>>
      BY <2>1 DEF Queue
    <2> QED
      BY <2>2, Zenon DEF Init, Ring!Init
  <1>2. IInv /\ IInv' /\ [Next]_vars => [Ring!Next]_Ring!vars
    BY StepImplements
  <1> QED
    BY <1>1, <1>2, Invariance, PTL DEF Spec, IsFifo, Ring!Spec

=============================================================================
