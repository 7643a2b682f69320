---------------------------- MODULE ConsoleProofs ---------------------------
(* The console input of Console.tla: it is a line editor in front of a     *)
(* queue and never stops taking characters for want of a reader, for any   *)
(* size of the buffer, any width of the indices and any number of readers. *)
EXTENDS Console, RingTheorems, SequenceTheorems, TLAPS

Slot == 0 .. INPUT_BUF_SIZE - 1
Index == 0 .. MOD - 1
PCs == {"user", "lock", "loop", "wait", "asleep"}

TypeOK ==
    /\ buf \in [Slot -> Char]
    /\ r \in Index /\ w \in Index /\ e \in Index
    /\ lock \in Readers \cup {None}
    /\ killed \in [Readers -> BOOLEAN]
    /\ pc \in [Readers -> PCs]
    /\ n \in [Readers -> Nat] /\ target \in [Readers -> Nat]

LockHeld == \A p \in Readers : pc[p] \in {"loop", "wait"} <=> lock = p

\* From r to w and on to e is no more than once round the ring, and a ring that
\* is full has been handed to the readers.
Ordered ==
    /\ Minus(e, r) = Minus(w, r) + Minus(e, w)
    /\ Minus(e, r) <= INPUT_BUF_SIZE
    /\ Minus(e, r) = INPUT_BUF_SIZE => w = e

\* The line that is being typed has not ended.
Unended == \A k \in 0 .. Minus(e, w) - 1 : buf[(w + k) % INPUT_BUF_SIZE] # NL

Waiting == \A p \in Readers : pc[p] \in {"wait", "asleep"} => r = w

IInv == TypeOK /\ LockHeld /\ Ordered /\ Unended /\ Waiting

-----------------------------------------------------------------------------
(* Indices and slots.                                                      *)

\* The buffer is not empty and smaller than the range of its indices.
LEMMA Sizes ==
  /\ INPUT_BUF_SIZE \in Nat \ {0} /\ MOD \in Nat \ {0} /\ INPUT_BUF_SIZE < MOD
  /\ MOD % INPUT_BUF_SIZE = 0
  BY ConsoleAssumption

\* What an index comes to that leaves its range on one side.
LEMMA ModIndex ==
  ASSUME NEW x \in -MOD .. 2 * MOD - 1
  PROVE  x % MOD = IF x < 0 THEN x + MOD ELSE IF x < MOD THEN x ELSE x - MOD
  BY ModWraps, Sizes, Zenon

\* The unsigned difference of two indices, and the increment of one.
LEMMA Wraps ==
  ASSUME NEW x \in Index, NEW y \in Index
  PROVE  /\ Minus(y, x) = IF y >= x THEN y - x ELSE y - x + MOD
         /\ Plus1(x) = IF x = MOD - 1 THEN 0 ELSE x + 1
         /\ Minus(y, x) \in Index /\ Plus1(x) \in Index
  <1> USE Sizes DEF Index
  <1>1. y - x \in -MOD .. 2 * MOD - 1 /\ x + 1 \in -MOD .. 2 * MOD - 1
    OBVIOUS
  <1>2. Minus(y, x) = IF y >= x THEN y - x ELSE y - x + MOD
    BY <1>1, ModIndex DEF Minus
  <1>3. Plus1(x) = IF x = MOD - 1 THEN 0 ELSE x + 1
    BY <1>1, ModIndex DEF Plus1
  <1> QED
    BY <1>2, <1>3

\* The slots of the ring do not move when an index wraps.
LEMMA SlotPeriod ==
  ASSUME NEW x \in Int
  PROVE  (x + MOD) % INPUT_BUF_SIZE = x % INPUT_BUF_SIZE /\ x % INPUT_BUF_SIZE \in Slot
  <1>1. (x + MOD) % INPUT_BUF_SIZE = x % INPUT_BUF_SIZE
    BY Period, Sizes, Zenon
  <1> QED
    BY <1>1, Sizes DEF Slot

\* Counting on from x past y is counting on from y.
LEMMA SameSlot ==
  ASSUME NEW x \in Index, NEW y \in Index, NEW k \in Int
  PROVE  (x + (Minus(y, x) + k)) % INPUT_BUF_SIZE = (y + k) % INPUT_BUF_SIZE
  <1>1. Minus(y, x) = IF y >= x THEN y - x ELSE y - x + MOD
    BY Wraps, Zenon
  <1>2. x \in Int /\ y \in Int /\ y + k \in Int /\ MOD \in Int
    BY Sizes DEF Index
  <1>3. CASE y >= x
    <2>1. x + (Minus(y, x) + k) = y + k
      BY <1>1, <1>2, <1>3
    <2> QED
      BY <2>1, Zenon
  <1>4. CASE y < x
    <2>1. x + (Minus(y, x) + k) = (y + k) + MOD
      BY <1>1, <1>2, <1>4
    <2> QED
      BY <1>2, <2>1, SlotPeriod, Zenon
  <1> QED
    BY <1>2, <1>3, <1>4

\* The slot of an index that was counted on with a wrap.
LEMMA WrappedSlot ==
  ASSUME NEW x \in 0 .. 2 * MOD - 1
  PROVE  (x % MOD) % INPUT_BUF_SIZE = x % INPUT_BUF_SIZE
  <1>1. x \in -MOD .. 2 * MOD - 1 /\ x \in Nat /\ x - MOD \in Int /\ x = (x - MOD) + MOD
    BY Sizes
  <1>2. x % MOD = IF x < MOD THEN x ELSE x - MOD
    BY <1>1, ModIndex
  <1>3. ((x - MOD) + MOD) % INPUT_BUF_SIZE = (x - MOD) % INPUT_BUF_SIZE
    BY <1>1, SlotPeriod, Zenon
  <1> QED
    BY <1>1, <1>2, <1>3, Zenon

\* Characters before e, up to one less than the ring has slots, are not in the
\* slot of e.
LEMMA Behind ==
  ASSUME NEW x \in Index, NEW y \in Index, Minus(y, x) < INPUT_BUF_SIZE,
         NEW k \in 0 .. Minus(y, x) - 1
  PROVE  (x + k) % INPUT_BUF_SIZE # y % INPUT_BUF_SIZE
  <1>1. Minus(y, x) \in Int /\ x \in Int /\ y \in Int /\ x + k \in Int
    BY Wraps, Sizes DEF Index
  <1>2. Minus(y, x) - k \in 1 .. INPUT_BUF_SIZE - 1
    BY <1>1, Sizes
  <1>3. ((x + k) + (Minus(y, x) - k)) % INPUT_BUF_SIZE # (x + k) % INPUT_BUF_SIZE
    BY <1>1, <1>2, OtherSlot, Sizes, Zenon
  <1>4. (x + k) + (Minus(y, x) - k) = x + (Minus(y, x) + 0) /\ y + 0 = y
    BY <1>1
  <1>5. (x + (Minus(y, x) + 0)) % INPUT_BUF_SIZE = (y + 0) % INPUT_BUF_SIZE
    BY SameSlot
  <1> QED
    BY <1>3, <1>4, <1>5, Zenon

-----------------------------------------------------------------------------
(* What a step does to the indices.                                        *)

\* A character typed.
LEMMA Typed ==
  ASSUME TypeOK, Ordered, Room
  PROVE  /\ Minus(Plus1(e), w) = Minus(e, w) + 1 /\ Minus(Plus1(e), r) = Minus(e, r) + 1
         /\ Minus(Plus1(e), Plus1(e)) = 0 /\ Minus(e, w) < INPUT_BUF_SIZE
         /\ Minus(e, w) \in Nat /\ Minus(w, r) \in Nat /\ Plus1(e) \in Index
  <1>0. r \in Index /\ w \in Index /\ e \in Index /\ 1 \in Index
    BY Sizes DEF TypeOK, Index
  <1>1. /\ Minus(e, w) = (IF e >= w THEN e - w ELSE e - w + MOD)
        /\ Minus(e, r) = (IF e >= r THEN e - r ELSE e - r + MOD)
        /\ Minus(w, r) = (IF w >= r THEN w - r ELSE w - r + MOD)
        /\ Plus1(e) = (IF e = MOD - 1 THEN 0 ELSE e + 1) /\ Plus1(e) \in Index
    BY <1>0, Wraps, Zenon
  <1>2. /\ Minus(Plus1(e), w) = (IF Plus1(e) >= w THEN Plus1(e) - w ELSE Plus1(e) - w + MOD)
        /\ Minus(Plus1(e), r) = (IF Plus1(e) >= r THEN Plus1(e) - r ELSE Plus1(e) - r + MOD)
    BY <1>0, <1>1, Wraps, Zenon
  <1>3. Minus(Plus1(e), Plus1(e)) = 0
    <2>1. Plus1(e) \in Index /\ Plus1(e) >= Plus1(e)
      BY <1>1 DEF Index
    <2>2. Minus(Plus1(e), Plus1(e)) = Plus1(e) - Plus1(e)
      BY <2>1, Wraps, Zenon
    <2> QED
      BY <2>1, <2>2 DEF Index
  <1>4. Minus(e, w) <= Minus(e, r) /\ Minus(e, r) < INPUT_BUF_SIZE
    BY <1>0, <1>1, Sizes DEF Ordered, Room, Index
  <1> QED
    BY <1>0, <1>1, <1>2, <1>3, <1>4, Sizes DEF Index

\* A character erased.
LEMMA Erased ==
  ASSUME TypeOK, Ordered, e # w
  PROVE  /\ Minus(e, 1) \in Index
         /\ Minus(Minus(e, 1), w) = Minus(e, w) - 1 /\ Minus(Minus(e, 1), r) = Minus(e, r) - 1
         /\ Minus(e, w) \in Nat \ {0} /\ Minus(w, r) \in Nat
  <1>0. r \in Index /\ w \in Index /\ e \in Index /\ 1 \in Index
    BY Sizes DEF TypeOK, Index
  <1>1. /\ Minus(e, w) = (IF e >= w THEN e - w ELSE e - w + MOD)
        /\ Minus(e, r) = (IF e >= r THEN e - r ELSE e - r + MOD)
        /\ Minus(w, r) = (IF w >= r THEN w - r ELSE w - r + MOD)
        /\ Minus(e, 1) = (IF e >= 1 THEN e - 1 ELSE e - 1 + MOD) /\ Minus(e, 1) \in Index
    BY <1>0, Wraps, Zenon
  <1>2. /\ Minus(Minus(e, 1), w) = (IF Minus(e, 1) >= w THEN Minus(e, 1) - w
                                    ELSE Minus(e, 1) - w + MOD)
        /\ Minus(Minus(e, 1), r) = (IF Minus(e, 1) >= r THEN Minus(e, 1) - r
                                    ELSE Minus(e, 1) - r + MOD)
    BY <1>0, <1>1, Wraps, Zenon
  <1>3. Minus(e, r) = Minus(w, r) + Minus(e, w) /\ Minus(e, r) <= INPUT_BUF_SIZE
    BY Zenon DEF Ordered
  <1> QED
    BY <1>0, <1>1, <1>2, <1>3, Sizes DEF Index

\* A character read.
LEMMA Taken ==
  ASSUME TypeOK, Ordered, r # w
  PROVE  /\ Plus1(r) \in Index
         /\ Minus(w, Plus1(r)) = Minus(w, r) - 1 /\ Minus(e, Plus1(r)) = Minus(e, r) - 1
         /\ Minus(w, r) \in Nat \ {0} /\ Minus(e, w) \in Nat
  <1>0. r \in Index /\ w \in Index /\ e \in Index /\ 1 \in Index
    BY Sizes DEF TypeOK, Index
  <1>1. /\ Minus(e, w) = (IF e >= w THEN e - w ELSE e - w + MOD)
        /\ Minus(e, r) = (IF e >= r THEN e - r ELSE e - r + MOD)
        /\ Minus(w, r) = (IF w >= r THEN w - r ELSE w - r + MOD)
        /\ Plus1(r) = (IF r = MOD - 1 THEN 0 ELSE r + 1) /\ Plus1(r) \in Index
    BY <1>0, Wraps, Zenon
  <1>2. /\ Minus(w, Plus1(r)) = (IF w >= Plus1(r) THEN w - Plus1(r) ELSE w - Plus1(r) + MOD)
        /\ Minus(e, Plus1(r)) = (IF e >= Plus1(r) THEN e - Plus1(r) ELSE e - Plus1(r) + MOD)
    BY <1>0, <1>1, Wraps, Zenon
  <1>3. Minus(e, r) = Minus(w, r) + Minus(e, w)
    BY Zenon DEF Ordered
  <1> QED
    BY <1>0, <1>1, <1>2, <1>3, Sizes DEF Index

\* ^U takes back the whole line: it ends at w, and there is no newline on the way.
LEMMA KillsLine ==
  ASSUME TypeOK, Ordered, Unended
  PROVE  Minus(e, KillLength) = w
  <1> DEFINE K == Minus(e, w)
             P(k) == /\ \A j \in 1 .. k : Minus(e, j - 1) # w /\ At(Minus(e, j)) # NL
                     /\ Minus(e, k) = w \/ At(Minus(e, k + 1)) = NL
  <1>0. r \in Index /\ w \in Index /\ e \in Index
    BY Zenon DEF TypeOK
  <1>1. K \in 0 .. INPUT_BUF_SIZE /\ K = (IF e >= w THEN e - w ELSE e - w + MOD) /\ K \in Index
    <2>1. Minus(w, r) \in Index /\ K \in Index /\ K = IF e >= w THEN e - w ELSE e - w + MOD
      BY <1>0, Wraps, Zenon
    <2> QED
      BY <2>1, Sizes DEF Ordered, Index
  <1>2. ASSUME NEW k \in Index
        PROVE  Minus(e, k) = (IF e >= k THEN e - k ELSE e - k + MOD)
    BY <1>0, Wraps, Zenon
  <1>3. Minus(e, K) = w
    BY <1>0, <1>1, <1>2, Sizes DEF Index
  <1>4. ASSUME NEW j \in 1 .. K PROVE Minus(e, j - 1) # w /\ At(Minus(e, j)) # NL
    <2>1. j \in Index /\ j - 1 \in Index /\ j \in Int
      BY <1>1, Sizes DEF Index
    <2>2. Minus(e, j - 1) # w
      BY <1>0, <1>1, <1>2, <2>1, Sizes DEF Index
    <2>3. At(Minus(e, j)) = buf[(w + (K + (0 - j))) % INPUT_BUF_SIZE]
      <3>1. (w + (K + (0 - j))) % INPUT_BUF_SIZE = (e + (0 - j)) % INPUT_BUF_SIZE
        BY <1>0, <2>1, SameSlot
      <3>2. Minus(e, j) % INPUT_BUF_SIZE = (e + (0 - j)) % INPUT_BUF_SIZE
        <4>1. e + (0 - j) \in Int /\ (e - j = e + (0 - j)) /\ (e - j + MOD = (e + (0 - j)) + MOD)
          BY <1>0, <2>1, Sizes DEF Index
        <4>2. Minus(e, j) = IF e >= j THEN e - j ELSE e - j + MOD
          BY <1>2, <2>1, Zenon
        <4> QED
          BY <4>1, <4>2, SlotPeriod, Zenon
      <3> QED
        BY <3>1, <3>2, Zenon DEF At
    <2>4. K + (0 - j) \in 0 .. K - 1
      BY <1>1, <2>1
    <2>5. buf[(w + (K + (0 - j))) % INPUT_BUF_SIZE] # NL
      BY <2>4, Zenon DEF Unended
    <2> QED
      BY <2>2, <2>3, <2>5, Zenon
  <1>5. P(K)
    BY <1>3, <1>4, Zenon
  <1>6. ASSUME NEW k \in 0 .. INPUT_BUF_SIZE, P(k) PROVE k = K
    <2>1. CASE k < K
      <3>1. k + 1 \in 1 .. K /\ (k + 1) - 1 = k
        BY <1>1, <2>1
      <3>2. Minus(e, k) # w /\ At(Minus(e, k + 1)) # NL
        BY <1>4, <3>1, Zenon
      <3> QED
        BY <1>6, <3>2, Zenon
    <2>2. CASE k > K
      <3>1. K + 1 \in 1 .. k /\ (K + 1) - 1 = K
        BY <1>1, <2>2
      <3>2. Minus(e, K) # w
        BY <1>6, <3>1, Zenon
      <3> QED
        BY <1>3, <3>2, Zenon
    <2> QED
      BY <1>1, <2>1, <2>2, Sizes
  <1>7. KillLength \in 0 .. INPUT_BUF_SIZE /\ P(KillLength)
    <2>1. \E k \in 0 .. INPUT_BUF_SIZE : P(k)
      BY <1>1, <1>5, Zenon
    <2> QED
      BY <2>1, Zenon DEF KillLength
  <1>8. KillLength = K
    BY <1>6, <1>7, Zenon
  <1> QED
    BY <1>3, <1>8, Zenon

-----------------------------------------------------------------------------
(* The inductive invariant.                                                *)

\* A step that takes a character out of the buffer.
Takes == /\ r # w /\ r' = Plus1(r) /\ UNCHANGED <<buf, w, e>>
         /\ \E p \in Readers : pc[p] = "loop"

\* What a step does to the buffer: the handler stores a character or takes
\* characters back, and readers only take.
LEMMA StepKinds ==
  ASSUME [Next]_vars
  PROVE  (\E c \in Char : intr_store(c)) \/ intr_erase \/ intr_kill \/ Takes \/ UNCHANGED cons
  <1>1. ASSUME NEW p \in Readers, Read(p) PROVE Takes \/ UNCHANGED cons
    <2>1. CASE read_done(p) \/ read_killed(p) \/ read_empty(p) \/ read_sleep(p)
      BY <2>1, Zenon DEF read_done, read_killed, read_empty, read_sleep
    <2>2. CASE read_eof(p)
      BY <2>2, Zenon DEF read_eof, Takes, cons
    <2>3. CASE read_char(p) \/ read_fault(p)
      BY <2>3, Zenon DEF read_char, read_fault, Takes
    <2> QED
      BY <1>1, <2>1, <2>2, <2>3, Zenon DEF Read
  <1>2. ASSUME NEW p \in Readers, consoleread(p) \/ acquire(p) \/ kill(p) PROVE UNCHANGED cons
    BY <1>2, Zenon DEF consoleread, acquire, kill
  <1>3. CASE UNCHANGED vars
    BY <1>3, Zenon DEF vars, cons
  <1> QED
    BY <1>1, <1>2, <1>3, Zenon DEF Next

\* The invariant holds for the empty buffer.
LEMMA InitInv == Init => IInv
  <1> SUFFICES ASSUME Init PROVE IInv
    BY Zenon
  <1> USE Sizes, ConsoleAssumption DEF Init
  <1>1. TypeOK
    BY DEF TypeOK, Slot, Index, Char, PCs
  <1>2. Minus(0, 0) = 0
    BY ModSmall DEF Minus
  <1>3. Ordered
    BY <1>2 DEF Ordered
  <1>4. Unended
    <2>1. Minus(e, w) = 0
      BY <1>2, Zenon
    <2> QED
      BY <2>1 DEF Unended
  <1>5. LockHeld /\ Waiting
    BY Zenon DEF LockHeld, Waiting
  <1> QED
    BY <1>1, <1>3, <1>4, <1>5, Zenon DEF IInv

\* Every step keeps the types.
LEMMA NextType ==
  ASSUME TypeOK, Ordered, Unended, [Next]_vars
  PROVE  TypeOK'
  <1> USE DEF TypeOK
  <1>1. buf' \in [Slot -> Char] /\ r' \in Index /\ w' \in Index /\ e' \in Index
    <2>1. ASSUME NEW c \in Char, intr_store(c) PROVE buf' \in [Slot -> Char] /\ r' \in Index
                                                     /\ w' \in Index /\ e' \in Index
      <3>1. Plus1(e) \in Index
        BY Wraps, Zenon
      <3>2. w' \in Index
        BY <2>1, <3>1, Zenon DEF intr_store
      <3> QED
        BY <2>1, <3>1, <3>2, Zenon DEF intr_store
    <2>2. CASE intr_erase
      BY <2>2, Erased, Zenon DEF intr_erase, CanErase
    <2>3. CASE intr_kill
      BY <2>3, KillsLine, Zenon DEF intr_kill
    <2>4. CASE Takes
      BY <2>4, Taken, Zenon DEF Takes
    <2>5. CASE UNCHANGED cons
      BY <2>5, Zenon DEF cons
    <2> QED
      BY <2>1, <2>2, <2>3, <2>4, <2>5, StepKinds, Zenon
  <1>2. /\ lock' \in Readers \cup {None} /\ pc' \in [Readers -> PCs]
        /\ killed' \in [Readers -> BOOLEAN]
        /\ n' \in [Readers -> Nat] /\ target' \in [Readers -> Nat]
    <2> USE DEF PCs, Goto, return, wakeup
    <2>1. ASSUME NEW c \in Char, intr_store(c)
          PROVE  /\ pc' \in [Readers -> PCs] /\ UNCHANGED <<lock, killed, n, target>>
      BY <2>1, Zenon DEF intr_store
    <2>2. CASE intr_erase \/ intr_kill \/ UNCHANGED vars
      BY <2>2, Zenon DEF intr_erase, intr_kill, vars
    <2>3. ASSUME NEW p \in Readers, consoleread(p)
          PROVE  /\ pc' \in [Readers -> PCs] /\ UNCHANGED <<lock, killed>>
                 /\ n' \in [Readers -> Nat] /\ target' \in [Readers -> Nat]
      BY <2>3, ConsoleAssumption DEF consoleread
    <2>4. ASSUME NEW p \in Readers, acquire(p) \/ kill(p)
          PROVE  /\ lock' \in Readers \cup {None} /\ pc' \in [Readers -> PCs]
                 /\ killed' \in [Readers -> BOOLEAN] /\ UNCHANGED <<n, target>>
      BY <2>4, Zenon DEF acquire, kill
    <2>5. ASSUME NEW p \in Readers, Read(p)
          PROVE  /\ lock' \in Readers \cup {None} /\ pc' \in [Readers -> PCs] /\ killed' = killed
                 /\ n' \in [Readers -> Nat] /\ target' \in [Readers -> Nat]
      <3>1. CASE read_done(p) \/ read_killed(p) \/ read_eof(p) \/ read_fault(p)
        BY <3>1 DEF read_done, read_killed, read_eof, read_fault
      <3>2. CASE read_empty(p) \/ read_sleep(p)
        BY <3>2, Zenon DEF read_empty, read_sleep
      <3>3. CASE read_char(p)
        BY <3>3 DEF read_char
      <3> QED
        BY <2>5, <3>1, <3>2, <3>3, Zenon DEF Read
    <2> QED
      BY <2>1, <2>2, <2>3, <2>4, <2>5, Zenon DEF Next
  <1> QED
    BY <1>1, <1>2, Zenon

\* The indices stay in order.
LEMMA NextOrdered ==
  ASSUME TypeOK, Ordered, Unended, [Next]_vars
  PROVE  Ordered'
  <1>0. Minus(e, r) = Minus(w, r) + Minus(e, w) /\ Minus(e, r) <= INPUT_BUF_SIZE
          /\ (Minus(e, r) = INPUT_BUF_SIZE => w = e)
    BY Zenon DEF Ordered
  <1>A. Minus(e, w) \in Nat /\ Minus(w, r) \in Nat /\ Minus(w, w) = 0
    <2>1. r \in Index /\ w \in Index /\ e \in Index
      BY Zenon DEF TypeOK
    <2>2. Minus(e, w) \in Index /\ Minus(w, r) \in Index
            /\ Minus(w, w) = IF w >= w THEN w - w ELSE w - w + MOD
      BY <2>1, Wraps, Zenon
    <2> QED
      BY <2>1, <2>2, Sizes DEF Index
  <1>1. ASSUME NEW c \in Char, intr_store(c) PROVE Ordered'
    <2>1. Room /\ e' = Plus1(e) /\ r' = r
      BY <1>1, Zenon DEF intr_store
    <2>2. /\ Minus(e', w) = Minus(e, w) + 1 /\ Minus(e', r) = Minus(e, r) + 1
          /\ Minus(e', e') = 0
      BY <2>1, Typed, Zenon
    <2>3. Minus(e, r) < INPUT_BUF_SIZE
      BY <2>1, Zenon DEF Room
    <2>4. CASE WholeLine(c)
      <3>1. w' = e'
        BY <1>1, <2>1, <2>4, Zenon DEF intr_store
      <3> QED
        BY <1>0, <1>A, <2>1, <2>2, <2>3, <3>1, Sizes DEF Ordered
    <2>5. CASE ~WholeLine(c)
      <3>1. w' = w /\ Minus(e', r) # INPUT_BUF_SIZE
        BY <1>1, <2>1, <2>5, Zenon DEF intr_store, WholeLine
      <3> QED
        BY <1>0, <1>A, <2>1, <2>2, <2>3, <3>1, Sizes DEF Ordered
    <2> QED
      BY <2>4, <2>5, Zenon
  <1>2. CASE intr_erase
    <2>1. e # w /\ e' = Minus(e, 1) /\ UNCHANGED <<r, w>>
      BY <1>2, Zenon DEF intr_erase, CanErase
    <2>2. Minus(e', w) = Minus(e, w) - 1 /\ Minus(e', r) = Minus(e, r) - 1
      BY <2>1, Erased, Zenon
    <2> QED
      BY <1>0, <1>A, <2>1, <2>2, Sizes DEF Ordered
  <1>3. CASE intr_kill
    <2>1. e' = w /\ UNCHANGED <<r, w>>
      BY <1>3, KillsLine, Zenon DEF intr_kill
    <2> QED
      BY <1>0, <1>A, <2>1, Sizes DEF Ordered
  <1>4. CASE Takes
    <2>1. r # w /\ r' = Plus1(r) /\ UNCHANGED <<w, e>>
      BY <1>4, Zenon DEF Takes
    <2>2. Minus(w, r') = Minus(w, r) - 1 /\ Minus(e, r') = Minus(e, r) - 1
      BY <2>1, Taken, Zenon
    <2> QED
      BY <1>0, <1>A, <2>1, <2>2, Sizes DEF Ordered
  <1>5. CASE UNCHANGED cons
    BY <1>5, Zenon DEF cons, Ordered
  <1> QED
    BY <1>1, <1>2, <1>3, <1>4, <1>5, StepKinds, Zenon

\* No newline gets into the line that is being typed.
LEMMA NextUnended ==
  ASSUME TypeOK, Ordered, Unended, [Next]_vars
  PROVE  Unended'
  <1>0. r \in Index /\ w \in Index /\ e \in Index /\ buf \in [Slot -> Char]
    BY Zenon DEF TypeOK
  <1>1. ASSUME NEW c \in Char, intr_store(c) PROVE Unended'
    <2>1. Room /\ e' = Plus1(e) /\ buf' = [buf EXCEPT ![e % INPUT_BUF_SIZE] = c]
      BY <1>1, Zenon DEF intr_store
    <2>2. /\ Minus(e', w) = Minus(e, w) + 1 /\ Minus(e', e') = 0
          /\ Minus(e, w) < INPUT_BUF_SIZE /\ Minus(e, w) \in Nat
      BY <2>1, Typed, Zenon
    <2>3. CASE WholeLine(c)
      <3>1. w' = e'
        BY <1>1, <2>1, <2>3, Zenon DEF intr_store
      <3> QED
        BY <2>2, <3>1 DEF Unended
    <2>4. CASE ~WholeLine(c)
      <3>1. w' = w /\ c # NL
        BY <1>1, <2>4, Zenon DEF intr_store, WholeLine
      <3>2. ASSUME NEW k \in 0 .. Minus(e, w) - 1
            PROVE  buf'[(w + k) % INPUT_BUF_SIZE] # NL
        <4>1. (w + k) % INPUT_BUF_SIZE # e % INPUT_BUF_SIZE
          BY <1>0, <2>2, Behind, Zenon
        <4>2. (w + k) % INPUT_BUF_SIZE \in Slot
          BY <1>0, Sizes DEF Slot, Index
        <4> QED
          BY <1>0, <2>1, <4>1, <4>2, Zenon DEF Unended
      <3>3. buf'[(w + Minus(e, w)) % INPUT_BUF_SIZE] # NL
        <4>1. (w + (Minus(e, w) + 0)) % INPUT_BUF_SIZE = (e + 0) % INPUT_BUF_SIZE
          BY <1>0, SameSlot
        <4>2. e % INPUT_BUF_SIZE \in Slot /\ e + 0 = e /\ w + (Minus(e, w) + 0) = w + Minus(e, w)
          BY <1>0, <2>2, Sizes DEF Slot, Index
        <4> QED
          BY <1>0, <2>1, <3>1, <4>1, <4>2, Zenon
      <3>4. \A k \in 0 .. Minus(e', w') - 1 : k \in 0 .. Minus(e, w) - 1 \/ k = Minus(e, w)
        BY <2>2, <3>1
      <3> QED
        BY <3>1, <3>2, <3>3, <3>4, Zenon DEF Unended
    <2> QED
      BY <2>3, <2>4, Zenon
  <1>2. CASE intr_erase
    <2>1. e # w /\ e' = Minus(e, 1) /\ UNCHANGED <<buf, w>>
      BY <1>2, Zenon DEF intr_erase, CanErase
    <2>2. Minus(e', w) = Minus(e, w) - 1 /\ Minus(e, w) \in Nat
      BY <2>1, Erased, Zenon
    <2>3. 0 .. Minus(e', w) - 1 \subseteq 0 .. Minus(e, w) - 1
      BY <2>2
    <2> QED
      BY <2>1, <2>3, Zenon DEF Unended
  <1>3. CASE intr_kill
    <2>1. e' = w /\ w' = w
      BY <1>3, KillsLine, Zenon DEF intr_kill
    <2>2. Minus(w, w) = 0
      BY <1>0, Wraps DEF Index
    <2> QED
      BY <2>1, <2>2 DEF Unended
  <1>4. CASE Takes \/ UNCHANGED cons
    BY <1>4, Zenon DEF Takes, cons, Unended
  <1> QED
    BY <1>1, <1>2, <1>3, <1>4, StepKinds, Zenon

\* The lock is held from the loop to the sleep or the return, and those who
\* wait do so for an empty buffer.
LEMMA NextWaiting ==
  ASSUME TypeOK, LockHeld, Waiting, [Next]_vars
  PROVE  LockHeld' /\ Waiting'
  <1> USE ConsoleAssumption DEF TypeOK
  <1>1. ASSUME NEW c \in Char, intr_store(c) PROVE LockHeld' /\ Waiting'
    <2>1. lock = None /\ lock' = None /\ r' = r
      BY <1>1, Zenon DEF intr_store
    <2>2. \A p \in Readers : pc[p] \notin {"loop", "wait"}
      BY <2>1, Zenon DEF LockHeld
    <2>3. CASE WholeLine(c)
      <3>1. \A p \in Readers : pc'[p] = IF pc[p] = "asleep" THEN "lock" ELSE pc[p]
        BY <1>1, <2>3, Zenon DEF intr_store, wakeup
      <3> QED
        BY <2>1, <2>2, <3>1, Zenon DEF LockHeld, Waiting
    <2>4. CASE ~WholeLine(c)
      BY <1>1, <2>1, <2>4, Zenon DEF intr_store, LockHeld, Waiting
    <2> QED
      BY <2>3, <2>4, Zenon
  <1>2. CASE intr_erase \/ intr_kill \/ UNCHANGED vars
    BY <1>2, Zenon DEF intr_erase, intr_kill, vars, LockHeld, Waiting
  <1>3. ASSUME NEW p \in Readers, consoleread(p) \/ acquire(p) \/ kill(p)
        PROVE  LockHeld' /\ Waiting'
    <2>1. UNCHANGED <<r, w>>
      BY <1>3, Zenon DEF consoleread, acquire, kill, cons
    <2>2. CASE consoleread(p) \/ kill(p)
      <3>1. PICK l \in PCs : /\ lock' = lock /\ pc' = [pc EXCEPT ![p] = l]
                             /\ \/ l = pc[p]
                                \/ l = "lock" /\ pc[p] \in {"user", "asleep"}
        BY <2>2, Zenon DEF consoleread, kill, Goto, PCs
      <3> QED
        BY <2>1, <3>1, Zenon DEF LockHeld, Waiting
    <2>3. CASE acquire(p)
      BY <2>1, <2>3, Zenon DEF acquire, Goto, LockHeld, Waiting
    <2> QED
      BY <1>3, <2>2, <2>3, Zenon
  <1>4. ASSUME NEW p \in Readers, Read(p) PROVE LockHeld' /\ Waiting'
    <2>1. ASSUME return(p), pc[p] = "loop", UNCHANGED <<r, w>> \/ r # w
          PROVE  LockHeld' /\ Waiting'
      <3>1. lock = p /\ lock' = None /\ pc' = [pc EXCEPT ![p] = "user"]
        BY <2>1, Zenon DEF return, Goto, LockHeld
      <3> QED
        BY <2>1, <3>1, Zenon DEF LockHeld, Waiting
    <2>2. CASE read_done(p) \/ read_killed(p) \/ read_eof(p) \/ read_fault(p)
      BY <2>1, <2>2, Zenon DEF read_done, read_killed, read_eof, read_fault, cons
    <2>3. CASE read_empty(p)
      BY <2>3, Zenon DEF read_empty, Goto, cons, LockHeld, Waiting
    <2>4. CASE read_sleep(p)
      <3>1. lock = p
        BY <2>4, Zenon DEF read_sleep, LockHeld
      <3> QED
        BY <2>4, <3>1, Zenon DEF read_sleep, Goto, cons, LockHeld, Waiting
    <2>5. CASE read_char(p)
      <3>1. CASE At(r) = NL
        BY <2>1, <2>5, <3>1, Zenon DEF read_char
      <3>2. CASE At(r) # NL
        BY <2>5, <3>2, Zenon DEF read_char, LockHeld, Waiting
      <3> QED
        BY <3>1, <3>2, Zenon
    <2> QED
      BY <1>4, <2>2, <2>3, <2>4, <2>5, Zenon DEF Read
  <1> QED
    BY <1>1, <1>2, <1>3, <1>4, Zenon DEF Next

\* The invariant of the console holds in every state.
THEOREM Invariance == Spec => []IInv
  <1>1. IInv /\ [Next]_vars => IInv'
    BY NextType, NextOrdered, NextUnended, NextWaiting DEF IInv
  <1> QED
    BY <1>1, InitInv, PTL DEF Spec

\* A full buffer has been handed over and nobody sleeps beside characters, so
\* neither the user nor the readers come to a stop.
THEOREM InputNeverWedged == Spec => []NeverWedged
  <1>1. IInv => NeverWedged
    <2> SUFFICES ASSUME IInv PROVE NeverWedged
      BY Zenon
    <2>1. r \in Index /\ w \in Index /\ e \in Index
      BY Zenon DEF IInv, TypeOK
    <2>2. CASE ~Room
      <3>1. Minus(e, r) = (IF e >= r THEN e - r ELSE e - r + MOD) /\ Minus(e, r) \in Index
        BY <2>1, Wraps, Zenon
      <3>2. Minus(e, r) = INPUT_BUF_SIZE
        BY <2>2, <3>1, Sizes DEF Room, IInv, Ordered, Index
      <3>3. w = e
        BY <3>2, Zenon DEF IInv, Ordered
      <3> QED
        BY <2>1, <3>1, <3>2, <3>3, Sizes DEF IInv, Waiting, NeverWedged, Index
    <2> QED
      BY <2>2 DEF IInv, Waiting, NeverWedged
  <1> QED
    BY <1>1, Invariance, PTL

-----------------------------------------------------------------------------
(* The line editor in front of a queue.                                    *)

\* m characters of the ring from index x on.
Text(ring, x, m) == [k \in 1 .. m |-> ring[(x + (k - 1)) % INPUT_BUF_SIZE]]

\* A text is a sequence of characters.
LEMMA TextType ==
  ASSUME NEW ring \in [Slot -> Char], NEW x \in Int, NEW m \in Nat
  PROVE  Text(ring, x, m) \in Seq(Char) /\ Len(Text(ring, x, m)) = m
  <1>1. \A k \in 1 .. m : (x + (k - 1)) % INPUT_BUF_SIZE \in Slot
    BY Sizes DEF Slot
  <1>2. Text(ring, x, m) \in [1 .. m -> Char]
    BY <1>1, Zenon DEF Text
  <1> QED
    BY <1>2 DEF Text

\* A write elsewhere leaves the text.
LEMMA TextKept ==
  ASSUME NEW ring, NEW new, NEW x, NEW m,
         \A k \in 0 .. m - 1 :
           new[(x + k) % INPUT_BUF_SIZE] = ring[(x + k) % INPUT_BUF_SIZE], m \in Nat
  PROVE  Text(new, x, m) = Text(ring, x, m)
  <1>1. \A k \in 1 .. m : k - 1 \in 0 .. m - 1
    OBVIOUS
  <1>2. \A k \in 1 .. m :
          new[(x + (k - 1)) % INPUT_BUF_SIZE] = ring[(x + (k - 1)) % INPUT_BUF_SIZE]
    BY <1>1, Zenon
  <1> QED
    BY <1>2, Zenon DEF Text

\* One character more at the end.
LEMMA TextAppend ==
  ASSUME NEW ring \in [Slot -> Char], NEW x \in Int, NEW m \in Nat
  PROVE  Text(ring, x, m + 1) = Append(Text(ring, x, m), ring[(x + m) % INPUT_BUF_SIZE])
  <1> DEFINE t == Text(ring, x, m)
             u == Text(ring, x, m + 1)
  <1>1. t \in Seq(Char) /\ Len(t) = m /\ u \in Seq(Char) /\ Len(u) = m + 1
    BY TextType
  <1>2. \A k \in 1 .. m : u[k] = t[k]
    BY DEF Text
  <1>3. u[m + 1] = ring[(x + m) % INPUT_BUF_SIZE]
    <2>1. u[m + 1] = ring[(x + ((m + 1) - 1)) % INPUT_BUF_SIZE] /\ (m + 1) - 1 = m
      BY DEF Text
    <2> QED
      BY <2>1, Zenon
  <1> HIDE DEF t, u
  <1> QED
    BY <1>1, <1>2, <1>3 DEF t, u

\* One character less at the end.
LEMMA TextErase ==
  ASSUME NEW ring \in [Slot -> Char], NEW x \in Int, NEW m \in Nat \ {0}
  PROVE  Text(ring, x, m - 1) = SubSeq(Text(ring, x, m), 1, m - 1)
  <1> DEFINE t == Text(ring, x, m)
             u == Text(ring, x, m - 1)
  <1>1. t \in Seq(Char) /\ Len(t) = m /\ u \in Seq(Char) /\ Len(u) = m - 1
    BY TextType
  <1>2. \A k \in 1 .. m - 1 : u[k] = t[k]
    BY DEF Text
  <1> HIDE DEF t, u
  <1> QED
    BY <1>1, <1>2 DEF t, u

\* One character less at the front.
LEMMA TextTail ==
  ASSUME NEW ring \in [Slot -> Char], NEW x \in Index, NEW m \in Nat \ {0}
  PROVE  Text(ring, Plus1(x), m - 1) = Tail(Text(ring, x, m))
  <1> DEFINE t == Text(ring, x, m)
             u == Text(ring, Plus1(x), m - 1)
  <1>0. x \in Int /\ Plus1(x) \in Int /\ Plus1(x) \in Index
    BY Wraps, Sizes DEF Index
  <1>1. t \in Seq(Char) /\ Len(t) = m /\ u \in Seq(Char) /\ Len(u) = m - 1
    BY <1>0, TextType
  <1>2. ASSUME NEW k \in 1 .. m - 1 PROVE u[k] = t[k + 1]
    <2>1. u[k] = ring[(Plus1(x) + (k - 1)) % INPUT_BUF_SIZE]
            /\ t[k + 1] = ring[(x + ((k + 1) - 1)) % INPUT_BUF_SIZE]
      BY DEF Text
    <2>2. (Plus1(x) + (k - 1)) % INPUT_BUF_SIZE = (x + ((k + 1) - 1)) % INPUT_BUF_SIZE
      <3>1. Plus1(x) = IF x = MOD - 1 THEN 0 ELSE x + 1
        BY Wraps, Zenon
      <3>2. CASE x = MOD - 1
        <4>1. x + ((k + 1) - 1) = (Plus1(x) + (k - 1)) + MOD /\ Plus1(x) + (k - 1) \in Int
          BY <1>0, <3>1, <3>2, Sizes
        <4> QED
          BY <4>1, SlotPeriod, Zenon
      <3>3. CASE x # MOD - 1
        <4>1. x + ((k + 1) - 1) = Plus1(x) + (k - 1)
          BY <1>0, <3>1, <3>3
        <4> QED
          BY <4>1, Zenon
      <3> QED
        BY <3>2, <3>3, Zenon
    <2> QED
      BY <2>1, <2>2, Zenon
  <1> HIDE DEF t, u
  <1> QED
    BY <1>1, <1>2 DEF t, u

\* A text up to y and one from y on.
LEMMA TextJoin ==
  ASSUME NEW ring \in [Slot -> Char], NEW x \in Index, NEW y \in Index, NEW m \in Nat
  PROVE  Text(ring, x, Minus(y, x) + m) = Text(ring, x, Minus(y, x)) \o Text(ring, y, m)
  <1> DEFINE l == Minus(y, x)
             t == Text(ring, x, l)
             u == Text(ring, y, m)
             v == Text(ring, x, l + m)
  <1>0. x \in Int /\ y \in Int /\ l \in Nat /\ l + m \in Nat
    BY Wraps, Sizes DEF Index
  <1>1. /\ t \in Seq(Char) /\ Len(t) = l /\ u \in Seq(Char) /\ Len(u) = m
        /\ v \in Seq(Char) /\ Len(v) = l + m
    <2> HIDE DEF l
    <2> QED
      BY <1>0, TextType, Zenon
  <1>2. ASSUME NEW k \in 1 .. l PROVE v[k] = t[k]
    BY <1>0 DEF Text
  <1>3. ASSUME NEW k \in 1 .. m PROVE v[l + k] = u[k]
    <2>1. v[l + k] = ring[(x + ((l + k) - 1)) % INPUT_BUF_SIZE]
            /\ u[k] = ring[(y + (k - 1)) % INPUT_BUF_SIZE]
      <3> HIDE DEF l
      <3>1. l + k \in 1 .. l + m
        BY <1>0
      <3> QED
        BY <3>1, Zenon DEF Text
    <2>2. (x + (l + (k - 1))) % INPUT_BUF_SIZE = (y + (k - 1)) % INPUT_BUF_SIZE
      <3>1. k - 1 \in Int
        OBVIOUS
      <3> QED
        BY <3>1, SameSlot, Zenon
    <2>3. x + (l + (k - 1)) = x + ((l + k) - 1)
      BY <1>0
    <2> QED
      BY <2>1, <2>2, <2>3, Zenon
  <1> HIDE DEF l, t, u, v
  <1>4. v = t \o u
    <2>1. \A k \in 1 .. l + m : v[k] = IF k <= l THEN t[k] ELSE u[k - l]
      <3>1. ASSUME NEW k \in 1 .. l + m, k > l PROVE v[k] = u[k - l]
        <4>1. k - l \in 1 .. m /\ l + (k - l) = k
          BY <1>0, <3>1
        <4> QED
          BY <1>3, <4>1, Zenon
      <3> QED
        BY <1>0, <1>2, <3>1
    <2>2. /\ t \o u \in Seq(Char) /\ Len(t \o u) = l + m
          /\ \A k \in 1 .. l + m : (t \o u)[k] = IF k <= l THEN t[k] ELSE u[k - l]
      BY <1>1, ConcatProperties, Zenon
    <2>3. Len(v) = Len(t \o u) /\ \A k \in 1 .. Len(v) : v[k] = (t \o u)[k]
      BY <1>1, <2>1, <2>2, Zenon
    <2> QED
      BY <1>1, <2>2, <2>3, SeqEqual, Zenon
  <1> QED
    BY <1>4, Zenon DEF l, t, u, v

\* The two halves of the buffer as texts.
LEMMA Texts ==
  TypeOK => Ready = Text(buf, r, Minus(w, r)) /\ Line = Text(buf, w, Minus(e, w))
  <1>1. ASSUME NEW x \in Index, NEW y \in Index
        PROVE  Chars(x, y) = Text(buf, x, Minus(y, x))
    <2>1. Minus(y, x) \in Index
      BY Wraps, Zenon
    <2>2. ASSUME NEW k \in 1 .. Minus(y, x)
          PROVE  At((x + k - 1) % MOD) = buf[(x + (k - 1)) % INPUT_BUF_SIZE]
      <3>1. x + (k - 1) \in 0 .. 2 * MOD - 1 /\ x + k - 1 = x + (k - 1)
        BY <2>1, Sizes DEF Index
      <3> QED
        BY <3>1, WrappedSlot, Zenon DEF At
    <2> QED
      BY <2>2, Zenon DEF Chars, Text
  <1> QED
    BY <1>1, Zenon DEF TypeOK, Ready, Line

\* consoleintr() adds its character to the line, and hands the line over when
\* it ends or the buffer is full.
LEMMA StoreTypes ==
  ASSUME IInv, IInv', NEW c \in Char, intr_store(c)
  PROVE  Input!Type(c)
  <1>0. TypeOK /\ TypeOK' /\ Ordered
    BY Zenon DEF IInv
  <1>1. r \in Index /\ w \in Index /\ e \in Index /\ buf \in [Slot -> Char]
          /\ buf' \in [Slot -> Char] /\ r \in Int /\ w \in Int /\ e \in Int
    BY <1>0 DEF TypeOK, Index
  <1>2. Room /\ r' = r /\ e' = Plus1(e) /\ buf' = [buf EXCEPT ![e % INPUT_BUF_SIZE] = c]
    BY Zenon DEF intr_store
  <1> DEFINE i == Minus(w, r)
             j == Minus(e, w)
  <1>3. /\ Minus(e', w) = j + 1 /\ Minus(e', r) = Minus(e, r) + 1 /\ Minus(e', e') = 0
        /\ j < INPUT_BUF_SIZE /\ j \in Nat /\ i \in Nat
    BY <1>0, <1>2, Typed, Zenon
  <1>4. Minus(e, r) = i + j /\ i + j < INPUT_BUF_SIZE
    BY <1>0, <1>2, Zenon DEF Ordered, Room
  <1>5. /\ Ready \in Seq(Char) /\ Len(Ready) = i /\ Line \in Seq(Char) /\ Len(Line) = j
    BY <1>0, <1>1, <1>3, Texts, TextType
  <1>6. \A s \in Slot \ {e % INPUT_BUF_SIZE} : buf'[s] = buf[s]
    BY <1>1, <1>2, Zenon
  <1>7. Text(buf', w, j) = Text(buf, w, j)
    <2>1. ASSUME NEW k \in 0 .. j - 1
          PROVE  buf'[(w + k) % INPUT_BUF_SIZE] = buf[(w + k) % INPUT_BUF_SIZE]
      <3>1. (w + k) % INPUT_BUF_SIZE # e % INPUT_BUF_SIZE
        BY <1>1, <1>3, Behind, Zenon
      <3>2. (w + k) % INPUT_BUF_SIZE \in Slot
        BY <1>1, Sizes DEF Slot
      <3> QED
        BY <1>6, <3>1, <3>2, Zenon
    <2> HIDE DEF j
    <2> QED
      BY <1>3, <2>1, TextKept
  <1>8. Text(buf', r, i) = Text(buf, r, i)
    <2>1. ASSUME NEW k \in 0 .. i - 1
          PROVE  buf'[(r + k) % INPUT_BUF_SIZE] = buf[(r + k) % INPUT_BUF_SIZE]
      <3>1. k \in 0 .. Minus(e, r) - 1 /\ Minus(e, r) < INPUT_BUF_SIZE
        BY <1>3, <1>4
      <3>2. (r + k) % INPUT_BUF_SIZE # e % INPUT_BUF_SIZE
        BY <1>1, <3>1, Behind, Zenon
      <3>3. (r + k) % INPUT_BUF_SIZE \in Slot
        BY <1>1, Sizes DEF Slot
      <3> QED
        BY <1>6, <3>2, <3>3, Zenon
    <2> HIDE DEF i
    <2> QED
      BY <1>3, <2>1, TextKept
  <1>9. Text(buf', w, j + 1) = Append(Line, c)
    <2>1. Text(buf', w, j + 1) = Append(Text(buf', w, j), buf'[(w + j) % INPUT_BUF_SIZE])
      BY <1>1, <1>3, TextAppend, Zenon
    <2>2. (w + (j + 0)) % INPUT_BUF_SIZE = (e + 0) % INPUT_BUF_SIZE
      BY <1>1, SameSlot
    <2>3. w + (j + 0) = w + j /\ e + 0 = e /\ e % INPUT_BUF_SIZE \in Slot
      BY <1>1, <1>3, Sizes DEF Slot
    <2>4. buf'[(w + j) % INPUT_BUF_SIZE] = c
      BY <1>1, <1>2, <2>2, <2>3, Zenon
    <2> QED
      BY <1>0, <1>7, <2>1, <2>4, Texts, Zenon
  <1>10. WholeLine(c) <=> c \in {NL, EOF} \/ Len(Ready) + Len(Line) + 1 = INPUT_BUF_SIZE
    BY <1>2, <1>3, <1>4, <1>5, Zenon DEF WholeLine
  <1>11. Ready' = Text(buf', r', Minus(w', r')) /\ Line' = Text(buf', w', Minus(e', w'))
    <2>1. (TypeOK => Ready = Text(buf, r, Minus(w, r)) /\ Line = Text(buf, w, Minus(e, w)))'
      BY Texts, PTL
    <2> QED
      BY <1>0, <2>1, Zenon
  <1>12. CASE WholeLine(c)
    <2>1. w' = e'
      BY <1>2, <1>12, Zenon DEF intr_store
    <2>2. Line' = <<>>
      BY <1>3, <1>11, <2>1 DEF Text
    <2>3. Ready' = Ready \o Append(Line, c)
      <3>1. Minus(w', r') = i + (j + 1) /\ j + 1 \in Nat
        BY <1>2, <1>3, <1>4, <2>1
      <3>2. Text(buf', r, i + (j + 1)) = Text(buf', r, i) \o Text(buf', w, j + 1)
        BY <1>1, <3>1, TextJoin, Zenon
      <3> QED
        BY <1>0, <1>2, <1>8, <1>9, <1>11, <3>1, <3>2, Texts, Zenon
    <2> QED
      BY <1>4, <1>5, <1>10, <1>12, <2>2, <2>3, Zenon DEF Input!Type
  <1>13. CASE ~WholeLine(c)
    <2>1. w' = w
      BY <1>13, Zenon DEF intr_store
    <2>2. Line' = Append(Line, c)
      BY <1>3, <1>9, <1>11, <2>1, Zenon
    <2>3. Ready' = Ready
      BY <1>0, <1>2, <1>8, <1>11, <2>1, Texts, Zenon
    <2> QED
      BY <1>4, <1>5, <1>10, <1>13, <2>2, <2>3, Zenon DEF Input!Type
  <1> QED
    BY <1>12, <1>13, Zenon

\* Every step of the console is one of the line editor.
LEMMA StepImplements ==
  ASSUME IInv, IInv', [Next]_vars
  PROVE  [Input!Next]_Input!vars
  <1>0. TypeOK /\ TypeOK' /\ Ordered /\ Unended
    BY Zenon DEF IInv
  <1>1. r \in Index /\ w \in Index /\ e \in Index /\ buf \in [Slot -> Char]
          /\ r \in Int /\ w \in Int /\ e \in Int
    BY <1>0 DEF TypeOK, Index
  <1>2. Ready = Text(buf, r, Minus(w, r)) /\ Line = Text(buf, w, Minus(e, w))
    BY <1>0, Texts, Zenon
  <1>3. Ready' = Text(buf', r', Minus(w', r')) /\ Line' = Text(buf', w', Minus(e', w'))
    <2>1. (TypeOK => Ready = Text(buf, r, Minus(w, r)) /\ Line = Text(buf, w, Minus(e, w)))'
      BY Texts, PTL
    <2> QED
      BY <1>0, <2>1, Zenon
  <1>4. ASSUME NEW c \in Char, intr_store(c) PROVE Input!Next
    BY <1>4, StoreTypes, Zenon DEF Input!Next
  <1>5. ASSUME intr_erase PROVE Input!Next
    <2>1. e # w /\ e' = Minus(e, 1) /\ UNCHANGED <<buf, r, w>>
      BY <1>5, Zenon DEF intr_erase, CanErase
    <2>2. Minus(e', w') = Minus(e, w) - 1 /\ Minus(e, w) \in Nat \ {0}
      BY <1>0, <2>1, Erased, Zenon
    <2>3. Line \in Seq(Char) /\ Len(Line) = Minus(e, w)
      BY <1>1, <1>2, <2>2, TextType, Zenon
    <2>4. Line' = SubSeq(Line, 1, Len(Line) - 1)
      BY <1>1, <1>2, <1>3, <2>1, <2>2, <2>3, TextErase, Zenon
    <2>5. Line # <<>>
      BY <2>2, <2>3, Zenon
    <2>6. Ready' = Ready
      BY <1>2, <1>3, <2>1, Zenon
    <2> QED
      BY <2>4, <2>5, <2>6, Zenon DEF Input!Next, Input!Erase
  <1>6. ASSUME intr_kill PROVE Input!Next
    <2>1. e' = w /\ UNCHANGED <<buf, r, w>>
      BY <1>0, <1>6, KillsLine, Zenon DEF intr_kill
    <2>2. Minus(w, w) = 0
      BY <1>1, Wraps
    <2>3. Line' = <<>>
      BY <1>3, <2>1, <2>2 DEF Text
    <2>4. Ready' = Ready
      BY <1>2, <1>3, <2>1, Zenon
    <2> QED
      BY <2>3, <2>4, Zenon DEF Input!Next, Input!EraseLine
  <1>7. ASSUME Takes PROVE Input!Next
    <2>1. r # w /\ r' = Plus1(r) /\ UNCHANGED <<buf, w, e>>
      BY <1>7, Zenon DEF Takes
    <2>2. Minus(w', r') = Minus(w, r) - 1 /\ Minus(w, r) \in Nat \ {0}
      BY <1>0, <2>1, Taken, Zenon
    <2>3. Ready \in Seq(Char) /\ Len(Ready) = Minus(w, r)
      BY <1>1, <1>2, <2>2, TextType, Zenon
    <2>4. Ready' = Tail(Ready)
      BY <1>1, <1>2, <1>3, <2>1, <2>2, TextTail, Zenon
    <2>5. Ready # <<>>
      BY <2>2, <2>3, Zenon
    <2>6. Line' = Line
      BY <1>2, <1>3, <2>1, Zenon
    <2> QED
      BY <2>4, <2>5, <2>6, Zenon DEF Input!Next, Input!Get
  <1>8. CASE UNCHANGED cons
    BY <1>2, <1>3, <1>8, Zenon DEF cons, Input!vars
  <1> QED
    BY <1>4, <1>5, <1>6, <1>7, <1>8, StepKinds, Zenon

\* The three indices of console.c are a line editor in front of a queue,
\* whatever INPUT_BUF_SIZE and the width of the indices, as long as the one
\* divides the range of the other.
THEOREM ConsoleIsLineInput == Spec => IsLineInput
  <1>1. Init => Input!Init
    <2> SUFFICES ASSUME Init PROVE Input!Init
      BY Zenon
    <2>1. Minus(0, 0) = 0
      BY ModSmall, Sizes DEF Minus
    <2>2. Chars(0, 0) = <<>>
      BY <2>1 DEF Chars
    <2> QED
      BY <2>2, Zenon DEF Init, Input!Init, Ready, Line
  <1>2. IInv /\ IInv' /\ [Next]_vars => [Input!Next]_Input!vars
    BY StepImplements
  <1> QED
    BY <1>1, <1>2, Invariance, PTL DEF Spec, IsLineInput, Input!Spec

=============================================================================
