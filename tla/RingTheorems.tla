---------------------------- MODULE RingTheorems ----------------------------
(* Remainders, as the rings of the kernel use them: an index that wraps at *)
(* a power of two, and the slot it names in a ring that divides the range. *)
EXTENDS Integers, TLAPS

\* An index in range is its own remainder.
LEMMA ModSmall == ASSUME NEW m \in Nat \ {0}, NEW x \in 0 .. m - 1 PROVE x % m = x
  OBVIOUS

\* An index that has passed the end of its range starts again.
LEMMA ModOnce == ASSUME NEW m \in Nat \ {0}, NEW x \in m .. 2 * m - 1 PROVE x % m = x - m
  OBVIOUS

\* A difference of indices that is below 0 is taken round the other way.
LEMMA ModNegative == ASSUME NEW m \in Nat \ {0}, NEW x \in -m .. -1 PROVE x % m = x + m
  OBVIOUS

\* The remainder of a multiple and a small rest is that rest.
LEMMA ModUnique ==
  ASSUME NEW m \in Nat \ {0}, NEW k \in Int, NEW t \in 0 .. m - 1
  PROVE  (m * k + t) % m = t
  OBVIOUS

\* Every integer is a multiple of m and a remainder below m.
LEMMA Division ==
  ASSUME NEW m \in Nat \ {0}, NEW x \in Int
  PROVE  \E k \in Int : x = m * k + (x % m) /\ x % m \in 0 .. m - 1
  <1>1. x = m * (x \div m) + (x % m) /\ x \div m \in Int /\ x % m \in 0 .. m - 1
    OBVIOUS
  <1> QED
    BY <1>1

\* What an unsigned sum or difference of two indices in range comes to.
LEMMA ModWraps ==
  ASSUME NEW m \in Nat \ {0}, NEW x \in -m .. 2 * m - 1
  PROVE  x % m = IF x < 0 THEN x + m ELSE IF x < m THEN x ELSE x - m
  <1>1. CASE x \in -m .. -1
    BY <1>1, ModNegative
  <1>2. CASE x \in 0 .. m - 1
    BY <1>2, ModSmall
  <1>3. CASE x \in m .. 2 * m - 1
    BY <1>3, ModOnce
  <1> QED
    BY <1>1, <1>2, <1>3

\* An index that wraps names the same slot as one that does not, when the size
\* of the ring divides the range of the index.
LEMMA Period ==
  ASSUME NEW size \in Nat \ {0}, NEW mod \in Nat, mod % size = 0, NEW x \in Int
  PROVE  (x + mod) % size = x % size
  <1> DEFINE t == x % size
  <1>1. PICK k \in Int : x = size * k + t /\ t \in 0 .. size - 1
    BY Division
  <1>2. PICK l \in Int : mod = size * l
    <2>1. PICK l \in Int : mod = size * l + (mod % size)
      <3>1. mod \in Int
        OBVIOUS
      <3> QED
        BY <3>1, Division
    <2>2. mod = size * l
      BY <2>1
    <2> QED
      BY <2>2
  <1> HIDE DEF t
  <1>3. x + mod = size * (k + l) + t
    BY <1>1, <1>2
  <1>4. (x + mod) % size = t
    BY <1>1, <1>3, ModUnique
  <1> QED
    BY <1>4 DEF t

\* Fewer entries further on than the ring has slots there is another slot.
LEMMA OtherSlot ==
  ASSUME NEW size \in Nat \ {0}, NEW x \in Int, NEW d \in 1 .. size - 1
  PROVE  (x + d) % size # x % size
  <1> DEFINE t == x % size
  <1>1. PICK k \in Int : x = size * k + t /\ t \in 0 .. size - 1
    BY Division
  <1> HIDE DEF t
  <1>2. CASE t + d < size
    <2> DEFINE s == t + d
    <2>1. x + d = size * k + s /\ s \in 0 .. size - 1 /\ s # t
      BY <1>1, <1>2
    <2> HIDE DEF s
    <2>2. (x + d) % size = s
      BY <2>1, ModUnique
    <2> QED
      BY <2>1, <2>2 DEF t
  <1>3. CASE t + d >= size
    <2> DEFINE s == t + d - size
    <2>1. s \in 0 .. size - 1 /\ s # t
      BY <1>1, <1>3
    <2>2. x + d = size * (k + 1) + s
      <3>1. size * (k + 1) = size * k + size /\ size * k \in Int
        OBVIOUS
      <3> QED
        BY <1>1, <3>1
    <2> HIDE DEF s
    <2>3. k + 1 \in Int
      OBVIOUS
    <2>4. (size * (k + 1) + s) % size = s
      BY <2>1, <2>3, ModUnique
    <2> QED
      BY <2>1, <2>2, <2>4 DEF t
  <1> QED
    BY <1>1, <1>2, <1>3

=============================================================================
