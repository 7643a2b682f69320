---------------------------- MODULE UserMemProofs ---------------------------
(* User memory (UserMem.tla): p->sz bounds what is mapped, and growing,    *)
(* faulting, exec() and wait() meet no page mapped twice or left over, for *)
(* any number of processes and frames, any page size and any programs.     *)
EXTENDS UserMem, WellFoundedInduction, TLAPS

-----------------------------------------------------------------------------
(* Pages.                                                                  *)

\* A page lies in the first n units exactly when it is one of PGROUNDUP(n).
LEMMA RoundUp ==
  ASSUME NEW n \in Nat
  PROVE  /\ PGROUNDUP(n) \in Nat
         /\ \A v \in Nat : v < PGROUNDUP(n) <=> v * PGSIZE < n
  <1> DEFINE x == n + PGSIZE - 1
             q == x \div PGSIZE
             r == x % PGSIZE
  <1>1. PGSIZE \in Nat \ {0} /\ x \in Nat
    BY UserMemAssumption
  <1>2. x = PGSIZE * q + r /\ q \in Int /\ r \in 0 .. PGSIZE - 1
    <2> HIDE DEF x
    <2> QED
      BY <1>1
  <1> HIDE DEF q, r
  <1>3. n = PGSIZE * q + r - PGSIZE + 1 /\ PGSIZE * q \in Int
    BY <1>1, <1>2
  <1>4. q >= 0
    <2> SUFFICES ASSUME q <= -1 PROVE FALSE
      BY <1>2
    <2>1. PGSIZE * (q + 1) <= 0 /\ PGSIZE * (q + 1) = PGSIZE * q + PGSIZE
      BY <1>1, <1>2
    <2> QED
      BY <1>1, <1>2, <1>3, <2>1
  <1>5. ASSUME NEW v \in Nat, v < q PROVE v * PGSIZE < n
    <2>1. (q - v - 1) * PGSIZE >= 0 /\ (q - v - 1) * PGSIZE = PGSIZE * q - v * PGSIZE - PGSIZE
          /\ v * PGSIZE \in Int
      BY <1>1, <1>2, <1>5
    <2> QED
      BY <1>1, <1>2, <1>3, <2>1
  <1>6. ASSUME NEW v \in Nat, v >= q PROVE ~(v * PGSIZE < n)
    <2>1. (v - q) * PGSIZE >= 0 /\ (v - q) * PGSIZE = v * PGSIZE - PGSIZE * q /\ v * PGSIZE \in Int
      BY <1>1, <1>2, <1>6
    <2> QED
      BY <1>1, <1>2, <1>3, <2>1
  <1>7. PGROUNDUP(n) = q
    BY DEF PGROUNDUP, q
  <1> QED
    BY <1>2, <1>4, <1>5, <1>6, <1>7

\* More memory takes no fewer pages.
LEMMA RoundUpMonotone ==
  ASSUME NEW m \in Nat, NEW n \in Nat, m <= n
  PROVE  PGROUNDUP(m) <= PGROUNDUP(n)
  <1> DEFINE a == PGROUNDUP(m)
             b == PGROUNDUP(n)
  <1>1. a \in Nat /\ b \in Nat /\ (b < a <=> b * PGSIZE < m) /\ ~(b * PGSIZE < n)
    <2>1. a \in Nat /\ \A v \in Nat : v < a <=> v * PGSIZE < m
      BY RoundUp, Zenon
    <2>2. b \in Nat /\ \A v \in Nat : v < b <=> v * PGSIZE < n
      BY RoundUp, Zenon
    <2> HIDE DEF a, b
    <2>3. ~(b < b)
      BY <2>2
    <2> QED
      BY <2>1, <2>2, <2>3, Zenon
  <1> HIDE DEF a, b
  <1>2. b * PGSIZE \in Int
    BY <1>1, UserMemAssumption
  <1>3. a <= b
    BY <1>1, <1>2
  <1> QED
    BY <1>3 DEF a, b

\* Whole pages need no rounding.
LEMMA RoundUpPages ==
  ASSUME NEW k \in Nat
  PROVE  k * PGSIZE \in Nat /\ PGROUNDUP(k * PGSIZE) = k
  <1> DEFINE n == k * PGSIZE
             a == PGROUNDUP(n)
  <1>1. PGSIZE \in Nat \ {0} /\ n \in Nat
    BY UserMemAssumption
  <1>2. a \in Nat /\ \A v \in Nat : v < a <=> v * PGSIZE < n
    <2> HIDE DEF n
    <2> QED
      BY <1>1, RoundUp, Zenon
  <1> HIDE DEF a
  <1>3. ~(k < a)
    <2>1. k < a <=> k * PGSIZE < k * PGSIZE
      BY <1>2, Zenon
    <2> QED
      BY <1>1, <2>1
  <1>4. ~(a < k)
    <2> SUFFICES ASSUME a < k PROVE FALSE
      OBVIOUS
    <2>1. a * PGSIZE < k * PGSIZE
      <3>1. (k - a - 1) * PGSIZE >= 0 /\ (k - a - 1) * PGSIZE = k * PGSIZE - a * PGSIZE - PGSIZE
            /\ k * PGSIZE \in Int /\ a * PGSIZE \in Int
        BY <1>1, <1>2
      <3> QED
        BY <1>1, <3>1
    <2>2. a < a
      BY <1>2, <2>1, Zenon
    <2> QED
      BY <1>2, <2>2
  <1>5. a = k
    BY <1>2, <1>3, <1>4
  <1> QED
    BY <1>1, <1>5 DEF a

\* The segments of a process.
Segments == [text : Nat, data : Nat]

\* Segments take a whole number of pages.
LEMMA TopType ==
  ASSUME NEW s \in Segments
  PROVE  /\ PGROUNDUP(s.text) \in Nat /\ PGROUNDUP(s.data) \in Nat /\ Top(s) \in Nat
         /\ PGROUNDUP(s.text) <= Top(s)
  <1>1. s.text \in Nat /\ s.data \in Nat
    BY Zenon DEF Segments
  <1>2. PGROUNDUP(s.text) \in Nat /\ PGROUNDUP(s.data) \in Nat
    BY <1>1, RoundUp, Zenon
  <1> QED
    BY <1>2 DEF Top

\* A fault that usertrap() serves is for a page of the segments.
LEMMA FaultPage ==
  ASSUME NEW p, seg[p] \in Segments, NEW u \in Nat, InSegments(p, u)
  PROVE  u \div PGSIZE \in Nat /\ u \div PGSIZE < Top(seg[p])
  <1> DEFINE w == u \div PGSIZE
             text == seg[p].text
             data == seg[p].data
             P == PGROUNDUP(text)
             D == PGROUNDUP(data)
  <1>1. PGSIZE \in Nat \ {0} /\ text \in Nat /\ data \in Nat
    BY UserMemAssumption DEF Segments
  <1>2. w \in Nat /\ w * PGSIZE \in Nat /\ w * PGSIZE <= u
    BY <1>1
  <1>3. /\ P \in Nat /\ D \in Nat /\ Top(seg[p]) = P + D
        /\ \A v \in Nat : v < P <=> v * PGSIZE < text
        /\ \A v \in Nat : v < D <=> v * PGSIZE < data
    BY <1>1, RoundUp, Zenon DEF Top
  <1>4. u < text \/ (u >= P * PGSIZE /\ u < P * PGSIZE + data)
    BY Zenon DEF InSegments
  <1> HIDE DEF w, text, data, P, D
  <1>5. CASE u < text
    <2>1. w * PGSIZE < text
      BY <1>1, <1>2, <1>5
    <2>2. w < P
      BY <1>2, <1>3, <2>1, Zenon
    <2> QED
      BY <1>2, <1>3, <2>2 DEF w
  <1>6. CASE u >= P * PGSIZE /\ u < P * PGSIZE + data
    <2>1. CASE w < P
      BY <1>2, <1>3, <2>1 DEF w
    <2>2. CASE w >= P
      <3>1. w - P \in Nat /\ (w - P) * PGSIZE = w * PGSIZE - P * PGSIZE /\ P * PGSIZE \in Nat
        BY <1>1, <1>2, <1>3, <2>2
      <3>2. (w - P) * PGSIZE < data
        BY <1>1, <1>2, <1>6, <3>1
      <3>3. w - P < D
        BY <1>3, <3>1, <3>2, Zenon
      <3> QED
        BY <1>2, <1>3, <3>1, <3>3 DEF w
    <2> QED
      BY <1>2, <1>3, <2>1, <2>2
  <1> QED
    BY <1>4, <1>5, <1>6, Zenon

-----------------------------------------------------------------------------
(* Page tables.                                                            *)

Perms == {"user", "kernel"}
Leaves == UNION {[D -> Perms] : D \in SUBSET Nat}
Tables == [root : BOOLEAN, nodes : SUBSET ({0, 1} \X Nat), leaf : Leaves]

\* The pages of user memory that t maps: all but those of every process.
Low(t) == DOMAIN t.leaf \ {TRAMPOLINE, TRAPFRAME}

\* t maps no user memory from page n on.
Below(t, n) == \A v \in Low(t) : v < n

\* The trampoline and the trapframe are the two pages at the top.
LEMMA Addresses ==
  /\ TRAMPOLINE \in Nat /\ TRAPFRAME \in Nat /\ TRAPFRAME > 1 /\ TRAMPOLINE > TRAPFRAME
  /\ USERTOP \in Nat /\ PGSIZE <= USERTOP
  <1>1. NPTE \in Nat /\ NPTE >= 2
    BY NPTEAssumption
  <1>2. NPTE * NPTE \in Nat /\ NPTE * NPTE >= 4
    BY <1>1
  <1>3. NPTE * NPTE * NPTE \in Nat /\ NPTE * NPTE * NPTE >= 8
    <2> DEFINE m == NPTE * NPTE
    <2>1. m \in Nat /\ m >= 4
      BY <1>2
    <2> HIDE DEF m
    <2>2. m * NPTE \in Nat /\ m * NPTE >= 8
      BY <1>1, <2>1
    <2> QED
      BY <2>2 DEF m
  <1> DEFINE M == NPTE * NPTE * NPTE
  <1>4. M \in Nat /\ M >= 8 /\ TRAMPOLINE = M - 1 /\ TRAPFRAME = M - 1 - 1
    BY <1>3 DEF TRAMPOLINE, TRAPFRAME, MAXVA
  <1> HIDE DEF M
  <1>5. TRAMPOLINE \in Nat /\ TRAPFRAME \in Nat /\ TRAPFRAME > 1 /\ TRAMPOLINE > TRAPFRAME
    BY <1>4
  <1>6. TRAPFRAME * PGSIZE \in Nat /\ PGSIZE <= TRAPFRAME * PGSIZE
    <2>1. (TRAPFRAME - 1) * PGSIZE >= 0 /\ (TRAPFRAME - 1) * PGSIZE = TRAPFRAME * PGSIZE - PGSIZE
          /\ TRAPFRAME * PGSIZE \in Nat /\ PGSIZE \in Nat
      BY <1>5, UserMemAssumption
    <2> QED
      BY <2>1
  <1> QED
    BY <1>5, <1>6 DEF USERTOP

\* The leaves of a table are a function on pages.
LEMMA LeafType ==
  ASSUME NEW t \in Tables
  PROVE  /\ t.leaf \in [DOMAIN t.leaf -> Perms] /\ DOMAIN t.leaf \subseteq Nat
         /\ Low(t) \subseteq DOMAIN t.leaf /\ Low(t) \subseteq Nat
  <1>1. PICK D \in SUBSET Nat : t.leaf \in [D -> Perms]
    BY Zenon DEF Tables, Leaves
  <1> QED
    BY <1>1, Zenon DEF Low

\* The page tables on the way to a page.
LEMMA PathType ==
  ASSUME NEW v \in Nat
  PROVE  Path(v) \subseteq {0, 1} \X Nat
  <1>1. NPTE \in Nat \ {0} /\ NPTE * NPTE \in Nat \ {0}
    BY NPTEAssumption
  <1>2. v \div NPTE \in Nat
    BY <1>1
  <1>3. v \div (NPTE * NPTE) \in Nat
    <2> DEFINE m == NPTE * NPTE
    <2> HIDE DEF m
    <2>1. m \in Nat \ {0}
      BY <1>1 DEF m
    <2>2. v \div m \in Nat
      BY <2>1
    <2> QED
      BY <2>2 DEF m
  <1> QED
    <2> DEFINE a == v \div (NPTE * NPTE)
               b == v \div NPTE
    <2>1. a \in Nat /\ b \in Nat /\ Path(v) = {<<1, a>>, <<0, b>>}
      BY <1>2, <1>3, Zenon DEF Path
    <2> HIDE DEF a, b
    <2> QED
      BY <2>1

\* u is t with at most page v added.
Adds(u, t, v, perm) ==
    \A w \in DOMAIN u.leaf :
        \/ w = v /\ u.leaf[w] = perm
        \/ w \in DOMAIN t.leaf /\ u.leaf[w] = t.leaf[w]

\* u is t with some pages removed.
Removes(u, t, V) ==
    /\ DOMAIN u.leaf = DOMAIN t.leaf \ V
    /\ \A w \in DOMAIN u.leaf : u.leaf[w] = t.leaf[w]

\* mappages() adds the page it is asked for, or no page.
LEMMA MapFacts ==
  ASSUME NEW t \in Tables, NEW v \in Nat, NEW perm \in Perms, NEW n
  PROVE  /\ mappages(t, v, perm, n) \in Tables
         /\ Adds(mappages(t, v, perm, n), t, v, perm)
         /\ ~CanMap(t, v, n) => mappages(t, v, perm, n).leaf = t.leaf
  <1> DEFINE N == t.nodes \cup Added(t, v, n)
             F == [w \in DOMAIN t.leaf \cup {v} |-> IF w = v THEN perm ELSE t.leaf[w]]
             L == IF CanMap(t, v, n) THEN F ELSE t.leaf
  <1>1. mappages(t, v, perm, n) = [t EXCEPT !.nodes = N, !.leaf = L]
    BY Zenon DEF mappages
  <1>2. N \in SUBSET ({0, 1} \X Nat)
    <2>1. Added(t, v, n) \subseteq Path(v)
      BY Zenon DEF Added
    <2>2. t.nodes \subseteq {0, 1} \X Nat
      BY Zenon DEF Tables
    <2> QED
      BY <2>1, <2>2, PathType, Zenon
  <1>3. F \in [DOMAIN t.leaf \cup {v} -> Perms] /\ DOMAIN t.leaf \cup {v} \in SUBSET Nat
    BY LeafType, Zenon
  <1>4. L \in Leaves
    <2>1. F \in Leaves
      BY <1>3, Zenon DEF Leaves
    <2>2. t.leaf \in Leaves
      BY Zenon DEF Tables
    <2> QED
      BY <2>1, <2>2, Zenon
  <1> DEFINE u == mappages(t, v, perm, n)
  <1>5. u \in Tables /\ u.leaf = L
    <2> HIDE DEF N, L
    <2> QED
      BY <1>1, <1>2, <1>4 DEF Tables
  <1> HIDE DEF u
  <1>6. /\ \A w \in DOMAIN L :
              \/ w = v /\ L[w] = perm
              \/ w \in DOMAIN t.leaf /\ L[w] = t.leaf[w]
        /\ ~CanMap(t, v, n) => L = t.leaf
    <2>1. \A w \in DOMAIN F :
             \/ w = v /\ F[w] = perm
             \/ w \in DOMAIN t.leaf /\ F[w] = t.leaf[w]
      BY Zenon
    <2> HIDE DEF F
    <2> QED
      BY <2>1, Zenon
  <1> HIDE DEF L
  <1>7. Adds(u, t, v, perm)
    BY <1>5, <1>6, Zenon DEF Adds
  <1> QED
    BY <1>5, <1>6, <1>7, Zenon DEF u

\* uvmunmap() removes the pages it is asked for and no other.
LEMMA UnmapFacts ==
  ASSUME NEW t \in Tables, NEW V
  PROVE  uvmunmap(t, V) \in Tables /\ Removes(uvmunmap(t, V), t, V)
  <1> DEFINE L == [x \in DOMAIN t.leaf \ V |-> t.leaf[x]]
             u == uvmunmap(t, V)
  <1>1. u = [t EXCEPT !.leaf = L]
    BY Zenon DEF uvmunmap, Restrict
  <1>2. L \in Leaves
    <2>1. L \in [DOMAIN t.leaf \ V -> Perms] /\ DOMAIN t.leaf \ V \in SUBSET Nat
      BY LeafType, Zenon
    <2> QED
      BY <2>1, Zenon DEF Leaves
  <1>3. u \in Tables /\ u.leaf = L
    <2> HIDE DEF L, u
    <2> QED
      BY <1>1, <1>2 DEF Tables
  <1> QED
    BY <1>3, Zenon DEF Removes

\* uvmclear() changes the permission of one page.
LEMMA ClearFacts ==
  ASSUME NEW t \in Tables, NEW v
  PROVE  /\ uvmclear(t, v) \in Tables
         /\ DOMAIN uvmclear(t, v).leaf = DOMAIN t.leaf
         /\ \A w \in DOMAIN t.leaf : w # v => uvmclear(t, v).leaf[w] = t.leaf[w]
  <1> DEFINE L == [t.leaf EXCEPT ![v] = "kernel"]
             u == uvmclear(t, v)
  <1>1. u = [t EXCEPT !.leaf = L]
    BY DEF uvmclear, Tables
  <1>2. L \in [DOMAIN t.leaf -> Perms] /\ DOMAIN L = DOMAIN t.leaf /\ DOMAIN t.leaf \in SUBSET Nat
        /\ \A w \in DOMAIN t.leaf : w # v => L[w] = t.leaf[w]
    BY LeafType, Zenon DEF Perms
  <1>3. L \in Leaves
    BY <1>2, Zenon DEF Leaves
  <1>4. u \in Tables /\ u.leaf = L
    <2> HIDE DEF L, u
    <2> QED
      BY <1>1, <1>3 DEF Tables
  <1> QED
    BY <1>2, <1>4, Zenon

\* A table of proc_pagetable(), and none at all, hold no user memory.
LEMMA EmptyTables ==
  /\ proc_pagetable \in Tables /\ Low(proc_pagetable) = {}
  /\ NoTable \in Tables /\ Low(NoTable) = {}
  <1>1. /\ proc_pagetable.leaf \in [{TRAMPOLINE, TRAPFRAME} -> Perms]
        /\ {TRAMPOLINE, TRAPFRAME} \in SUBSET Nat
    BY Addresses, Zenon DEF proc_pagetable, Perms
  <1>2. Path(TRAMPOLINE) \cup Path(TRAPFRAME) \subseteq {0, 1} \X Nat
    BY Addresses, PathType, Zenon
  <1>3. proc_pagetable.leaf \in Leaves
    BY <1>1, Zenon DEF Leaves
  <1>4. proc_pagetable \in Tables
    BY <1>2, <1>3 DEF Tables, proc_pagetable
  <1>5. Low(proc_pagetable) = {}
    BY <1>1, Zenon DEF Low
  <1>6. <<>> \in [{} -> Perms]
    BY SMT
  <1>7. <<>> \in Leaves
    BY <1>6, Zenon DEF Leaves
  <1>8. NoTable \in Tables
    BY <1>7 DEF Tables, NoTable
  <1>9. Low(NoTable) = {}
    <2>1. DOMAIN NoTable.leaf = {}
      BY <1>6, Zenon DEF NoTable
    <2> QED
      BY <2>1, Zenon DEF Low
  <1> QED
    BY <1>4, <1>5, <1>8, <1>9, Zenon

-----------------------------------------------------------------------------
(* The inductive invariant.                                                *)

Places == {"unused", "used", "user", "grow", "fork", "exec", "args", "bad",
           "fault", "killed", "zombie", "halted"}
Locals == [tab : {"cur", "new"}, a : Nat, old : Nat, new : Nat, child : Procs,
           hand : {0, 1}, va : Nat, kernel : BOOLEAN, prog : Segments]

TypeOK ==
    /\ pc \in [Procs -> Places]
    /\ loc \in [Procs -> Locals]
    /\ pt \in [Procs -> [cur : Tables, new : Tables]]
    /\ sz \in [Procs -> 0 .. USERTOP]
    /\ seg \in [Procs -> Segments]
    /\ damaged \subseteq Procs

\* The table that exec() builds holds the guard page and the stack, as far as
\* uvmalloc() has come, above the segments it has given to the process.
NewImage(p) ==
    /\ loc[p].tab = "new" => pc[p] \in {"grow", "args", "bad", "halted"}
    /\ pc[p] = "args" => loc[p].tab = "new"
    /\ pc[p] = "exec" => Low(pt[p].new) = {} /\ Top(loc[p].prog) + 2 <= TRAPFRAME
    /\ loc[p].tab = "new" /\ pc[p] \in {"grow", "args"} =>
         /\ loc[p].old = Top(seg[p]) * PGSIZE
         /\ loc[p].new = (Top(seg[p]) + 2) * PGSIZE
         /\ Top(seg[p]) + 2 <= TRAPFRAME
         /\ Top(seg[p]) <= loc[p].a /\ loc[p].a <= Top(seg[p]) + 2
         /\ \A v \in Low(pt[p].new) : Top(seg[p]) <= v /\ v < loc[p].a

\* sbrk() has come to page a, and nothing is mapped from there on.
Growing(p) ==
    pc[p] = "grow" /\ loc[p].tab = "cur" =>
        /\ loc[p].old = sz[p] /\ sz[p] <= loc[p].new /\ loc[p].new <= USERTOP
        /\ PGROUNDUP(sz[p]) <= loc[p].a /\ loc[p].a <= PGROUNDUP(loc[p].new)
        /\ p \notin damaged => Below(pt[p].cur, loc[p].a)

\* The segments lie within the memory, and what is mapped of them can be used.
SegmentsIn(p) ==
    /\ Top(seg[p]) * PGSIZE <= sz[p]
    /\ \A v \in Low(pt[p].cur) : v < Top(seg[p]) => pt[p].cur.leaf[v] = "user"

\* The memory of a process that is not damaged.  While exec() has replaced the
\* segments but not the memory, they have nothing to do with each other.
Image(p) ==
    /\ pc[p] \in {"user", "fork", "exec", "fault", "killed", "args", "bad", "zombie"}
       \/ (pc[p] = "grow" /\ loc[p].tab = "new") => Below(pt[p].cur, PGROUNDUP(sz[p]))
    /\ pc[p] \in {"user", "fork", "exec", "fault", "grow", "bad"} /\ loc[p].tab = "cur" =>
         SegmentsIn(p)
    /\ pc[p] = "fault" =>
         loc[p].va < Top(seg[p]) /\ loc[p].va \notin DOMAIN pt[p].cur.leaf

Local(p) == NewImage(p) /\ Growing(p) /\ (p \notin damaged => Image(p))

\* fork() fills the table of one child, with pages as they are in the parent.
Forking(p) ==
    LET c == loc[p].child IN
    pc[p] = "fork" =>
        /\ pc[c] = "used" /\ seg[c] = seg[p]
        /\ Below(pt[c].cur, PGROUNDUP(sz[p]))
        /\ \A v \in Low(pt[c].cur) :
             v \in DOMAIN pt[p].cur.leaf /\ pt[c].cur.leaf[v] = pt[p].cur.leaf[v]
        /\ \A q \in Procs : pc[q] = "fork" /\ loc[q].child = c => q = p

Halted == panicked # "" => \A p \in Procs : pc[p] = "halted"

\* wait() and a fork() that fails leave nothing behind.
Fresh(p) == pc[p] \in {"unused", "used"} => p \notin damaged

IInv ==
    /\ TypeOK /\ Halted /\ NoImagePanic
    /\ \A p \in Procs : Local(p) /\ Forking(p) /\ Fresh(p)

\* What a process has is the same before and after a step.
Same(q) ==
    /\ pc'[q] = pc[q] /\ loc'[q] = loc[q] /\ pt'[q] = pt[q]
    /\ sz'[q] = sz[q] /\ seg'[q] = seg[q]
    /\ q \in damaged' <=> q \in damaged

\* A process is not affected by the steps of others.
LEMMA SameLocal ==
  ASSUME NEW q \in Procs, Same(q), Local(q), Fresh(q)
  PROVE  Local(q)' /\ Fresh(q)'
  <1>1. NewImage(q)'
    BY Zenon DEF Same, Local, NewImage
  <1>2. Growing(q)'
    BY Zenon DEF Same, Local, Growing
  <1>3. q \notin damaged' => Image(q)'
    BY Zenon DEF Same, Local, Image, SegmentsIn
  <1>4. Fresh(q)'
    BY Zenon DEF Same, Fresh
  <1> QED
    BY <1>1, <1>2, <1>3, <1>4, Zenon DEF Local

\* A step of one process, other than in fork().
LEMMA OneStep ==
  ASSUME IInv, NEW p \in Procs, \A q \in Procs : q # p => Same(q),
         pc[p] \notin {"used", "fork"}, pc'[p] \notin {"used", "fork", "halted"},
         panicked = "", panicked' = "",
         TypeOK', Local(p)', Fresh(p)'
  PROVE  IInv'
  <1>1. \A q \in Procs : Local(q)' /\ Fresh(q)'
    BY SameLocal, Zenon DEF IInv
  <1>2. ASSUME NEW q \in Procs PROVE Forking(q)'
    <2> SUFFICES ASSUME pc'[q] = "fork" PROVE Forking(q)'
      BY Zenon DEF Forking
    <2>1. q # p /\ Same(q) /\ pc[q] = "fork" /\ Forking(q)
      BY Zenon DEF IInv, Same
    <2> DEFINE c == loc[q].child
    <2>2. c \in Procs /\ c # p
      BY <2>1, Zenon DEF IInv, TypeOK, Locals, Forking
    <2>3. Same(c) /\ c = loc'[q].child
      BY <2>1, <2>2, Zenon DEF Same
    <2>4. \A r \in Procs : pc'[r] = "fork" => pc[r] = "fork" /\ loc'[r] = loc[r]
      BY Zenon DEF Same
    <2>5. /\ pc[c] = "used" /\ seg[c] = seg[q]
          /\ Below(pt[c].cur, PGROUNDUP(sz[q]))
          /\ \A v \in Low(pt[c].cur) :
               v \in DOMAIN pt[q].cur.leaf /\ pt[c].cur.leaf[v] = pt[q].cur.leaf[v]
          /\ \A r \in Procs : pc[r] = "fork" /\ loc[r].child = c => r = q
      BY <2>1, Zenon DEF Forking
    <2> HIDE DEF c
    <2>6. /\ pc'[c] = "used" /\ seg'[c] = seg'[q]
          /\ Below(pt'[c].cur, PGROUNDUP(sz'[q]))
          /\ \A v \in Low(pt'[c].cur) :
               v \in DOMAIN pt'[q].cur.leaf /\ pt'[c].cur.leaf[v] = pt'[q].cur.leaf[v]
      BY <2>1, <2>3, <2>5, Zenon DEF Same
    <2>7. \A r \in Procs : pc'[r] = "fork" /\ loc'[r].child = c => r = q
      BY <2>4, <2>5, Zenon
    <2> QED
      BY <2>3, <2>6, <2>7, Zenon DEF Forking
  <1>3. Halted' /\ NoImagePanic'
    BY Zenon DEF Halted, NoImagePanic
  <1> QED
    BY <1>1, <1>2, <1>3, Zenon DEF IInv

\* A panic halts the machine with everything as it is.
LEMMA PanicStep ==
  ASSUME IInv, NEW why, Panic(why),
         why \in {"mappages: remap", "freewalk: leaf"} => damaged # {}
  PROVE  IInv'
  <1>1. pc' = [q \in Procs |-> "halted"] /\ panicked' = why
        /\ UNCHANGED <<loc, pt, sz, seg, damaged>>
    BY Zenon DEF Panic
  <1>2. TypeOK'
    BY <1>1, Zenon DEF IInv, TypeOK, Places
  <1>3. \A q \in Procs : pc'[q] = "halted"
    BY <1>1, Zenon
  <1>4. Halted' /\ NoImagePanic'
    BY <1>1, <1>3, Zenon DEF Halted, NoImagePanic
  <1>5. \A q \in Procs : Local(q)' /\ Forking(q)' /\ Fresh(q)'
    BY <1>3, Zenon DEF Local, NewImage, Growing, Image, Forking, Fresh
  <1> QED
    BY <1>2, <1>4, <1>5, Zenon DEF IInv

\* userinit(): one page of memory, and no other process.
LEMMA InitInv == Init => IInv
  <1> SUFFICES ASSUME Init PROVE IInv
    BY Zenon
  <1>1. NoLoc \in Locals /\ NoLoc.tab = "cur"
    BY UserMemAssumption DEF NoLoc, Locals, Segments
  <1>2. /\ FirstTable \in Tables
        /\ \A v \in Low(FirstTable) : v = 0
        /\ \A v \in Low(FirstTable) : FirstTable.leaf[v] = "user"
    <2>1. proc_pagetable \in Tables /\ Low(proc_pagetable) = {}
      BY EmptyTables, Zenon
    <2>2. 0 \in Nat /\ "user" \in Perms
      BY DEF Perms
    <2>3. FirstTable \in Tables /\ Adds(FirstTable, proc_pagetable, 0, "user")
      BY <2>1, <2>2, MapFacts, Zenon DEF FirstTable
    <2> QED
      BY <2>1, <2>3, Zenon DEF Low, Adds
  <1>3. TypeOK
    <2>1. pc \in [Procs -> Places] /\ loc \in [Procs -> Locals] /\ damaged \subseteq Procs
      BY <1>1, Zenon DEF Init, Places
    <2>2. pt \in [Procs -> [cur : Tables, new : Tables]]
      <3>1. \A p \in Procs : (IF p = initproc THEN FirstTable ELSE NoTable) \in Tables
        BY <1>2, EmptyTables, Zenon
      <3> QED
        BY <3>1, EmptyTables, Zenon DEF Init
    <2>3. sz \in [Procs -> 0 .. USERTOP]
      <3>1. \A p \in Procs : (IF p = initproc THEN PGSIZE ELSE 0) \in 0 .. USERTOP
        BY Addresses, UserMemAssumption
      <3> QED
        BY <3>1, Zenon DEF Init
    <2>4. seg \in [Procs -> Segments]
      BY DEF Init, Segments
    <2> QED
      BY <2>1, <2>2, <2>3, <2>4, Zenon DEF TypeOK
  <1>4. \A p \in Procs : Forking(p) /\ Fresh(p) /\ NewImage(p) /\ Growing(p)
    BY <1>1, Zenon DEF Init, Forking, Fresh, NewImage, Growing
  <1>5. ASSUME NEW p \in Procs PROVE Image(p)
    <2>1. CASE p # initproc
      BY <2>1, Zenon DEF Init, Image
    <2>2. CASE p = initproc
      <3>1. pc[p] = "user" /\ sz[p] = PGSIZE /\ pt[p].cur = FirstTable
            /\ seg[p] = [text |-> 0, data |-> 0]
        BY <2>2, Zenon DEF Init
      <3>2. PGROUNDUP(0) = 0 /\ PGROUNDUP(PGSIZE) = 1 /\ 0 < 1
        <4>1. 0 * PGSIZE = 0 /\ 1 * PGSIZE = PGSIZE
          BY UserMemAssumption
        <4>2. PGROUNDUP(0 * PGSIZE) = 0 /\ PGROUNDUP(1 * PGSIZE) = 1
          BY RoundUpPages
        <4> QED
          BY <4>1, <4>2
      <3>3. Top(seg[p]) = 0
        BY <3>1, <3>2 DEF Top
      <3>4. Below(pt[p].cur, PGROUNDUP(sz[p]))
        BY <1>2, <3>1, <3>2, Zenon DEF Below
      <3>5. SegmentsIn(p)
        <4>1. Top(seg[p]) * PGSIZE <= sz[p]
          BY <3>1, <3>3, UserMemAssumption
        <4> QED
          BY <4>1, <1>2, <3>1, Zenon DEF SegmentsIn
      <3> QED
        BY <3>1, <3>4, <3>5, Zenon DEF Image
    <2> QED
      BY <2>1, <2>2, Zenon
  <1>6. Halted /\ NoImagePanic
    BY Zenon DEF Init, Halted, NoImagePanic
  <1> QED
    BY <1>3, <1>4, <1>5, <1>6, Zenon DEF IInv, Local

-----------------------------------------------------------------------------
(* sbrk() and uvmalloc().                                                  *)

\* The types of what process p has.
LEMMA Types ==
  ASSUME TypeOK, NEW p \in Procs
  PROVE  /\ pc[p] \in Places /\ loc[p] \in Locals /\ loc[p].tab \in {"cur", "new"}
         /\ loc[p].a \in Nat /\ loc[p].old \in Nat /\ loc[p].new \in Nat /\ loc[p].va \in Nat
         /\ loc[p].child \in Procs /\ loc[p].prog \in Segments
         /\ pt[p].cur \in Tables /\ pt[p].new \in Tables
         /\ sz[p] \in Nat /\ sz[p] <= USERTOP /\ PGROUNDUP(sz[p]) \in Nat
         /\ seg[p] \in Segments /\ Top(seg[p]) \in Nat
  <1>1. /\ pc[p] \in Places /\ loc[p] \in Locals /\ pt[p] \in [cur : Tables, new : Tables]
        /\ sz[p] \in 0 .. USERTOP /\ seg[p] \in Segments
    BY Zenon DEF TypeOK
  <1>2. sz[p] \in Nat /\ sz[p] <= USERTOP
    BY <1>1, Addresses
  <1>3. PGROUNDUP(sz[p]) \in Nat /\ Top(seg[p]) \in Nat
    BY <1>1, <1>2, RoundUp, TopType, Zenon
  <1> QED
    BY <1>1, <1>2, <1>3, Zenon DEF Locals

\* The locals of a call that has ended.
LEMMA NoLocType == NoLoc \in Locals /\ NoLoc.tab = "cur"
  BY UserMemAssumption DEF NoLoc, Locals, Segments

\* Replacing one table of a process.
LEMMA SetTable ==
  ASSUME TypeOK, NEW p \in Procs, NEW u \in Tables, NEW tab \in {"cur", "new"},
         pt' = [pt EXCEPT ![p][tab] = u]
  PROVE  /\ pt' \in [Procs -> [cur : Tables, new : Tables]]
         /\ tab = "cur" => pt'[p].cur = u /\ pt'[p].new = pt[p].new
         /\ tab = "new" => pt'[p].new = u /\ pt'[p].cur = pt[p].cur
         /\ \A q \in Procs : q # p => pt'[q] = pt[q]
  <1>1. pt \in [Procs -> [cur : Tables, new : Tables]]
    BY Zenon DEF TypeOK
  <1> DEFINE r == [pt[p] EXCEPT ![tab] = u]
  <1>2. pt' = [pt EXCEPT ![p] = r]
    BY Zenon
  <1>3. /\ r \in [cur : Tables, new : Tables]
        /\ tab = "cur" => r.cur = u /\ r.new = pt[p].new
        /\ tab = "new" => r.new = u /\ r.cur = pt[p].cur
    BY ONLY <1>1, u \in Tables, p \in Procs, tab \in {"cur", "new"}
  <1> HIDE DEF r
  <1> QED
    BY <1>1, <1>2, <1>3, Zenon

\* Setting the locals of a process.
LEMMA SetLocals ==
  ASSUME TypeOK, NEW p \in Procs, NEW l \in Locals, loc' = [loc EXCEPT ![p] = l]
  PROVE  loc' \in [Procs -> Locals] /\ loc'[p] = l /\ \A q \in Procs : q # p => loc'[q] = loc[q]
  BY Zenon DEF TypeOK

\* A process goes on to another place.
LEMMA SetPlace ==
  ASSUME TypeOK, NEW p \in Procs, NEW where \in Places, Goto(p, where)
  PROVE  pc' \in [Procs -> Places] /\ pc'[p] = where /\ \A q \in Procs : q # p => pc'[q] = pc[q]
  BY Zenon DEF TypeOK, Goto

\* sbrk(n) with n > 0 begins uvmalloc() at the first page above the memory.
LEMMA Inv_SbrkGrow ==
  ASSUME IInv, panicked = "", NEW p \in Procs, NEW n \in Sbrks, Sbrk(p, n), n > 0
  PROVE  IInv'
  <1> DEFINE new == sz[p] + n
             l == [loc[p] EXCEPT !.a = PGROUNDUP(sz[p]), !.old = sz[p], !.new = new]
  <1>t. n \in Int /\ USERTOP \in Nat /\ sz[p] \in Nat /\ sz[p] <= USERTOP
    BY Types, Addresses, UserMemAssumption, Zenon DEF IInv
  <1>s. /\ pc[p] = "user" /\ (n < 0 \/ new <= USERTOP)
        /\ ~(n < 0) => Goto(p, "grow") /\ loc' = [loc EXCEPT ![p] = l]
                       /\ UNCHANGED <<pt, sz, seg, damaged, panicked>>
    BY Zenon DEF Sbrk
  <1> HIDE DEF l
  <1>u. ~(n < 0)
    BY ONLY n > 0, <1>t
  <1>a. TypeOK /\ Local(p) /\ loc[p].tab = "cur"
    BY <1>s, Types, Zenon DEF IInv, Local, NewImage
  <1>b. new \in Nat /\ sz[p] <= new /\ new <= USERTOP
    <2>1. sz[p] + n <= USERTOP
      BY <1>s, <1>u, Zenon
    <2> QED
      BY ONLY n > 0, <1>t, <2>1
  <1> HIDE DEF new
  <1>c. PGROUNDUP(sz[p]) \in Nat /\ PGROUNDUP(new) \in Nat /\ PGROUNDUP(sz[p]) <= PGROUNDUP(new)
    BY <1>b, <1>t, RoundUp, RoundUpMonotone, Zenon
  <1>d. l \in Locals /\ l.tab = "cur" /\ l.a = PGROUNDUP(sz[p]) /\ l.old = sz[p] /\ l.new = new
    <2>1. l = [loc[p] EXCEPT !.a = PGROUNDUP(sz[p]), !.old = sz[p], !.new = new]
      BY Zenon DEF l
    <2>2. loc[p] \in Locals
      BY <1>a, Types, Zenon
    <2> QED
      BY <1>a, <1>b, <1>c, <1>t, <2>1, <2>2, Zenon DEF Locals
  <1>e. /\ loc' \in [Procs -> Locals] /\ loc'[p] = l
        /\ \A q \in Procs : q # p => loc'[q] = loc[q]
    BY <1>a, <1>d, <1>s, <1>u, SetLocals, Zenon
  <1>f. /\ pc' \in [Procs -> Places] /\ pc'[p] = "grow"
        /\ \A q \in Procs : q # p => pc'[q] = pc[q]
    BY <1>a, <1>s, <1>u, SetPlace, Zenon DEF Places
  <1>1. TypeOK'
    BY <1>a, <1>e, <1>f, <1>s, <1>u, Zenon DEF TypeOK
  <1>2. \A q \in Procs : q # p => Same(q)
    BY <1>e, <1>f, <1>s, <1>u, Zenon DEF Same
  <1>3. NewImage(p)'
    BY <1>d, <1>e, <1>f, Zenon DEF NewImage
  <1>4. PGROUNDUP(sz[p]) <= PGROUNDUP(sz[p])
    BY ONLY <1>c
  <1>5. Growing(p)'
    BY <1>a, <1>b, <1>c, <1>d, <1>e, <1>s, <1>u, <1>4, Zenon DEF Growing, Local, Image
  <1>6. p \notin damaged' => Image(p)'
    BY <1>a, <1>d, <1>e, <1>f, <1>s, <1>u, Zenon DEF Image, SegmentsIn, Local
  <1>7. Fresh(p)'
    BY <1>f, Zenon DEF Fresh
  <1> QED
    BY <1>f, <1>s, <1>u, <1>1, <1>2, <1>3, <1>5, <1>6, <1>7, OneStep, Zenon DEF Local

\* sbrk(n) with n < 0 removes the pages above the new size.
LEMMA Inv_SbrkShrink ==
  ASSUME IInv, panicked = "", NEW p \in Procs, NEW n \in Sbrks, Sbrk(p, n), ~(n > 0)
  PROVE  IInv'
  <1> DEFINE new == sz[p] + n
             gone == PGROUNDUP(new) .. (PGROUNDUP(sz[p]) - 1)
             u == uvmunmap(pt[p].cur, gone)
  <1>s. /\ pc[p] = "user" /\ n < 0 /\ new >= 0
        /\ pt' = [pt EXCEPT ![p]["cur"] = u] /\ sz' = [sz EXCEPT ![p] = new]
        /\ damaged' = IF new < Top(seg[p]) * PGSIZE THEN damaged \cup {p} ELSE damaged
        /\ UNCHANGED <<pc, loc, seg, panicked>>
    BY Zenon DEF Sbrk
  <1>a. TypeOK /\ Local(p) /\ loc[p].tab = "cur"
    BY <1>s, Types, Zenon DEF IInv, Local, NewImage
  <1>t. /\ n \in Int /\ USERTOP \in Nat /\ sz[p] \in Nat /\ sz[p] <= USERTOP
        /\ PGROUNDUP(sz[p]) \in Nat /\ Top(seg[p]) \in Nat /\ PGSIZE \in Nat \ {0}
    BY <1>a, Types, Addresses, UserMemAssumption, Zenon
  <1>n. n < 0 /\ sz[p] + n >= 0
    BY <1>s, Zenon
  <1>b. new \in Nat /\ new <= USERTOP /\ new <= sz[p]
    BY ONLY <1>t, <1>n
  <1> HIDE DEF new
  <1>c. PGROUNDUP(new) \in Nat
    BY <1>b, RoundUp, Zenon
  <1>d. u \in Tables /\ Removes(u, pt[p].cur, gone)
    BY <1>a, Types, UnmapFacts, Zenon
  <1> HIDE DEF u, gone
  <1>f. /\ pt' \in [Procs -> [cur : Tables, new : Tables]]
        /\ pt'[p].cur = u /\ pt'[p].new = pt[p].new
        /\ \A q \in Procs : q # p => pt'[q] = pt[q]
    BY <1>a, <1>d, <1>s, SetTable, Zenon
  <1>g. sz' \in [Procs -> 0 .. USERTOP] /\ sz'[p] = new /\ \A q \in Procs : q # p => sz'[q] = sz[q]
    <2>1. new \in 0 .. USERTOP
      BY ONLY <1>b, <1>t
    <2> QED
      BY <1>a, <1>s, <2>1, Zenon DEF TypeOK
  <1>i. p \notin damaged' => p \notin damaged /\ Top(seg[p]) * PGSIZE <= new
    <2>1. p \notin damaged' => p \notin damaged /\ ~(new < Top(seg[p]) * PGSIZE)
      BY <1>s, Zenon
    <2>2. ~(new < Top(seg[p]) * PGSIZE) => Top(seg[p]) * PGSIZE <= new
      BY ONLY <1>b, <1>t
    <2> QED
      BY <2>1, <2>2, Zenon
  <1>1. TypeOK'
    <2>1. damaged' \subseteq Procs
      BY <1>a, <1>s, Zenon DEF TypeOK
    <2> QED
      BY <1>a, <1>f, <1>g, <1>s, <2>1, Zenon DEF TypeOK
  <1>2. \A q \in Procs : q # p => Same(q)
    BY <1>f, <1>g, <1>s, Zenon DEF Same
  <1>3. NewImage(p)' /\ Growing(p)' /\ Fresh(p)'
    BY <1>a, <1>s, Zenon DEF NewImage, Growing, Fresh
  <1>4. ASSUME p \notin damaged' PROVE Image(p)'
    <2>1. Below(pt[p].cur, PGROUNDUP(sz[p])) /\ SegmentsIn(p)
      BY <1>a, <1>i, <1>s, <1>4, Zenon DEF Local, Image
    <2>2. ASSUME NEW v \in Low(u) PROVE v < PGROUNDUP(new)
      <3>1. v \in Low(pt[p].cur) /\ v \notin gone /\ v \in Nat
        BY <1>a, <1>d, Types, LeafType, Zenon DEF Low, Removes
      <3>2. v < PGROUNDUP(sz[p])
        BY <2>1, <3>1, Zenon DEF Below
      <3> QED
        BY ONLY <1>t, <1>c, <3>1, <3>2 DEF gone
    <2>3. Below(u, PGROUNDUP(new))
      BY <2>2, Zenon DEF Below
    <2>4. \A v \in Low(u) : v \in Low(pt[p].cur) /\ u.leaf[v] = pt[p].cur.leaf[v]
      BY <1>d, Zenon DEF Low, Removes
    <2>5. SegmentsIn(p)'
      BY <1>f, <1>g, <1>i, <1>s, <1>4, <2>1, <2>4, Zenon DEF SegmentsIn
    <2> QED
      BY <1>f, <1>g, <1>s, <2>3, <2>5, Zenon DEF Image
  <1> QED
    BY <1>s, <1>1, <1>2, <1>3, <1>4, OneStep, Zenon DEF Local

\* growproc()
LEMMA Inv_Sbrk ==
  ASSUME IInv, panicked = "", NEW p \in Procs, NEW n \in Sbrks, Sbrk(p, n)
  PROVE  IInv'
  BY Inv_SbrkGrow, Inv_SbrkShrink, Zenon

\* A page that uvmalloc() maps lies below the new size and below TRAPFRAME.
LEMMA GrowsBelow ==
  ASSUME IInv, NEW p \in Procs, pc[p] = "grow", loc[p].a * PGSIZE < loc[p].new
  PROVE  /\ loc[p].a < TRAPFRAME /\ loc[p].a \notin {TRAMPOLINE, TRAPFRAME}
         /\ loc[p].tab = "cur" => loc[p].a + 1 <= PGROUNDUP(loc[p].new)
         /\ loc[p].tab = "new" => loc[p].a + 1 <= Top(seg[p]) + 2
  <1> DEFINE a == loc[p].a
             new == loc[p].new
             top == Top(seg[p])
  <1>t. /\ a \in Nat /\ new \in Nat /\ top \in Nat /\ loc[p].tab \in {"cur", "new"}
        /\ TRAPFRAME \in Nat /\ TRAMPOLINE \in Nat /\ TRAMPOLINE > TRAPFRAME
        /\ PGSIZE \in Nat \ {0}
    BY Types, Addresses, UserMemAssumption, Zenon DEF IInv
  <1>1. a * PGSIZE < new
    BY Zenon
  <1>2. CASE loc[p].tab = "cur"
    <2>1. new <= USERTOP
      BY <1>2, Zenon DEF IInv, Local, Growing
    <2> HIDE DEF a, new, top
    <2>2. PGROUNDUP(new) \in Nat /\ a < PGROUNDUP(new)
      BY <1>t, <1>1, RoundUp, Zenon
    <2>3. USERTOP \in Nat /\ PGROUNDUP(new) <= PGROUNDUP(USERTOP)
      BY <1>t, <2>1, Addresses, RoundUpMonotone, Zenon
    <2>4. PGROUNDUP(USERTOP) = TRAPFRAME
      BY <1>t, RoundUpPages, Zenon DEF USERTOP
    <2>5. a < TRAPFRAME /\ a \notin {TRAMPOLINE, TRAPFRAME} /\ a + 1 <= PGROUNDUP(new)
      BY ONLY <1>t, <2>2, <2>3, <2>4
    <2>6. loc[p].tab # "new"
      BY <1>2, Zenon
    <2> QED
      BY <2>5, <2>6, Zenon DEF a, new
  <1>3. CASE loc[p].tab = "new"
    <2>1. new = (top + 2) * PGSIZE /\ top + 2 <= TRAPFRAME
      BY <1>3, Zenon DEF IInv, Local, NewImage
    <2> HIDE DEF a, new, top
    <2>2. top + 2 \in Nat
      BY <1>t
    <2>3. new \in Nat /\ PGROUNDUP(new) = top + 2
      BY <2>1, <2>2, RoundUpPages, Zenon
    <2>4. a < PGROUNDUP(new)
      BY <1>t, <1>1, <2>3, RoundUp, Zenon
    <2>5. a < TRAPFRAME /\ a \notin {TRAMPOLINE, TRAPFRAME} /\ a + 1 <= top + 2
      BY ONLY <1>t, <2>1, <2>3, <2>4
    <2>6. loc[p].tab # "cur"
      BY <1>3, Zenon
    <2> QED
      BY <2>5, <2>6, Zenon DEF a, top
  <1> QED
    BY <1>t, <1>2, <1>3, Zenon

\* uvmalloc() meets a page that is mapped already only in a damaged process.
LEMMA GrowsFresh ==
  ASSUME IInv, NEW p \in Procs, pc[p] = "grow", loc[p].a * PGSIZE < loc[p].new,
         Remap(pt[p][loc[p].tab], loc[p].a)
  PROVE  damaged # {}
  <1>1. loc[p].a \in Nat /\ loc[p].tab \in {"cur", "new"} /\ ~(loc[p].a < loc[p].a)
    <2>1. loc[p].a \in Nat /\ loc[p].tab \in {"cur", "new"}
      BY Types, Zenon DEF IInv
    <2> QED
      BY ONLY <2>1
  <1>2. loc[p].a \in Low(pt[p][loc[p].tab])
    BY GrowsBelow, Zenon DEF Remap, Low
  <1>3. loc[p].tab # "new"
    BY <1>1, <1>2, Zenon DEF IInv, Local, NewImage
  <1>4. loc[p].tab = "cur"
    BY <1>1, <1>3, Zenon
  <1>5. p \in damaged
    BY <1>1, <1>2, <1>4, Zenon DEF IInv, Local, Growing, Below
  <1> QED
    BY <1>5, Zenon

\* uvmalloc() maps one page more.
LEMMA Inv_GrowMap ==
  ASSUME IInv, panicked = "", NEW p \in Procs, GrowPage(p), free # 0,
         CanMap(pt[p][loc[p].tab], loc[p].a, free - 1),
         ~Remap(pt[p][loc[p].tab], loc[p].a)
  PROVE  IInv'
  <1> DEFINE tab == loc[p].tab
             t == pt[p][tab]
             a == loc[p].a
             u == mappages(t, a, "user", free - 1)
             l == [loc[p] EXCEPT !.a = a + 1]
  <1>s. /\ pc[p] = "grow" /\ a * PGSIZE < loc[p].new
        /\ pt' = [pt EXCEPT ![p][tab] = u]
        /\ loc' = [loc EXCEPT ![p] = l]
        /\ UNCHANGED <<pc, sz, seg, panicked, damaged>>
    BY Zenon DEF GrowPage
  <1>a. TypeOK /\ NewImage(p) /\ Growing(p) /\ (p \notin damaged => Image(p))
    BY Zenon DEF IInv, Local
  <1>t. /\ a \in Nat /\ tab \in {"cur", "new"} /\ t \in Tables /\ Top(seg[p]) \in Nat
        /\ loc[p] \in Locals /\ PGROUNDUP(sz[p]) \in Nat
    BY <1>a, Types, Zenon
  <1>b. /\ tab = "cur" => a + 1 <= PGROUNDUP(loc[p].new)
        /\ tab = "new" => a + 1 <= Top(seg[p]) + 2
    BY <1>s, GrowsBelow, Zenon
  <1>c. u \in Tables /\ Adds(u, t, a, "user")
    BY <1>t, MapFacts, Zenon DEF Perms
  <1>n. a + 1 \in Nat /\ a < a + 1 /\ \A v \in Nat : v < a => v < a + 1
    <2> HIDE DEF a
    <2> QED
      BY ONLY <1>t
  <1>d. l \in Locals /\ l.a = a + 1 /\ l.tab = tab /\ l.old = loc[p].old /\ l.new = loc[p].new
        /\ l.va = loc[p].va
    BY <1>n, <1>t, Zenon DEF Locals
  <1> HIDE DEF u, l
  <1>e. /\ loc' \in [Procs -> Locals] /\ loc'[p] = l
        /\ \A q \in Procs : q # p => loc'[q] = loc[q]
    BY <1>a, <1>d, <1>s, SetLocals, Zenon
  <1>f. /\ pt' \in [Procs -> [cur : Tables, new : Tables]]
        /\ tab = "cur" => pt'[p].cur = u /\ pt'[p].new = pt[p].new
        /\ tab = "new" => pt'[p].new = u /\ pt'[p].cur = pt[p].cur
        /\ \A q \in Procs : q # p => pt'[q] = pt[q]
    <2> HIDE DEF tab
    <2> QED
      BY <1>a, <1>c, <1>s, <1>t, SetTable, Zenon
  <1>1. TypeOK'
    BY <1>a, <1>e, <1>f, <1>s, Zenon DEF TypeOK
  <1>2. \A q \in Procs : q # p => Same(q)
    BY <1>e, <1>f, <1>s, Zenon DEF Same
  <1>3. \A v \in Low(u) :
          \/ v = a /\ u.leaf[v] = "user"
          \/ v \in Low(t) /\ u.leaf[v] = t.leaf[v]
    <2> HIDE DEF t, a
    <2> QED
      BY <1>c, Zenon DEF Adds, Low
  <1>4. \A v \in Low(t) : v \in Nat
    BY <1>t, LeafType, Zenon
  <1>5. CASE tab = "cur"
    <2>0. tab # "new" /\ t = pt[p].cur
      BY <1>5, Zenon
    <2>1. NewImage(p)'
      BY <1>a, <1>d, <1>e, <1>s, <2>0, <1>5, Zenon DEF NewImage
    <2>2. /\ loc[p].old = sz[p] /\ sz[p] <= loc[p].new /\ loc[p].new <= USERTOP
          /\ PGROUNDUP(sz[p]) <= a
          /\ p \notin damaged => Below(t, a)
      BY <1>a, <1>s, <1>5, <2>0, Zenon DEF Growing
    <2>3. PGROUNDUP(sz[p]) <= a + 1
      <3> HIDE DEF a
      <3> QED
        BY ONLY <1>t, <2>2
    <2>4. p \notin damaged => Below(u, a + 1)
      BY <1>n, <1>3, <1>4, <2>2, Zenon DEF Below
    <2>5. Growing(p)'
      BY <1>b, <1>d, <1>e, <1>f, <1>s, <1>5, <2>2, <2>3, <2>4, Zenon DEF Growing
    <2>6. p \notin damaged => SegmentsIn(p)
      BY <1>a, <1>s, <1>5, Zenon DEF Image
    <2>7. p \notin damaged => SegmentsIn(p)'
      <3>1. SegmentsIn(p) => \A v \in Low(u) : v < Top(seg[p]) => u.leaf[v] = "user"
        <4> HIDE DEF t, a
        <4> QED
          BY <1>3, <2>0, Zenon DEF SegmentsIn
      <3> QED
        BY <1>f, <1>s, <1>5, <2>6, <3>1, Zenon DEF SegmentsIn
    <2>8. p \notin damaged' => Image(p)'
      BY <1>d, <1>e, <1>s, <2>0, <2>7, Zenon DEF Image
    <2>9. Local(p)' /\ Fresh(p)'
      BY <1>s, <2>1, <2>5, <2>8, Zenon DEF Local, Fresh
    <2> QED
      BY <1>s, <1>1, <1>2, <2>9, OneStep, Zenon
  <1>6. CASE tab = "new"
    <2>0. tab # "cur" /\ t = pt[p].new
      BY <1>6, Zenon
    <2>1. /\ loc[p].old = Top(seg[p]) * PGSIZE
          /\ loc[p].new = (Top(seg[p]) + 2) * PGSIZE
          /\ Top(seg[p]) + 2 <= TRAPFRAME
          /\ Top(seg[p]) <= a
          /\ \A v \in Low(t) : Top(seg[p]) <= v /\ v < a
      BY <1>a, <1>s, <1>6, <2>0, Zenon DEF NewImage
    <2>2. Top(seg[p]) <= a + 1
      <3> HIDE DEF a
      <3> QED
        BY ONLY <1>t, <2>1
    <2>3. \A v \in Low(u) : Top(seg[p]) <= v /\ v < a + 1
      BY <1>n, <1>3, <1>4, <2>1, Zenon
    <2>4. NewImage(p)'
      BY <1>b, <1>d, <1>e, <1>f, <1>s, <1>6, <2>1, <2>2, <2>3, Zenon DEF NewImage
    <2>5. Growing(p)'
      BY <1>d, <1>e, <1>s, <2>0, Zenon DEF Growing
    <2>6. p \notin damaged' => Image(p)'
      BY <1>a, <1>d, <1>e, <1>f, <1>s, <1>6, <2>0, Zenon DEF Image
    <2>9. Local(p)' /\ Fresh(p)'
      BY <1>s, <2>4, <2>5, <2>6, Zenon DEF Local, Fresh
    <2> QED
      BY <1>s, <1>1, <1>2, <2>9, OneStep, Zenon
  <1> QED
    BY <1>t, <1>5, <1>6, Zenon

\* uvmalloc() fails, and uvmdealloc() removes the pages it had mapped; the
\* failed mappages() may have added page tables, but no page.
LEMMA Inv_GrowFail ==
  ASSUME IInv, panicked = "", NEW p \in Procs, pc[p] = "grow", NEW t \in Tables,
         t.leaf = pt[p][loc[p].tab].leaf, GrowFail(p, t),
         UNCHANGED <<sz, seg, panicked, damaged>>
  PROVE  IInv'
  <1> DEFINE tab == loc[p].tab
             a == loc[p].a
             gone == PGROUNDUP(loc[p].old) .. (a - 1)
             u == uvmunmap(t, gone)
  <1>a. TypeOK /\ NewImage(p) /\ Growing(p) /\ (p \notin damaged => Image(p))
    BY Zenon DEF IInv, Local
  <1>t. /\ a \in Nat /\ tab \in {"cur", "new"} /\ PGROUNDUP(sz[p]) \in Nat
        /\ pt[p].cur \in Tables
    BY <1>a, Types, Zenon
  <1>c. u \in Tables /\ Removes(u, t, gone)
    BY UnmapFacts, Zenon
  <1>s. /\ pt' = [pt EXCEPT ![p][tab] = u]
        /\ tab = "new" => Goto(p, "bad") /\ UNCHANGED loc
        /\ tab # "new" => Goto(p, "user") /\ loc' = [loc EXCEPT ![p] = NoLoc]
    BY Zenon DEF GrowFail, Return, Undo
  <1> HIDE DEF u
  <1>f. /\ pt' \in [Procs -> [cur : Tables, new : Tables]]
        /\ tab = "cur" => pt'[p].cur = u /\ pt'[p].new = pt[p].new
        /\ tab = "new" => pt'[p].new = u /\ pt'[p].cur = pt[p].cur
        /\ \A q \in Procs : q # p => pt'[q] = pt[q]
    <2> HIDE DEF tab
    <2> QED
      BY <1>a, <1>c, <1>s, <1>t, SetTable, Zenon
  <1>1. CASE tab = "new"
    <2>0. tab # "cur"
      BY <1>1, Zenon
    <2>1. /\ pc' \in [Procs -> Places] /\ pc'[p] = "bad"
          /\ \A q \in Procs : q # p => pc'[q] = pc[q]
      BY <1>a, <1>s, <1>1, SetPlace, Zenon DEF Places
    <2>2. TypeOK'
      BY <1>a, <1>f, <1>s, <1>1, <2>1, Zenon DEF TypeOK
    <2>3. \A q \in Procs : q # p => Same(q)
      BY <1>f, <1>s, <1>1, <2>1, Zenon DEF Same
    <2>4. NewImage(p)' /\ Growing(p)' /\ Fresh(p)'
      BY <2>1, Zenon DEF NewImage, Growing, Fresh
    <2>5. p \notin damaged' => Image(p)'
      BY <1>a, <1>f, <1>s, <1>1, <2>0, <2>1, Zenon DEF Image
    <2> QED
      BY <1>s, <2>1, <2>2, <2>3, <2>4, <2>5, OneStep, Zenon DEF Local
  <1>2. CASE tab = "cur"
    <2>0. tab # "new" /\ t.leaf = pt[p].cur.leaf
      BY <1>2, Zenon
    <2>1. /\ pc' \in [Procs -> Places] /\ pc'[p] = "user"
          /\ \A q \in Procs : q # p => pc'[q] = pc[q]
      BY <1>a, <1>s, <2>0, SetPlace, Zenon DEF Places
    <2>2. /\ loc' \in [Procs -> Locals] /\ loc'[p] = NoLoc
          /\ \A q \in Procs : q # p => loc'[q] = loc[q]
      BY <1>a, <1>s, <2>0, NoLocType, SetLocals, Zenon
    <2>3. TypeOK'
      BY <1>a, <1>f, <2>1, <2>2, Zenon DEF TypeOK
    <2>4. \A q \in Procs : q # p => Same(q)
      BY <1>f, <2>1, <2>2, Zenon DEF Same
    <2>5. NewImage(p)' /\ Growing(p)' /\ Fresh(p)'
      BY <2>1, <2>2, NoLocType, Zenon DEF NewImage, Growing, Fresh
    <2>6. ASSUME p \notin damaged PROVE Image(p)'
      <3>1. loc[p].old = sz[p] /\ Below(pt[p].cur, a) /\ SegmentsIn(p)
        BY <1>a, <1>2, <2>6, Zenon DEF Growing, Image
      <3>2. \A v \in Low(u) : v \in Low(pt[p].cur) /\ v \notin gone /\ u.leaf[v] = pt[p].cur.leaf[v]
        BY <1>c, <2>0, Zenon DEF Low, Removes
      <3>3. ASSUME NEW v \in Low(u) PROVE v < PGROUNDUP(sz[p])
        <4>1. v \in Nat /\ v < a /\ v \notin PGROUNDUP(sz[p]) .. (a - 1)
          BY <1>t, <3>1, <3>2, LeafType, Zenon DEF Below
        <4> HIDE DEF a
        <4> QED
          BY ONLY <1>t, <4>1
      <3>4. SegmentsIn(p)'
        BY <1>f, <1>2, <3>1, <3>2, Zenon DEF SegmentsIn
      <3>5. Below(pt'[p].cur, PGROUNDUP(sz'[p]))
        BY <1>f, <1>2, <3>3, Zenon DEF Below
      <3> QED
        BY <2>1, <3>4, <3>5, Zenon DEF Image
    <2> QED
      BY <2>1, <2>3, <2>4, <2>5, <2>6, OneStep, Zenon DEF Local
  <1> QED
    BY <1>t, <1>1, <1>2, Zenon

\* One page of uvmalloc().
LEMMA Inv_GrowPage ==
  ASSUME IInv, panicked = "", NEW p \in Procs, GrowPage(p)
  PROVE  IInv'
  <1> DEFINE t == pt[p][loc[p].tab]
             a == loc[p].a
             u == mappages(t, a, "user", free - 1)
  <1>1. pc[p] = "grow" /\ a * PGSIZE < loc[p].new
    BY Zenon DEF GrowPage
  <1>2. t \in Tables /\ a \in Nat
    BY Types, Zenon DEF IInv
  <1>3. CASE free = 0
    <2>1. GrowFail(p, t) /\ UNCHANGED <<sz, seg, panicked, damaged>>
      BY <1>3, Zenon DEF GrowPage
    <2> QED
      BY <1>1, <1>2, <2>1, Inv_GrowFail, Zenon
  <1>4. CASE free # 0 /\ Remap(t, a)
    <2>1. Panic("mappages: remap") /\ damaged # {}
      BY <1>1, <1>4, GrowsFresh, Zenon DEF GrowPage
    <2> QED
      BY <2>1, PanicStep, Zenon
  <1>5. CASE free # 0 /\ ~Remap(t, a) /\ CanMap(t, a, free - 1)
    BY <1>5, Inv_GrowMap, Zenon
  <1>6. CASE free # 0 /\ ~Remap(t, a) /\ ~CanMap(t, a, free - 1)
    <2>1. GrowFail(p, u) /\ UNCHANGED <<sz, seg, panicked, damaged>>
      BY <1>6, Zenon DEF GrowPage
    <2>2. u \in Tables /\ u.leaf = t.leaf
      BY <1>2, <1>6, MapFacts, Zenon DEF Perms
    <2> HIDE DEF u
    <2> QED
      BY <1>1, <2>1, <2>2, Inv_GrowFail, Zenon
  <1> QED
    BY <1>3, <1>4, <1>5, <1>6, Zenon

\* uvmalloc() has mapped all pages.
LEMMA Inv_GrowDone ==
  ASSUME IInv, panicked = "", NEW p \in Procs, GrowDone(p)
  PROVE  IInv'
  <1> DEFINE tab == loc[p].tab
             new == loc[p].new
  <1>a. TypeOK /\ NewImage(p) /\ Growing(p) /\ (p \notin damaged => Image(p))
    BY Zenon DEF IInv, Local
  <1>s. /\ pc[p] = "grow" /\ UNCHANGED <<pt, seg, panicked, damaged>>
        /\ tab = "new" => Goto(p, "args") /\ UNCHANGED <<loc, sz>>
        /\ tab # "new" => sz' = [sz EXCEPT ![p] = new] /\ Goto(p, "user")
                          /\ loc' = [loc EXCEPT ![p] = NoLoc]
    BY Zenon DEF GrowDone, Return
  <1>t. /\ tab \in {"cur", "new"} /\ new \in Nat /\ loc[p].a \in Nat /\ USERTOP \in Nat
        /\ sz[p] \in Nat /\ Top(seg[p]) \in Nat /\ PGSIZE \in Nat \ {0} /\ pt[p].cur \in Tables
    BY <1>a, Types, Addresses, UserMemAssumption, Zenon
  <1>1. CASE tab = "new"
    <2>0. tab # "cur"
      BY <1>1, Zenon
    <2>1. /\ pc' \in [Procs -> Places] /\ pc'[p] = "args"
          /\ \A q \in Procs : q # p => pc'[q] = pc[q]
      BY <1>a, <1>s, <1>1, SetPlace, Zenon DEF Places
    <2>2. TypeOK'
      BY <1>a, <1>s, <1>1, <2>1, Zenon DEF TypeOK
    <2>3. \A q \in Procs : q # p => Same(q)
      BY <1>s, <1>1, <2>1, Zenon DEF Same
    <2>4. NewImage(p)' /\ Growing(p)' /\ Fresh(p)'
      BY <1>a, <1>s, <1>1, <2>1, Zenon DEF NewImage, Growing, Fresh
    <2>5. p \notin damaged' => Image(p)'
      BY <1>a, <1>s, <1>1, <2>0, <2>1, Zenon DEF Image
    <2> QED
      BY <1>s, <2>1, <2>2, <2>3, <2>4, <2>5, OneStep, Zenon DEF Local
  <1>2. CASE tab = "cur"
    <2>0. tab # "new"
      BY <1>2, Zenon
    <2>1. /\ pc' \in [Procs -> Places] /\ pc'[p] = "user"
          /\ \A q \in Procs : q # p => pc'[q] = pc[q]
      BY <1>a, <1>s, <2>0, SetPlace, Zenon DEF Places
    <2>2. /\ loc' \in [Procs -> Locals] /\ loc'[p] = NoLoc
          /\ \A q \in Procs : q # p => loc'[q] = loc[q]
      BY <1>a, <1>s, <2>0, NoLocType, SetLocals, Zenon
    <2>3. /\ sz[p] <= new /\ new <= USERTOP /\ loc[p].a <= PGROUNDUP(new)
          /\ p \notin damaged => Below(pt[p].cur, loc[p].a)
      BY <1>a, <1>s, <1>2, Zenon DEF Growing
    <2>4. /\ sz' \in [Procs -> 0 .. USERTOP] /\ sz'[p] = new
          /\ \A q \in Procs : q # p => sz'[q] = sz[q]
      <3>1. new \in 0 .. USERTOP
        BY ONLY <1>t, <2>3
      <3> QED
        BY <1>a, <1>s, <2>0, <3>1, Zenon DEF TypeOK
    <2>5. TypeOK'
      BY <1>a, <1>s, <2>1, <2>2, <2>4, Zenon DEF TypeOK
    <2>6. \A q \in Procs : q # p => Same(q)
      BY <1>s, <2>1, <2>2, <2>4, Zenon DEF Same
    <2>7. NewImage(p)' /\ Growing(p)' /\ Fresh(p)'
      BY <2>1, <2>2, NoLocType, Zenon DEF NewImage, Growing, Fresh
    <2>8. ASSUME p \notin damaged PROVE Image(p)'
      <3>1. Below(pt[p].cur, loc[p].a) /\ SegmentsIn(p)
        BY <1>a, <1>s, <1>2, <2>3, <2>8, Zenon DEF Image
      <3>2. PGROUNDUP(new) \in Nat
        BY <1>t, RoundUp, Zenon
      <3>3. \A v \in Nat : v < loc[p].a => v < PGROUNDUP(new)
        BY ONLY <1>t, <2>3, <3>2
      <3>4. Below(pt[p].cur, PGROUNDUP(new))
        BY <1>t, <3>1, <3>3, LeafType, Zenon DEF Below
      <3>5. Top(seg[p]) * PGSIZE <= new
        <4>1. Top(seg[p]) * PGSIZE <= sz[p]
          BY <3>1, Zenon DEF SegmentsIn
        <4> QED
          BY ONLY <1>t, <2>3, <4>1
      <3>6. SegmentsIn(p)'
        BY <1>s, <2>4, <3>1, <3>5, Zenon DEF SegmentsIn
      <3> QED
        BY <1>s, <2>1, <2>4, <3>4, <3>6, Zenon DEF Image
    <2> QED
      BY <1>s, <2>1, <2>5, <2>6, <2>7, <2>8, OneStep, Zenon DEF Local
  <1> QED
    BY <1>t, <1>1, <1>2, Zenon

-----------------------------------------------------------------------------
(* exit() and wait().                                                      *)

\* exit() removes the pages of text and data.
LEMMA Inv_Exit ==
  ASSUME IInv, panicked = "", NEW p \in Procs, pc[p] \in {"user", "killed"}, Exit(p)
  PROVE  IInv'
  <1>1. CASE p = initproc
    BY <1>1, PanicStep, Zenon DEF Exit
  <1>2. CASE p # initproc
    <2> DEFINE t == pt[p].cur
               gone == {v \in TextPages(p) \cup DataPages(p) : UserPage(t, v)}
               u == uvmunmap(t, gone)
    <2>s. /\ pt' = [pt EXCEPT ![p]["cur"] = u] /\ Goto(p, "zombie")
          /\ loc' = [loc EXCEPT ![p] = NoLoc] /\ UNCHANGED <<sz, seg, panicked, damaged>>
      BY <1>2, Zenon DEF Exit
    <2>a. TypeOK /\ (p \notin damaged => Image(p))
      BY Zenon DEF IInv, Local
    <2>c. t \in Tables /\ u \in Tables /\ Removes(u, t, gone)
      BY <2>a, Types, UnmapFacts, Zenon
    <2> HIDE DEF u
    <2>f. /\ pt' \in [Procs -> [cur : Tables, new : Tables]] /\ pt'[p].cur = u
          /\ \A q \in Procs : q # p => pt'[q] = pt[q]
      BY <2>a, <2>c, <2>s, SetTable, Zenon
    <2>1. /\ pc' \in [Procs -> Places] /\ pc'[p] = "zombie"
          /\ \A q \in Procs : q # p => pc'[q] = pc[q]
      BY <2>a, <2>s, SetPlace, Zenon DEF Places
    <2>2. /\ loc' \in [Procs -> Locals] /\ loc'[p] = NoLoc
          /\ \A q \in Procs : q # p => loc'[q] = loc[q]
      BY <2>a, <2>s, NoLocType, SetLocals, Zenon
    <2>3. TypeOK'
      BY <2>a, <2>f, <2>s, <2>1, <2>2, Zenon DEF TypeOK
    <2>4. \A q \in Procs : q # p => Same(q)
      BY <2>f, <2>s, <2>1, <2>2, Zenon DEF Same
    <2>5. NewImage(p)' /\ Growing(p)' /\ Fresh(p)'
      BY <2>1, <2>2, NoLocType, Zenon DEF NewImage, Growing, Fresh
    <2>6. p \notin damaged => Below(t, PGROUNDUP(sz[p]))
      BY <2>a, Zenon DEF Image
    <2>7. p \notin damaged => Below(u, PGROUNDUP(sz[p]))
      BY <2>c, <2>6, Zenon DEF Below, Low, Removes
    <2>8. p \notin damaged' => Image(p)'
      BY <2>f, <2>s, <2>1, <2>7, Zenon DEF Image
    <2> QED
      BY <2>s, <2>1, <2>3, <2>4, <2>5, <2>8, OneStep, Zenon DEF Local
  <1> QED
    BY <1>1, <1>2, Zenon

\* freewalk() finds a leaf only in a damaged process.
LEMMA NoLeafLeft ==
  ASSUME IInv, NEW p \in Procs, pc[p] \in {"zombie", "args"},
         LeafLeft(pt[p].cur, PGROUNDUP(sz[p]))
  PROVE  p \in damaged
  <1> SUFFICES ASSUME p \notin damaged PROVE FALSE
    BY Zenon
  <1> DEFINE n == PGROUNDUP(sz[p])
  <1>1. Below(pt[p].cur, n)
    BY Zenon DEF IInv, Local, Image
  <1>2. PICK v \in DOMAIN pt[p].cur.leaf : v \notin {TRAMPOLINE, TRAPFRAME} /\ v \notin 0 .. (n - 1)
    BY Zenon DEF LeafLeft
  <1>3. n \in Nat /\ v \in Nat
    BY Types, LeafType, Zenon DEF IInv
  <1>4. v < n
    BY <1>1, <1>2, Zenon DEF Below, Low
  <1> HIDE DEF n
  <1> QED
    BY ONLY <1>2, <1>3, <1>4

\* freeproc()
LEMMA Inv_Reap ==
  ASSUME IInv, panicked = "", NEW p \in Procs, Reap(p)
  PROVE  IInv'
  <1>1. CASE LeafLeft(pt[p].cur, PGROUNDUP(sz[p]))
    <2>1. Panic("freewalk: leaf") /\ pc[p] = "zombie"
      BY <1>1, Zenon DEF Reap
    <2>2. damaged # {}
      BY <1>1, <2>1, NoLeafLeft, Zenon
    <2> QED
      BY <2>1, <2>2, PanicStep, Zenon
  <1>2. CASE ~LeafLeft(pt[p].cur, PGROUNDUP(sz[p]))
    <2>s. /\ pc[p] = "zombie" /\ pt' = [pt EXCEPT ![p]["cur"] = NoTable]
          /\ sz' = [sz EXCEPT ![p] = 0] /\ damaged' = damaged \ {p}
          /\ Goto(p, "unused") /\ UNCHANGED <<loc, seg, panicked>>
      BY <1>2, Zenon DEF Reap
    <2>a. TypeOK /\ NewImage(p)
      BY Zenon DEF IInv, Local
    <2>f. /\ pt' \in [Procs -> [cur : Tables, new : Tables]]
          /\ \A q \in Procs : q # p => pt'[q] = pt[q]
      BY <2>a, <2>s, EmptyTables, SetTable, Zenon
    <2>1. /\ pc' \in [Procs -> Places] /\ pc'[p] = "unused"
          /\ \A q \in Procs : q # p => pc'[q] = pc[q]
      BY <2>a, <2>s, SetPlace, Zenon DEF Places
    <2>2. /\ sz' \in [Procs -> 0 .. USERTOP]
          /\ \A q \in Procs : q # p => sz'[q] = sz[q]
      <3>1. USERTOP \in Nat
        BY Addresses, Zenon
      <3>2. 0 \in 0 .. USERTOP
        BY ONLY <3>1
      <3> QED
        BY <2>a, <2>s, <3>2, Zenon DEF TypeOK
    <2>3. TypeOK'
      BY <2>a, <2>f, <2>s, <2>1, <2>2, Zenon DEF TypeOK
    <2>4. \A q \in Procs : q # p => Same(q)
      BY <2>f, <2>s, <2>1, <2>2, Zenon DEF Same
    <2>5. NewImage(p)' /\ Growing(p)' /\ Fresh(p)' /\ Image(p)'
      BY <2>a, <2>s, <2>1, Zenon DEF NewImage, Growing, Fresh, Image
    <2> QED
      BY <2>s, <2>1, <2>3, <2>4, <2>5, OneStep, Zenon DEF Local
  <1> QED
    BY <1>1, <1>2, Zenon

-----------------------------------------------------------------------------
(* exec().                                                                 *)

\* exec() begins with an empty page table.
LEMMA Inv_ExecStart ==
  ASSUME IInv, panicked = "", NEW p \in Procs, NEW prog \in Programs, ExecStart(p, prog)
  PROVE  IInv'
  <1> DEFINE l == [loc[p] EXCEPT !.hand = 1, !.prog = prog]
  <1>a. TypeOK /\ NewImage(p) /\ (p \notin damaged => Image(p))
    BY Zenon DEF IInv, Local
  <1>s. /\ pc[p] = "user" /\ pt' = [pt EXCEPT ![p]["new"] = proc_pagetable] /\ Goto(p, "exec")
        /\ loc' = [loc EXCEPT ![p] = l] /\ UNCHANGED <<sz, seg, panicked, damaged>>
    BY Zenon DEF ExecStart
  <1>b. prog \in Segments /\ Top(prog) + 2 <= TRAPFRAME
    BY UserMemAssumption, ProgramsAssumption, Zenon DEF Segments
  <1>c. loc[p] \in Locals /\ loc[p].tab = "cur"
    BY <1>a, <1>s, Types, Zenon DEF NewImage
  <1>d. l \in Locals /\ l.tab = "cur" /\ l.prog = prog
    BY <1>b, <1>c, Zenon DEF Locals
  <1> HIDE DEF l
  <1>e. /\ loc' \in [Procs -> Locals] /\ loc'[p] = l
        /\ \A q \in Procs : q # p => loc'[q] = loc[q]
    BY <1>a, <1>d, <1>s, SetLocals, Zenon
  <1>f. /\ pt' \in [Procs -> [cur : Tables, new : Tables]]
        /\ pt'[p].new = proc_pagetable /\ pt'[p].cur = pt[p].cur
        /\ \A q \in Procs : q # p => pt'[q] = pt[q]
    BY <1>a, <1>s, EmptyTables, SetTable, Zenon
  <1>g. /\ pc' \in [Procs -> Places] /\ pc'[p] = "exec"
        /\ \A q \in Procs : q # p => pc'[q] = pc[q]
    BY <1>a, <1>s, SetPlace, Zenon DEF Places
  <1>1. TypeOK'
    BY <1>a, <1>e, <1>f, <1>g, <1>s, Zenon DEF TypeOK
  <1>2. \A q \in Procs : q # p => Same(q)
    BY <1>e, <1>f, <1>g, <1>s, Zenon DEF Same
  <1>3. NewImage(p)'
    BY <1>b, <1>d, <1>e, <1>f, <1>g, EmptyTables, Zenon DEF NewImage
  <1>4. Growing(p)' /\ Fresh(p)'
    BY <1>g, Zenon DEF Growing, Fresh
  <1>5. p \notin damaged' => Image(p)'
    BY <1>a, <1>c, <1>f, <1>g, <1>s, Zenon DEF Image, SegmentsIn
  <1> QED
    BY <1>g, <1>s, <1>1, <1>2, <1>3, <1>4, <1>5, OneStep, Zenon DEF Local

\* exec() gives up, before or after it has replaced the segments.
LEMMA Inv_ExecGivesUp ==
  ASSUME IInv, panicked = "", NEW p \in Procs, ExecBadHeader(p) \/ ExecBadArgs(p)
  PROVE  IInv'
  <1>a. TypeOK /\ NewImage(p) /\ (p \notin damaged => Image(p))
    BY Zenon DEF IInv, Local
  <1>s. /\ pc[p] \in {"exec", "args"} /\ Goto(p, "bad")
        /\ UNCHANGED <<loc, pt, sz, seg, panicked, damaged>>
    BY Zenon DEF ExecBadHeader, ExecBadArgs
  <1>g. /\ pc' \in [Procs -> Places] /\ pc'[p] = "bad"
        /\ \A q \in Procs : q # p => pc'[q] = pc[q]
    BY <1>a, <1>s, SetPlace, Zenon DEF Places
  <1>1. TypeOK'
    BY <1>a, <1>g, <1>s, Zenon DEF TypeOK
  <1>2. \A q \in Procs : q # p => Same(q)
    BY <1>g, <1>s, Zenon DEF Same
  <1>3. NewImage(p)' /\ Growing(p)' /\ Fresh(p)'
    BY <1>g, Zenon DEF NewImage, Growing, Fresh
  <1>4. pc[p] = "args" => loc[p].tab = "new"
    BY <1>a, Zenon DEF NewImage
  <1>5. p \notin damaged' => Image(p)'
    BY <1>a, <1>g, <1>s, <1>4, Zenon DEF Image, SegmentsIn
  <1> QED
    BY <1>g, <1>s, <1>1, <1>2, <1>3, <1>5, OneStep, Zenon DEF Local

\* allocvmaelf(): the process has the new segments, and uvmalloc() begins
\* above them, in the new table.
LEMMA Inv_ExecSegments ==
  ASSUME IInv, panicked = "", NEW p \in Procs, ExecSegments(p)
  PROVE  IInv'
  <1> DEFINE prog == loc[p].prog
             top == Top(prog)
             l == [loc[p] EXCEPT !.tab = "new", !.a = top,
                                 !.old = top * PGSIZE, !.new = (top + 2) * PGSIZE]
  <1>a. TypeOK /\ NewImage(p) /\ (p \notin damaged => Image(p))
    BY Zenon DEF IInv, Local
  <1>s. /\ pc[p] = "exec" /\ seg' = [seg EXCEPT ![p] = prog] /\ Goto(p, "grow")
        /\ loc' = [loc EXCEPT ![p] = l] /\ UNCHANGED <<pt, sz, panicked, damaged>>
    BY Zenon DEF ExecSegments
  <1>b. Low(pt[p].new) = {} /\ top + 2 <= TRAPFRAME
    BY <1>a, <1>s, Zenon DEF NewImage
  <1>c. prog \in Segments /\ loc[p] \in Locals /\ top \in Nat
    BY <1>a, Types, TopType, Zenon
  <1>n. top * PGSIZE \in Nat /\ (top + 2) * PGSIZE \in Nat /\ top <= top /\ top <= top + 2
    <2>1. PGSIZE \in Nat
      BY UserMemAssumption, Zenon
    <2> HIDE DEF top
    <2> QED
      BY ONLY <1>c, <2>1
  <1> HIDE DEF top
  <1>d. /\ l \in Locals /\ l.tab = "new" /\ l.a = top
        /\ l.old = top * PGSIZE /\ l.new = (top + 2) * PGSIZE
    BY <1>c, <1>n, Zenon DEF Locals
  <1> HIDE DEF l
  <1>e. /\ loc' \in [Procs -> Locals] /\ loc'[p] = l
        /\ \A q \in Procs : q # p => loc'[q] = loc[q]
    BY <1>a, <1>d, <1>s, SetLocals, Zenon
  <1>f. seg' \in [Procs -> Segments] /\ seg'[p] = prog /\ \A q \in Procs : q # p => seg'[q] = seg[q]
    BY <1>a, <1>c, <1>s, Zenon DEF TypeOK
  <1>g. /\ pc' \in [Procs -> Places] /\ pc'[p] = "grow"
        /\ \A q \in Procs : q # p => pc'[q] = pc[q]
    BY <1>a, <1>s, SetPlace, Zenon DEF Places
  <1>1. TypeOK'
    BY <1>a, <1>e, <1>f, <1>g, <1>s, Zenon DEF TypeOK
  <1>2. \A q \in Procs : q # p => Same(q)
    BY <1>e, <1>f, <1>g, <1>s, Zenon DEF Same
  <1>3. NewImage(p)'
    BY <1>b, <1>d, <1>e, <1>f, <1>g, <1>n, <1>s, Zenon DEF NewImage, top
  <1>4. Growing(p)' /\ Fresh(p)'
    BY <1>d, <1>e, <1>g, Zenon DEF Growing, Fresh
  <1>5. p \notin damaged' => Image(p)'
    BY <1>a, <1>d, <1>e, <1>g, <1>s, Zenon DEF Image
  <1> QED
    BY <1>g, <1>s, <1>1, <1>2, <1>3, <1>4, <1>5, OneStep, Zenon DEF Local

\* The commit of exec(): the memory is the new segments, the guard page and
\* the stack, and all that is mapped of it are the last two.
LEMMA Inv_ExecCommit ==
  ASSUME IInv, panicked = "", NEW p \in Procs, ExecCommit(p)
  PROVE  IInv'
  <1>1. CASE LeafLeft(pt[p].cur, PGROUNDUP(sz[p]))
    <2>1. Panic("freewalk: leaf") /\ pc[p] = "args"
      BY <1>1, Zenon DEF ExecCommit
    <2>2. damaged # {}
      BY <1>1, <2>1, NoLeafLeft, Zenon
    <2> QED
      BY <2>1, <2>2, PanicStep, Zenon
  <1>2. CASE ~LeafLeft(pt[p].cur, PGROUNDUP(sz[p]))
    <2> DEFINE t == pt[p].new
               u == uvmclear(t, PGROUNDUP(loc[p].old))
               top == Top(seg[p])
               new == loc[p].new
    <2>a. TypeOK /\ NewImage(p)
      BY Zenon DEF IInv, Local
    <2>s. /\ pc[p] = "args" /\ pt' = [pt EXCEPT ![p] = [cur |-> u, new |-> NoTable]]
          /\ sz' = [sz EXCEPT ![p] = new] /\ damaged' = damaged \ {p}
          /\ Goto(p, "user") /\ loc' = [loc EXCEPT ![p] = NoLoc] /\ UNCHANGED <<seg, panicked>>
      BY <1>2, Zenon DEF ExecCommit, Return
    <2>t. t \in Tables /\ top \in Nat /\ loc[p].a \in Nat /\ PGSIZE \in Nat \ {0}
          /\ TRAPFRAME \in Nat
      BY <2>a, Types, Addresses, UserMemAssumption, Zenon
    <2>b. /\ new = (top + 2) * PGSIZE /\ top + 2 <= TRAPFRAME /\ loc[p].a <= top + 2
          /\ \A v \in Low(t) : top <= v /\ v < loc[p].a
      BY <2>a, <2>s, Zenon DEF NewImage
    <2>c. u \in Tables /\ DOMAIN u.leaf = DOMAIN t.leaf
      BY <2>t, ClearFacts, Zenon
    <2> HIDE DEF u, top, new
    <2>n. new \in 0 .. USERTOP /\ PGROUNDUP(new) = top + 2 /\ top * PGSIZE <= new
      <3>1. top + 2 \in Nat
        BY ONLY <2>t
      <3>2. new \in Nat /\ PGROUNDUP(new) = top + 2
        BY <2>b, <3>1, RoundUpPages, Zenon
      <3>3. (TRAPFRAME - (top + 2)) * PGSIZE >= 0
        BY ONLY <2>t, <2>b
      <3>4. (top + 2) * PGSIZE <= TRAPFRAME * PGSIZE /\ TRAPFRAME * PGSIZE \in Nat
            /\ top * PGSIZE <= (top + 2) * PGSIZE
        BY ONLY <2>t, <3>3
      <3>5. new <= USERTOP /\ USERTOP \in Nat /\ top * PGSIZE <= new
        BY <2>b, <3>4, Zenon DEF USERTOP
      <3> QED
        BY ONLY <3>2, <3>5
    <2>f. /\ pt' \in [Procs -> [cur : Tables, new : Tables]] /\ pt'[p].cur = u
          /\ \A q \in Procs : q # p => pt'[q] = pt[q]
      BY <2>a, <2>c, <2>s, EmptyTables, Zenon DEF TypeOK
    <2>1. /\ pc' \in [Procs -> Places] /\ pc'[p] = "user"
          /\ \A q \in Procs : q # p => pc'[q] = pc[q]
      BY <2>a, <2>s, SetPlace, Zenon DEF Places
    <2>2. /\ loc' \in [Procs -> Locals] /\ loc'[p] = NoLoc
          /\ \A q \in Procs : q # p => loc'[q] = loc[q]
      BY <2>a, <2>s, NoLocType, SetLocals, Zenon
    <2>3. /\ sz' \in [Procs -> 0 .. USERTOP] /\ sz'[p] = new
          /\ \A q \in Procs : q # p => sz'[q] = sz[q]
      BY <2>a, <2>n, <2>s, Zenon DEF TypeOK
    <2>4. TypeOK'
      BY <2>a, <2>f, <2>s, <2>1, <2>2, <2>3, Zenon DEF TypeOK
    <2>5. \A q \in Procs : q # p => Same(q)
      BY <2>f, <2>s, <2>1, <2>2, <2>3, Zenon DEF Same
    <2>6. NewImage(p)' /\ Growing(p)' /\ Fresh(p)'
      BY <2>1, <2>2, NoLocType, Zenon DEF NewImage, Growing, Fresh
    <2>7. \A v \in Low(u) : v \in Low(t) /\ v \in Nat
      BY <2>c, <2>t, LeafType, Zenon DEF Low
    <2>8. ASSUME NEW v \in Low(u) PROVE v < top + 2 /\ ~(v < top)
      <3>1. v \in Nat /\ top <= v /\ v < loc[p].a
        BY <2>b, <2>7, Zenon
      <3> QED
        BY ONLY <2>t, <2>b, <3>1
    <2>9. Below(pt'[p].cur, PGROUNDUP(sz'[p]))
      BY <2>f, <2>n, <2>3, <2>8, Zenon DEF Below
    <2>10. SegmentsIn(p)'
      BY <2>f, <2>n, <2>s, <2>3, <2>8, Zenon DEF SegmentsIn, top
    <2>11. Image(p)'
      BY <2>1, <2>9, <2>10, Zenon DEF Image
    <2> QED
      BY <2>s, <2>1, <2>4, <2>5, <2>6, <2>11, OneStep, Zenon DEF Local
  <1> QED
    BY <1>1, <1>2, Zenon

\* bad: an exec() that had replaced the segments leaves a damaged process.
LEMMA Inv_ExecBad ==
  ASSUME IInv, panicked = "", NEW p \in Procs, ExecBad(p)
  PROVE  IInv'
  <1>a. TypeOK /\ (p \notin damaged => Image(p))
    BY Zenon DEF IInv, Local
  <1>s. /\ pc[p] = "bad" /\ pt' = [pt EXCEPT ![p]["new"] = NoTable]
        /\ damaged' = IF loc[p].tab = "new" THEN damaged \cup {p} ELSE damaged
        /\ Goto(p, "user") /\ loc' = [loc EXCEPT ![p] = NoLoc] /\ UNCHANGED <<sz, seg, panicked>>
    BY Zenon DEF ExecBad, Return
  <1>f. /\ pt' \in [Procs -> [cur : Tables, new : Tables]] /\ pt'[p].cur = pt[p].cur
        /\ \A q \in Procs : q # p => pt'[q] = pt[q]
    BY <1>a, <1>s, EmptyTables, SetTable, Zenon
  <1>g. /\ pc' \in [Procs -> Places] /\ pc'[p] = "user"
        /\ \A q \in Procs : q # p => pc'[q] = pc[q]
    BY <1>a, <1>s, SetPlace, Zenon DEF Places
  <1>e. /\ loc' \in [Procs -> Locals] /\ loc'[p] = NoLoc
        /\ \A q \in Procs : q # p => loc'[q] = loc[q]
    BY <1>a, <1>s, NoLocType, SetLocals, Zenon
  <1>d. damaged' \subseteq Procs /\ \A q \in Procs : q # p => (q \in damaged' <=> q \in damaged)
    BY <1>a, <1>s, Zenon DEF TypeOK
  <1>1. TypeOK'
    BY <1>a, <1>d, <1>e, <1>f, <1>g, <1>s, Zenon DEF TypeOK
  <1>2. \A q \in Procs : q # p => Same(q)
    BY <1>d, <1>e, <1>f, <1>g, <1>s, Zenon DEF Same
  <1>3. NewImage(p)' /\ Growing(p)' /\ Fresh(p)'
    BY <1>e, <1>g, NoLocType, Zenon DEF NewImage, Growing, Fresh
  <1>4. p \notin damaged' => p \notin damaged /\ loc[p].tab # "new" /\ loc[p].tab \in {"cur", "new"}
    BY <1>a, <1>s, Types, Zenon
  <1>5. p \notin damaged' => SegmentsIn(p) /\ Below(pt[p].cur, PGROUNDUP(sz[p]))
    BY <1>a, <1>s, <1>4, Zenon DEF Image
  <1>6. p \notin damaged' => Image(p)'
    BY <1>f, <1>g, <1>s, <1>5, Zenon DEF Image, SegmentsIn
  <1> QED
    BY <1>g, <1>s, <1>1, <1>2, <1>3, <1>6, OneStep, Zenon DEF Local

-----------------------------------------------------------------------------
(* Page faults.                                                            *)

\* A page of the segments lies within the memory, and is not one of the two
\* pages at the top.
LEMMA SegmentPage ==
  ASSUME TypeOK, NEW p \in Procs, SegmentsIn(p), NEW v \in Nat, v < Top(seg[p])
  PROVE  v < PGROUNDUP(sz[p]) /\ v \notin {TRAMPOLINE, TRAPFRAME}
  <1> DEFINE top == Top(seg[p])
             n == sz[p]
  <1>1. top * PGSIZE <= n
    BY Zenon DEF SegmentsIn
  <1>2. /\ top \in Nat /\ n \in Nat /\ n <= USERTOP /\ PGSIZE \in Nat \ {0}
        /\ TRAPFRAME \in Nat /\ TRAMPOLINE \in Nat /\ TRAMPOLINE > TRAPFRAME /\ USERTOP \in Nat
    BY Types, Addresses, UserMemAssumption, Zenon
  <1>3. v < top
    BY Zenon
  <1> HIDE DEF top, n
  <1>4. top * PGSIZE \in Nat /\ PGROUNDUP(top * PGSIZE) = top
    BY <1>2, RoundUpPages, Zenon
  <1>5. PGROUNDUP(n) \in Nat /\ top <= PGROUNDUP(n)
    BY <1>1, <1>2, <1>4, RoundUp, RoundUpMonotone, Zenon
  <1>6. PGROUNDUP(n) <= PGROUNDUP(USERTOP) /\ PGROUNDUP(USERTOP) = TRAPFRAME
    <2>1. PGROUNDUP(USERTOP) = TRAPFRAME
      BY <1>2, RoundUpPages, Zenon DEF USERTOP
    <2> QED
      BY <1>2, <2>1, RoundUpMonotone, Zenon
  <1>7. v < PGROUNDUP(n) /\ v \notin {TRAMPOLINE, TRAPFRAME}
    BY ONLY v \in Nat, <1>2, <1>3, <1>5, <1>6
  <1> QED
    BY <1>7, Zenon DEF n

\* allocPhysicalVMA() has a frame for a page of the segments that is missing.
LEMMA Inv_TakeFrame ==
  ASSUME IInv, panicked = "", NEW p \in Procs, NEW u \in 0 .. (USERTOP - 1), NEW kernel \in BOOLEAN,
         pc[p] = "user", Missing(p, u), InSegments(p, u), TakeFrame(p, u, kernel)
  PROVE  IInv'
  <1>1. CASE free = 0
    BY <1>1, PanicStep, Zenon DEF TakeFrame, kerneltrap
  <1>2. CASE free # 0
    <2> DEFINE va == u \div PGSIZE
               l == [loc[p] EXCEPT !.hand = 1, !.va = va, !.kernel = kernel]
    <2>a. TypeOK /\ NewImage(p) /\ (p \notin damaged => Image(p))
      BY Zenon DEF IInv, Local
    <2>s. /\ Goto(p, "fault") /\ loc' = [loc EXCEPT ![p] = l]
          /\ UNCHANGED <<pt, sz, seg, panicked, damaged>>
      BY <1>2, Zenon DEF TakeFrame
    <2>t. /\ loc[p] \in Locals /\ loc[p].tab = "cur" /\ seg[p] \in Segments /\ pt[p].cur \in Tables
      BY <2>a, Types, Zenon DEF NewImage
    <2>b. va \in Nat /\ va < Top(seg[p])
      <3>1. USERTOP \in Nat
        BY Addresses, Zenon
      <3>2. u \in Nat
        BY ONLY <3>1, u \in 0 .. (USERTOP - 1)
      <3> QED
        BY <2>t, <3>2, FaultPage, Zenon
    <2>m. ~UserPage(pt[p].cur, va)
      BY Zenon DEF Missing
    <2> HIDE DEF va
    <2>d. l \in Locals /\ l.tab = "cur" /\ l.va = va
      BY <2>b, <2>t, Zenon DEF Locals
    <2> HIDE DEF l
    <2>e. /\ loc' \in [Procs -> Locals] /\ loc'[p] = l
          /\ \A q \in Procs : q # p => loc'[q] = loc[q]
      BY <2>a, <2>d, <2>s, SetLocals, Zenon
    <2>g. /\ pc' \in [Procs -> Places] /\ pc'[p] = "fault"
          /\ \A q \in Procs : q # p => pc'[q] = pc[q]
      BY <2>a, <2>s, SetPlace, Zenon DEF Places
    <2>1. TypeOK'
      BY <2>a, <2>e, <2>g, <2>s, Zenon DEF TypeOK
    <2>2. \A q \in Procs : q # p => Same(q)
      BY <2>e, <2>g, <2>s, Zenon DEF Same
    <2>3. NewImage(p)' /\ Growing(p)' /\ Fresh(p)'
      BY <2>d, <2>e, <2>g, Zenon DEF NewImage, Growing, Fresh
    <2>4. ASSUME p \notin damaged PROVE Image(p)'
      <3>1. SegmentsIn(p) /\ Below(pt[p].cur, PGROUNDUP(sz[p]))
        BY <2>a, <2>t, <2>4, Zenon DEF Image
      <3>2. va \notin {TRAMPOLINE, TRAPFRAME}
        BY <2>a, <2>b, <3>1, SegmentPage, Zenon
      <3>3. va \notin DOMAIN pt[p].cur.leaf
        BY <2>b, <2>m, <3>1, <3>2, Zenon DEF SegmentsIn, Low, UserPage
      <3> QED
        BY <2>b, <2>d, <2>e, <2>g, <2>s, <3>1, <3>3, Zenon DEF Image, SegmentsIn
    <2> QED
      BY <2>g, <2>s, <2>1, <2>2, <2>3, <2>4, OneStep, Zenon DEF Local
  <1> QED
    BY <1>1, <1>2, Zenon

\* The fault of user code, and the one the kernel takes.
LEMMA Inv_Access ==
  ASSUME IInv, panicked = "", NEW p \in Procs, NEW u \in 0 .. (USERTOP - 1),
         Access(p, u) \/ Copy(p, u)
  PROVE  IInv'
  <1>1. CASE Copy(p, u)
    BY <1>1, Inv_TakeFrame, Zenon DEF Copy
  <1>2. CASE Access(p, u) /\ InSegments(p, u)
    BY <1>2, Inv_TakeFrame, Zenon DEF Access
  <1>3. CASE Access(p, u) /\ ~InSegments(p, u)
    BY <1>3, Inv_Exit, Zenon DEF Access
  <1> QED
    BY <1>1, <1>2, <1>3, Zenon

\* mappages() of the page that was missing.
LEMMA Inv_FaultMap ==
  ASSUME IInv, panicked = "", NEW p \in Procs, FaultMap(p)
  PROVE  IInv'
  <1> DEFINE t == pt[p].cur
             va == loc[p].va
             u == mappages(t, va, "user", free)
  <1>a. TypeOK /\ NewImage(p) /\ (p \notin damaged => Image(p)) /\ pc[p] = "fault"
    BY Zenon DEF IInv, Local, FaultMap
  <1>t. t \in Tables /\ va \in Nat /\ loc[p].tab = "cur"
    BY <1>a, Types, Zenon DEF NewImage
  <1>i. p \notin damaged => /\ SegmentsIn(p) /\ Below(t, PGROUNDUP(sz[p]))
                            /\ va < Top(seg[p]) /\ va \notin DOMAIN t.leaf
    BY <1>a, <1>t, Zenon DEF Image
  <1>u. u \in Tables /\ Adds(u, t, va, "user") /\ (~CanMap(t, va, free) => u.leaf = t.leaf)
    BY <1>t, MapFacts, Zenon DEF Perms
  <1>1. CASE Remap(t, va)
    <2>1. Panic("mappages: remap") /\ damaged # {}
      BY <1>i, <1>1, Zenon DEF FaultMap, Remap
    <2> QED
      BY <2>1, PanicStep, Zenon
  <1>2. CASE ~Remap(t, va) /\ ~CanMap(t, va, free) /\ loc[p].kernel
    BY <1>2, PanicStep, Zenon DEF FaultMap, kerneltrap
  <1>3. CASE ~Remap(t, va) /\ (CanMap(t, va, free) \/ ~loc[p].kernel)
    <2>s. /\ pt' = [pt EXCEPT ![p]["cur"] = u] /\ loc' = [loc EXCEPT ![p] = NoLoc]
          /\ UNCHANGED <<sz, seg, panicked, damaged>>
          /\ Goto(p, "user") \/ (Goto(p, "killed") /\ ~CanMap(t, va, free))
      BY <1>3, Zenon DEF FaultMap, Return
    <2> HIDE DEF u
    <2>f. /\ pt' \in [Procs -> [cur : Tables, new : Tables]] /\ pt'[p].cur = u
          /\ \A q \in Procs : q # p => pt'[q] = pt[q]
      BY <1>a, <1>u, <2>s, SetTable, Zenon
    <2>e. /\ loc' \in [Procs -> Locals] /\ loc'[p] = NoLoc
          /\ \A q \in Procs : q # p => loc'[q] = loc[q]
      BY <1>a, <2>s, NoLocType, SetLocals, Zenon
    <2>g. /\ pc' \in [Procs -> Places] /\ pc'[p] \in {"user", "killed"}
          /\ pc'[p] # "user" => ~CanMap(t, va, free)
          /\ \A q \in Procs : q # p => pc'[q] = pc[q]
      <3>1. CASE Goto(p, "user")
        BY <1>a, <3>1, SetPlace, Zenon DEF Places
      <3>2. CASE Goto(p, "killed") /\ ~CanMap(t, va, free)
        BY <1>a, <3>2, SetPlace, Zenon DEF Places
      <3> QED
        BY <2>s, <3>1, <3>2, Zenon
    <2>1. TypeOK'
      BY <1>a, <2>e, <2>f, <2>g, <2>s, Zenon DEF TypeOK
    <2>2. \A q \in Procs : q # p => Same(q)
      BY <2>e, <2>f, <2>g, <2>s, Zenon DEF Same
    <2>3. NewImage(p)' /\ Growing(p)' /\ Fresh(p)'
      BY <2>e, <2>g, NoLocType, Zenon DEF NewImage, Growing, Fresh
    <2>4. ASSUME p \notin damaged PROVE Image(p)'
      <3>1. va < PGROUNDUP(sz[p])
        BY <1>a, <1>i, <1>t, <2>4, SegmentPage, Zenon
      <3>2. \A v \in Low(u) :
              \/ v = va /\ u.leaf[v] = "user"
              \/ v \in Low(t) /\ u.leaf[v] = t.leaf[v]
        <4> HIDE DEF t, va
        <4> QED
          BY <1>u, Zenon DEF Adds, Low
      <3>3. Below(u, PGROUNDUP(sz[p]))
        BY <1>i, <2>4, <3>1, <3>2, Zenon DEF Below
      <3>4. \A v \in Low(t) : v < Top(seg[p]) => t.leaf[v] = "user"
        BY <1>i, <2>4, Zenon DEF SegmentsIn
      <3>5. \A v \in Low(u) : v < Top(seg[p]) => u.leaf[v] = "user"
        <4> HIDE DEF t, va
        <4> QED
          BY <3>2, <3>4, Zenon
      <3>6. SegmentsIn(p)'
        BY <1>i, <2>f, <2>s, <2>4, <3>5, Zenon DEF SegmentsIn
      <3> QED
        BY <2>f, <2>g, <2>s, <3>3, <3>6, Zenon DEF Image
    <2> QED
      <3>1. pc[p] \notin {"used", "fork"} /\ pc'[p] \notin {"used", "fork", "halted"}
        BY <1>a, <2>g, Zenon
      <3> QED
        BY <2>s, <2>1, <2>2, <2>3, <2>4, <3>1, OneStep, Zenon DEF Local
  <1> QED
    BY <1>1, <1>2, <1>3, Zenon

-----------------------------------------------------------------------------
(* fork().                                                                 *)

\* A nonempty set of pages has a first one.
LEMMA FirstPage ==
  ASSUME NEW S \in SUBSET Nat, S # {}
  PROVE  Min(S) \in S
  <1> DEFINE R == OpToRel(<, Nat)
  <1>1. \A x, y \in Nat : y < x => <<y, x>> \in R
    BY DEF OpToRel
  <1>2. IsWellFoundedOn(R, Nat)
    BY NatLessThanWellFounded, Zenon
  <1> HIDE DEF R
  <1>3. PICK x \in S : \A y \in S : ~(<<y, x>> \in R)
    BY <1>2, WFMin, Zenon
  <1>4. \A y \in S : ~(y < x) /\ y \in Nat /\ x \in Nat
    BY <1>1, <1>3, Zenon
  <1>5. \A y \in S : x <= y
    BY ONLY <1>4
  <1> QED
    BY <1>3, <1>5, Zenon DEF Min

\* The parent and the child are different, and no other fork() fills the
\* table of either.
LEMMA ParentAndChild ==
  ASSUME IInv, NEW p \in Procs, pc[p] = "fork"
  PROVE  /\ loc[p].child \in Procs \ {p} /\ pc[loc[p].child] = "used"
         /\ \A q \in Procs \ {p, loc[p].child} :
              pc[q] = "fork" => loc[q].child \notin {p, loc[p].child}
  <1>1. \A q \in Procs : Forking(q)
    BY Zenon DEF IInv
  <1>2. loc[p].child \in Procs
    BY Types, Zenon DEF IInv
  <1>3. pc[loc[p].child] = "used"
    BY <1>1, Zenon DEF Forking
  <1>4. \A q \in Procs : pc[q] = "fork" => pc[loc[q].child] = "used"
    BY <1>1, Zenon DEF Forking
  <1>5. \A q \in Procs : pc[q] = "fork" /\ loc[q].child = loc[p].child => q = p
    BY <1>1, Zenon DEF Forking
  <1> QED
    BY <1>2, <1>3, <1>4, <1>5, Zenon

\* The invariant after a step of fork(), from what it says of the two.
LEMMA TwoSteps ==
  ASSUME IInv, NEW p \in Procs, NEW c \in Procs \ {p},
         \A q \in Procs \ {p, c} : Same(q),
         \A q \in Procs \ {p, c} : pc[q] = "fork" => loc[q].child \notin {p, c},
         pc'[p] = "fork" => loc'[p].child = c, pc'[c] # "fork",
         panicked = "", panicked' = "",
         TypeOK', Local(p)', Fresh(p)', Local(c)', Fresh(c)', Forking(p)'
  PROVE  IInv'
  <1>1. \A q \in Procs : Local(q)' /\ Fresh(q)'
    <2>1. ASSUME NEW q \in Procs \ {p, c} PROVE Local(q)' /\ Fresh(q)'
      BY SameLocal, Zenon DEF IInv
    <2> QED
      BY <2>1, Zenon
  <1>2. ASSUME NEW q \in Procs \ {p, c} PROVE Forking(q)'
    <2> SUFFICES ASSUME pc'[q] = "fork" PROVE Forking(q)'
      BY Zenon DEF Forking
    <2>1. Same(q) /\ pc[q] = "fork" /\ Forking(q)
      BY Zenon DEF IInv, Same
    <2> DEFINE d == loc[q].child
    <2>2. d \in Procs \ {p, c}
      BY <2>1, Types, Zenon DEF IInv
    <2>3. Same(d) /\ d = loc'[q].child
      BY <2>1, <2>2, Zenon DEF Same
    <2>4. \A r \in Procs : pc'[r] = "fork" => r = p \/ (pc[r] = "fork" /\ loc'[r] = loc[r])
      BY Zenon DEF Same
    <2>5. /\ pc[d] = "used" /\ seg[d] = seg[q]
          /\ Below(pt[d].cur, PGROUNDUP(sz[q]))
          /\ \A v \in Low(pt[d].cur) :
               v \in DOMAIN pt[q].cur.leaf /\ pt[d].cur.leaf[v] = pt[q].cur.leaf[v]
          /\ \A r \in Procs : pc[r] = "fork" /\ loc[r].child = d => r = q
      BY <2>1, Zenon DEF Forking
    <2> HIDE DEF d
    <2>6. /\ pc'[d] = "used" /\ seg'[d] = seg'[q]
          /\ Below(pt'[d].cur, PGROUNDUP(sz'[q]))
          /\ \A v \in Low(pt'[d].cur) :
               v \in DOMAIN pt'[q].cur.leaf /\ pt'[d].cur.leaf[v] = pt'[q].cur.leaf[v]
      <3>1. pc'[d] = pc[d] /\ seg'[d] = seg[d] /\ pt'[d] = pt[d]
        BY <2>3, Zenon DEF Same
      <3>2. seg'[q] = seg[q] /\ pt'[q] = pt[q] /\ sz'[q] = sz[q]
        BY <2>1, Zenon DEF Same
      <3> QED
        BY ONLY <2>5, <3>1, <3>2, Zenon
    <2>7. \A r \in Procs : pc'[r] = "fork" /\ loc'[r].child = d => r = q
      BY <2>2, <2>4, <2>5, Zenon
    <2> QED
      BY <2>3, <2>6, <2>7, Zenon DEF Forking
  <1>3. Forking(c)'
    BY Zenon DEF Forking
  <1>4. Halted' /\ NoImagePanic'
    BY Zenon DEF Halted, NoImagePanic
  <1> QED
    BY <1>1, <1>2, <1>3, <1>4, Zenon DEF IInv

\* allocproc() of the child.
LEMMA Inv_ForkStart ==
  ASSUME IInv, panicked = "", NEW p \in Procs, NEW c \in Procs, ForkStart(p, c)
  PROVE  IInv'
  <1> DEFINE l == [loc[p] EXCEPT !.child = c, !.a = PGROUNDUP(seg[p].text)]
  <1>a. /\ TypeOK
        /\ \A q \in Procs : NewImage(q) /\ (q \notin damaged => Image(q)) /\ Fresh(q) /\ Forking(q)
    BY Zenon DEF IInv, Local
  <1>s. /\ pc[p] = "user" /\ pc[c] = "unused" /\ pt' = [pt EXCEPT ![c]["cur"] = proc_pagetable]
        /\ seg' = [seg EXCEPT ![c] = seg[p]] /\ pc' = [pc EXCEPT ![p] = "fork", ![c] = "used"]
        /\ loc' = [loc EXCEPT ![p] = l] /\ UNCHANGED <<sz, panicked, damaged>>
    BY Zenon DEF ForkStart
  <1>b. c # p
    BY <1>s, Zenon
  <1>c. loc[p] \in Locals /\ loc[p].tab = "cur" /\ loc[c].tab = "cur" /\ seg[p] \in Segments
    BY <1>a, <1>s, Types, Zenon DEF NewImage
  <1>d. l \in Locals /\ l.tab = "cur" /\ l.child = c
    <2>1. PGROUNDUP(seg[p].text) \in Nat
      BY <1>c, TopType, Zenon
    <2> QED
      BY <1>c, <2>1, Zenon DEF Locals
  <1> HIDE DEF l
  <1>e. /\ loc' \in [Procs -> Locals] /\ loc'[p] = l
        /\ \A q \in Procs : q # p => loc'[q] = loc[q]
    BY <1>a, <1>d, <1>s, SetLocals, Zenon
  <1>f. /\ pt' \in [Procs -> [cur : Tables, new : Tables]] /\ pt'[c].cur = proc_pagetable
        /\ \A q \in Procs : q # c => pt'[q] = pt[q]
    BY <1>a, <1>s, EmptyTables, SetTable, Zenon
  <1>g. /\ pc' \in [Procs -> Places] /\ pc'[p] = "fork" /\ pc'[c] = "used"
        /\ \A q \in Procs \ {p, c} : pc'[q] = pc[q]
    BY <1>a, <1>b, <1>s, Zenon DEF TypeOK, Places
  <1>h. /\ seg' \in [Procs -> Segments] /\ seg'[c] = seg[p]
        /\ \A q \in Procs : q # c => seg'[q] = seg[q]
    BY <1>a, <1>c, <1>s, Zenon DEF TypeOK
  <1>1. TypeOK'
    BY <1>a, <1>e, <1>f, <1>g, <1>h, <1>s, Zenon DEF TypeOK
  <1>2. \A q \in Procs \ {p, c} : Same(q)
    BY <1>e, <1>f, <1>g, <1>h, <1>s, Zenon DEF Same
  <1>3. \A q \in Procs : pc[q] = "fork" => loc[q].child \notin {p, c}
    BY <1>a, <1>s, Zenon DEF Forking
  <1>4. NewImage(p)' /\ Growing(p)' /\ Fresh(p)'
    BY <1>d, <1>e, <1>g, Zenon DEF NewImage, Growing, Fresh
  <1>5. p \notin damaged' => Image(p)'
    <2>1. p \notin damaged => SegmentsIn(p) /\ Below(pt[p].cur, PGROUNDUP(sz[p]))
      BY <1>a, <1>c, <1>s, Zenon DEF Image
    <2>2. pt'[p] = pt[p] /\ seg'[p] = seg[p] /\ sz'[p] = sz[p] /\ damaged' = damaged
      BY <1>b, <1>f, <1>h, <1>s, Zenon
    <2> QED
      BY <1>g, <2>1, <2>2, Zenon DEF Image, SegmentsIn
  <1>6. NewImage(c)' /\ Growing(c)' /\ Image(c)'
    BY <1>b, <1>c, <1>e, <1>g, Zenon DEF NewImage, Growing, Image
  <1>7. Fresh(c)'
    BY <1>a, <1>s, Zenon DEF Fresh
  <1>8. Forking(p)'
    <2>1. Low(pt'[c].cur) = {}
      BY <1>f, EmptyTables, Zenon
    <2>2. \A q \in Procs : pc'[q] = "fork" /\ loc'[q].child = c => q = p
      BY <1>e, <1>g, <1>3, Zenon
    <2>3. Below(pt'[c].cur, PGROUNDUP(sz'[p]))
      BY <2>1, Zenon DEF Below
    <2> QED
      BY <1>b, <1>d, <1>e, <1>g, <1>h, <2>1, <2>2, <2>3, Zenon DEF Forking
  <1>9. c \in Procs \ {p} /\ (pc'[p] = "fork" => loc'[p].child = c) /\ pc'[c] # "fork"
    BY <1>b, <1>d, <1>e, <1>g, Zenon
  <1> QED
    BY <1>s, <1>1, <1>2, <1>3, <1>4, <1>5, <1>6, <1>7, <1>8, <1>9, TwoSteps, Zenon DEF Local

\* _uvmcopy() copies the next page, or fails and freeproc() undoes it all.
LEMMA Inv_ForkPage ==
  ASSUME IInv, panicked = "", NEW p \in Procs, ForkPage(p)
  PROVE  IInv'
  <1>a. /\ TypeOK /\ pc[p] = "fork" /\ ToCopy(p) # {}
        /\ \A q \in Procs : NewImage(q) /\ (q \notin damaged => Image(q)) /\ Fresh(q) /\ Forking(q)
    BY Zenon DEF IInv, Local, ForkPage
  <1>p. PICK c \in Procs \ {p} : c = loc[p].child
    BY <1>a, ParentAndChild, Zenon
  <1> DEFINE t == pt[c].cur
             v == Min(ToCopy(p))
             u == mappages(t, v, pt[p].cur.leaf[v], free - 1)
  <1>b. /\ pc[c] = "used"
        /\ \A q \in Procs \ {p, c} : pc[q] = "fork" => loc[q].child \notin {p, c}
    BY <1>a, <1>p, ParentAndChild, Zenon
  <1>c. loc[p] \in Locals /\ loc[p].tab = "cur" /\ loc[c].tab = "cur" /\ c \notin damaged
    BY <1>a, <1>b, Types, Zenon DEF NewImage, Fresh
  <1>t. t \in Tables /\ pt[p].cur \in Tables
    BY <1>a, <1>b, Types, Zenon
  <1>v. /\ v \in DOMAIN pt[p].cur.leaf /\ v \in Nat /\ v * PGSIZE < sz[p]
        /\ pt[p].cur.leaf[v] \in Perms
    <2>1. ToCopy(p) \subseteq DOMAIN pt[p].cur.leaf /\ DOMAIN pt[p].cur.leaf \subseteq Nat
      BY <1>t, LeafType, Zenon DEF ToCopy
    <2>2. v \in ToCopy(p)
      BY <1>a, <2>1, FirstPage, Zenon
    <2> HIDE DEF v
    <2> QED
      BY <1>t, <2>1, <2>2, LeafType, Zenon DEF ToCopy
  <1>1. CASE free > 0 /\ CanMap(t, v, free - 1)
    <2> DEFINE l == [loc[p] EXCEPT !.a = v + 1]
    <2>s. /\ pt' = [pt EXCEPT ![c]["cur"] = u] /\ loc' = [loc EXCEPT ![p] = l]
          /\ UNCHANGED <<pc, sz, seg, panicked, damaged>>
      BY <1>p, <1>1, Zenon DEF ForkPage
    <2>u. u \in Tables /\ Adds(u, t, v, pt[p].cur.leaf[v])
      BY <1>t, <1>v, MapFacts, Zenon
    <2> HIDE DEF u, v
    <2>d. l \in Locals /\ l.tab = "cur" /\ l.child = c
      <3>1. v + 1 \in Nat
        BY ONLY <1>v
      <3> QED
        BY <1>c, <1>p, <3>1, Zenon DEF Locals
    <2> HIDE DEF l
    <2>e. /\ loc' \in [Procs -> Locals] /\ loc'[p] = l
          /\ \A q \in Procs : q # p => loc'[q] = loc[q]
      BY <1>a, <2>d, <2>s, SetLocals, Zenon
    <2>f. /\ pt' \in [Procs -> [cur : Tables, new : Tables]] /\ pt'[c].cur = u
          /\ \A q \in Procs : q # c => pt'[q] = pt[q]
      BY <1>a, <1>b, <2>s, <2>u, SetTable, Zenon
    <2>g. pc' = pc /\ pc'[p] = "fork" /\ pc'[c] = "used"
      BY <1>a, <1>b, <2>s, Zenon
    <2>1. TypeOK'
      BY <1>a, <2>e, <2>f, <2>s, Zenon DEF TypeOK
    <2>2. \A q \in Procs \ {p, c} : Same(q)
      BY <2>e, <2>f, <2>s, Zenon DEF Same
    <2>3. NewImage(p)' /\ Growing(p)' /\ Fresh(p)'
      BY <2>d, <2>e, <2>g, Zenon DEF NewImage, Growing, Fresh
    <2>4. p \notin damaged' => Image(p)'
      <3>1. p \notin damaged => SegmentsIn(p) /\ Below(pt[p].cur, PGROUNDUP(sz[p]))
        BY <1>a, <1>c, Zenon DEF Image
      <3>2. pt'[p] = pt[p] /\ seg' = seg /\ sz' = sz /\ damaged' = damaged
        BY <1>b, <2>f, <2>s, Zenon
      <3> QED
        BY <2>g, <3>1, <3>2, Zenon DEF Image, SegmentsIn
    <2>5. NewImage(c)' /\ Growing(c)' /\ Image(c)' /\ Fresh(c)'
      <3>1. loc'[c].tab = "cur" /\ c \notin damaged'
        BY <1>b, <1>c, <2>e, <2>s, Zenon
      <3> QED
        BY <2>g, <3>1, Zenon DEF NewImage, Growing, Image, Fresh
    <2>6. /\ seg[c] = seg[p] /\ Below(t, PGROUNDUP(sz[p]))
          /\ \A w \in Low(t) : w \in DOMAIN pt[p].cur.leaf /\ t.leaf[w] = pt[p].cur.leaf[w]
          /\ \A q \in Procs : pc[q] = "fork" /\ loc[q].child = c => q = p
      BY <1>a, <1>p, Zenon DEF Forking
    <2>7. v < PGROUNDUP(sz[p])
      <3>1. sz[p] \in Nat
        BY <1>a, Types, Zenon
      <3> QED
        BY <1>v, <3>1, RoundUp, Zenon
    <2>8. \A w \in Low(u) :
            \/ w = v /\ u.leaf[w] = pt[p].cur.leaf[v]
            \/ w \in Low(t) /\ u.leaf[w] = t.leaf[w]
      <3> HIDE DEF t
      <3> QED
        BY <2>u, Zenon DEF Adds, Low
    <2>9. /\ Below(u, PGROUNDUP(sz[p]))
          /\ \A w \in Low(u) : w \in DOMAIN pt[p].cur.leaf /\ u.leaf[w] = pt[p].cur.leaf[w]
      <3> HIDE DEF t
      <3> QED
        BY <1>v, <2>6, <2>7, <2>8, Zenon DEF Below
    <2>10. \A q \in Procs : pc'[q] = "fork" /\ loc'[q].child = c => q = p
      BY <2>e, <2>g, <2>6, Zenon
    <2>11. Forking(p)'
      <3>1. loc'[p].child = c /\ pt'[p] = pt[p] /\ seg' = seg /\ sz' = sz
        BY <1>b, <2>d, <2>e, <2>f, <2>s, Zenon
      <3> QED
        BY <2>f, <2>g, <2>6, <2>9, <2>10, <3>1, Zenon DEF Forking
    <2>12. (pc'[p] = "fork" => loc'[p].child = c) /\ pc'[c] # "fork"
      BY <2>d, <2>e, <2>g, Zenon
    <2> QED
      BY <1>b, <2>s, <2>1, <2>2, <2>3, <2>4, <2>5, <2>11, <2>12, TwoSteps, Zenon DEF Local
  <1>2. CASE ~(free > 0 /\ CanMap(t, v, free - 1))
    <2>s. /\ pt' = [pt EXCEPT ![c]["cur"] = NoTable] /\ loc' = [loc EXCEPT ![p] = NoLoc]
          /\ pc' = [pc EXCEPT ![p] = "user", ![c] = "unused"]
          /\ UNCHANGED <<sz, seg, panicked, damaged>>
      BY <1>p, <1>2, Zenon DEF ForkPage
    <2> HIDE DEF u, v
    <2>e. /\ loc' \in [Procs -> Locals] /\ loc'[p] = NoLoc
          /\ \A q \in Procs : q # p => loc'[q] = loc[q]
      BY <1>a, <2>s, NoLocType, SetLocals, Zenon
    <2>f. /\ pt' \in [Procs -> [cur : Tables, new : Tables]]
          /\ \A q \in Procs : q # c => pt'[q] = pt[q]
      BY <1>a, <1>b, <2>s, EmptyTables, SetTable, Zenon
    <2>g. /\ pc' \in [Procs -> Places] /\ pc'[p] = "user" /\ pc'[c] = "unused"
          /\ \A q \in Procs \ {p, c} : pc'[q] = pc[q]
      BY <1>a, <1>b, <2>s, Zenon DEF TypeOK, Places
    <2>1. TypeOK'
      BY <1>a, <2>e, <2>f, <2>g, <2>s, Zenon DEF TypeOK
    <2>2. \A q \in Procs \ {p, c} : Same(q)
      BY <2>e, <2>f, <2>g, <2>s, Zenon DEF Same
    <2>3. NewImage(p)' /\ Growing(p)' /\ Fresh(p)' /\ Forking(p)'
      BY <2>e, <2>g, NoLocType, Zenon DEF NewImage, Growing, Fresh, Forking
    <2>4. p \notin damaged' => Image(p)'
      <3>1. p \notin damaged => SegmentsIn(p) /\ Below(pt[p].cur, PGROUNDUP(sz[p]))
        BY <1>a, <1>c, Zenon DEF Image
      <3>2. pt'[p] = pt[p] /\ seg' = seg /\ sz' = sz /\ damaged' = damaged
        BY <1>b, <2>f, <2>s, Zenon
      <3> QED
        BY <2>g, <3>1, <3>2, Zenon DEF Image, SegmentsIn
    <2>5. NewImage(c)' /\ Growing(c)' /\ Image(c)' /\ Fresh(c)'
      <3>1. loc'[c].tab = "cur" /\ c \notin damaged'
        BY <1>b, <1>c, <2>e, <2>s, Zenon
      <3> QED
        BY <2>g, <3>1, Zenon DEF NewImage, Growing, Image, Fresh
    <2>6. pc'[p] # "fork" /\ pc'[c] # "fork"
      BY <2>g, Zenon
    <2> QED
      BY <1>b, <2>s, <2>1, <2>2, <2>3, <2>4, <2>5, <2>6, TwoSteps, Zenon DEF Local
  <1> QED
    BY <1>1, <1>2, Zenon

\* fork() returns: the child has the memory of its parent.
LEMMA Inv_ForkDone ==
  ASSUME IInv, panicked = "", NEW p \in Procs, ForkDone(p)
  PROVE  IInv'
  <1>a. /\ TypeOK /\ pc[p] = "fork"
        /\ \A q \in Procs : NewImage(q) /\ (q \notin damaged => Image(q)) /\ Fresh(q) /\ Forking(q)
    BY Zenon DEF IInv, Local, ForkDone
  <1>p. PICK c \in Procs \ {p} : c = loc[p].child
    BY <1>a, ParentAndChild, Zenon
  <1>b. /\ pc[c] = "used"
        /\ \A q \in Procs \ {p, c} : pc[q] = "fork" => loc[q].child \notin {p, c}
    BY <1>a, <1>p, ParentAndChild, Zenon
  <1>c. loc[p].tab = "cur" /\ loc[c].tab = "cur" /\ sz[p] \in 0 .. USERTOP
    BY <1>a, <1>b, Types, Zenon DEF NewImage, TypeOK
  <1>s. /\ sz' = [sz EXCEPT ![c] = sz[p]] /\ pc' = [pc EXCEPT ![p] = "user", ![c] = "user"]
        /\ loc' = [loc EXCEPT ![p] = NoLoc]
        /\ damaged' = IF p \in damaged THEN damaged \cup {c} ELSE damaged
        /\ UNCHANGED <<pt, seg, panicked>>
    BY <1>p, Zenon DEF ForkDone
  <1>d. /\ damaged' \subseteq Procs
        /\ \A q \in Procs : q # c => (q \in damaged' <=> q \in damaged)
        /\ c \notin damaged' => p \notin damaged
    BY <1>a, <1>s, Zenon DEF TypeOK
  <1>e. /\ loc' \in [Procs -> Locals] /\ loc'[p] = NoLoc
        /\ \A q \in Procs : q # p => loc'[q] = loc[q]
    BY <1>a, <1>s, NoLocType, SetLocals, Zenon
  <1>f. /\ sz' \in [Procs -> 0 .. USERTOP] /\ sz'[c] = sz[p]
        /\ \A q \in Procs : q # c => sz'[q] = sz[q]
    BY <1>a, <1>c, <1>s, Zenon DEF TypeOK
  <1>g. /\ pc' \in [Procs -> Places] /\ pc'[p] = "user" /\ pc'[c] = "user"
        /\ \A q \in Procs \ {p, c} : pc'[q] = pc[q]
    BY <1>a, <1>s, Zenon DEF TypeOK, Places
  <1>1. TypeOK'
    BY <1>a, <1>d, <1>e, <1>f, <1>g, <1>s, Zenon DEF TypeOK
  <1>2. \A q \in Procs \ {p, c} : Same(q)
    BY <1>d, <1>e, <1>f, <1>g, <1>s, Zenon DEF Same
  <1>3. NewImage(p)' /\ Growing(p)' /\ Fresh(p)' /\ Forking(p)'
    BY <1>e, <1>g, NoLocType, Zenon DEF NewImage, Growing, Fresh, Forking
  <1>4. p \notin damaged => SegmentsIn(p) /\ Below(pt[p].cur, PGROUNDUP(sz[p]))
    BY <1>a, <1>c, Zenon DEF Image
  <1>5. p \notin damaged' => Image(p)'
    <2>1. pt' = pt /\ seg' = seg /\ sz'[p] = sz[p] /\ (p \in damaged' <=> p \in damaged)
      BY <1>d, <1>f, <1>s, Zenon
    <2> QED
      BY <1>g, <1>4, <2>1, Zenon DEF Image, SegmentsIn
  <1>6. NewImage(c)' /\ Growing(c)' /\ Fresh(c)'
    BY <1>c, <1>e, <1>g, Zenon DEF NewImage, Growing, Fresh
  <1>7. c \notin damaged' => Image(c)'
    <2>1. /\ seg[c] = seg[p] /\ Below(pt[c].cur, PGROUNDUP(sz[p]))
          /\ \A w \in Low(pt[c].cur) :
               w \in DOMAIN pt[p].cur.leaf /\ pt[c].cur.leaf[w] = pt[p].cur.leaf[w]
      BY <1>a, <1>p, Zenon DEF Forking
    <2>2. \A w \in Low(pt[c].cur) :
            w \in Low(pt[p].cur) /\ pt[c].cur.leaf[w] = pt[p].cur.leaf[w]
      BY <2>1, Zenon DEF Low
    <2>3. c \notin damaged' => /\ Top(seg[c]) * PGSIZE <= sz[p]
                               /\ \A w \in Low(pt[c].cur) :
                                    w < Top(seg[c]) => pt[c].cur.leaf[w] = "user"
      BY <1>d, <1>4, <2>1, <2>2, Zenon DEF SegmentsIn
    <2>4. pt' = pt /\ seg' = seg
      BY <1>s, Zenon
    <2> QED
      BY <1>f, <1>g, <2>1, <2>3, <2>4, Zenon DEF Image, SegmentsIn
  <1>8. pc'[p] # "fork" /\ pc'[c] # "fork"
    BY <1>g, Zenon
  <1> QED
    BY <1>b, <1>s, <1>1, <1>2, <1>3, <1>5, <1>6, <1>7, <1>8, TwoSteps, Zenon DEF Local

-----------------------------------------------------------------------------
(* The theorems.                                                           *)

\* No process goes on once the machine has halted.
LEMMA Running ==
  ASSUME IInv, Next
  PROVE  panicked = ""
  <1>1. ASSUME NEW p PROVE /\ \A n : Sbrk(p, n) => pc[p] # "halted"
                           /\ GrowPage(p) \/ GrowDone(p) => pc[p] # "halted"
    BY Zenon DEF Sbrk, GrowPage, GrowDone
  <1>2. ASSUME NEW p PROVE /\ \A c : ForkStart(p, c) => pc[p] # "halted"
                           /\ ForkPage(p) \/ ForkDone(p) => pc[p] # "halted"
    BY Zenon DEF ForkStart, ForkPage, ForkDone
  <1>3. ASSUME NEW p PROVE CallExit(p) \/ Reap(p) \/ Killed(p) => pc[p] # "halted"
    BY Zenon DEF CallExit, Reap, Killed
  <1>4. ASSUME NEW p PROVE /\ \A prog : ExecStart(p, prog) => pc[p] # "halted"
                           /\ ExecBadHeader(p) \/ ExecSegments(p) => pc[p] # "halted"
    BY Zenon DEF ExecStart, ExecBadHeader, ExecSegments
  <1>5. ASSUME NEW p PROVE ExecBadArgs(p) \/ ExecCommit(p) \/ ExecBad(p) => pc[p] # "halted"
    BY Zenon DEF ExecBadArgs, ExecCommit, ExecBad
  <1>6. ASSUME NEW p PROVE /\ \A u : Access(p, u) \/ Copy(p, u) => pc[p] # "halted"
                           /\ FaultMap(p) => pc[p] # "halted"
    BY Zenon DEF Access, Copy, FaultMap
  <1>7. \E p \in Procs : pc[p] # "halted"
    BY <1>1, <1>2, <1>3, <1>4, <1>5, <1>6, Zenon DEF Next
  <1> QED
    BY <1>7, Zenon DEF IInv, Halted

\* Every step keeps the invariant.
LEMMA InvNext == IInv /\ [Next]_vars => IInv'
  <1> SUFFICES ASSUME IInv, [Next]_vars PROVE IInv'
    BY Zenon
  <1>1. CASE UNCHANGED vars
    <2>1. \A q \in Procs : Same(q)
      BY <1>1, Zenon DEF vars, Same
    <2>2. \A q \in Procs : Local(q)' /\ Fresh(q)'
      BY <2>1, SameLocal, Zenon DEF IInv
    <2>3. TypeOK' /\ Halted' /\ NoImagePanic'
      BY <1>1, Zenon DEF vars, IInv, TypeOK, Halted, NoImagePanic
    <2>4. \A q \in Procs : Forking(q)'
      BY <1>1, Zenon DEF vars, IInv, Forking
    <2> QED
      BY <2>2, <2>3, <2>4, Zenon DEF IInv
  <1>2. CASE Next
    <2>0. panicked = ""
      BY <1>2, Running, Zenon
    <2>1. ASSUME NEW p \in Procs, \E n \in Sbrks : Sbrk(p, n) PROVE IInv'
      BY <2>0, <2>1, Inv_Sbrk, Zenon
    <2>2. ASSUME NEW p \in Procs, GrowPage(p) PROVE IInv'
      BY <2>0, <2>2, Inv_GrowPage, Zenon
    <2>3. ASSUME NEW p \in Procs, GrowDone(p) PROVE IInv'
      BY <2>0, <2>3, Inv_GrowDone, Zenon
    <2>4. ASSUME NEW p \in Procs, \E c \in Procs : ForkStart(p, c) PROVE IInv'
      BY <2>0, <2>4, Inv_ForkStart, Zenon
    <2>5. ASSUME NEW p \in Procs, ForkPage(p) PROVE IInv'
      BY <2>0, <2>5, Inv_ForkPage, Zenon
    <2>6. ASSUME NEW p \in Procs, ForkDone(p) PROVE IInv'
      BY <2>0, <2>6, Inv_ForkDone, Zenon
    <2>7. ASSUME NEW p \in Procs, CallExit(p) \/ Killed(p) PROVE IInv'
      <3>1. pc[p] \in {"user", "killed"} /\ Exit(p)
        BY <2>7, Zenon DEF CallExit, Killed
      <3> QED
        BY <2>0, <3>1, Inv_Exit, Zenon
    <2>8. ASSUME NEW p \in Procs, Reap(p) PROVE IInv'
      BY <2>0, <2>8, Inv_Reap, Zenon
    <2>9. ASSUME NEW p \in Procs, \E prog \in Programs : ExecStart(p, prog) PROVE IInv'
      BY <2>0, <2>9, Inv_ExecStart, Zenon
    <2>10. ASSUME NEW p \in Procs, ExecBadHeader(p) \/ ExecBadArgs(p) PROVE IInv'
      BY <2>0, <2>10, Inv_ExecGivesUp, Zenon
    <2>11. ASSUME NEW p \in Procs, ExecSegments(p) PROVE IInv'
      BY <2>0, <2>11, Inv_ExecSegments, Zenon
    <2>12. ASSUME NEW p \in Procs, ExecCommit(p) PROVE IInv'
      BY <2>0, <2>12, Inv_ExecCommit, Zenon
    <2>13. ASSUME NEW p \in Procs, ExecBad(p) PROVE IInv'
      BY <2>0, <2>13, Inv_ExecBad, Zenon
    <2>14. ASSUME NEW p \in Procs, \E u \in 0 .. (USERTOP - 1) : Access(p, u) \/ Copy(p, u)
           PROVE  IInv'
      BY <2>0, <2>14, Inv_Access, Zenon
    <2>15. ASSUME NEW p \in Procs, FaultMap(p) PROVE IInv'
      BY <2>0, <2>15, Inv_FaultMap, Zenon
    <2> QED
      BY <1>2, <2>1, <2>2, <2>3, <2>4, <2>5, <2>6, <2>7, <2>8, <2>9, <2>10, <2>11, <2>12, <2>13,
         <2>14, <2>15, Zenon DEF Next
  <1> QED
    BY <1>1, <1>2, Zenon

\* What is said above of page tables, sizes and segments holds in every
\* reachable state.
THEOREM Invariance == Spec => []IInv
  BY InitInv, InvNext, PTL DEF Spec

\* What is mapped of a process that is not damaged lies below p->sz.
LEMMA InvContained == IInv => Contained
  <1> SUFFICES ASSUME IInv, NEW p \in Procs \ damaged, pc[p] = "user",
                      NEW v \in DOMAIN pt[p].cur.leaf \ {TRAMPOLINE, TRAPFRAME}
               PROVE  v \in 0 .. (PGROUNDUP(sz[p]) - 1)
    BY Zenon DEF Contained
  <1>1. v < PGROUNDUP(sz[p])
    BY Zenon DEF IInv, Local, Image, Below, Low
  <1>2. v \in Nat /\ PGROUNDUP(sz[p]) \in Nat
    BY Types, LeafType, Zenon DEF IInv
  <1> QED
    BY ONLY <1>1, <1>2

\* Outside a call no page of a process is mapped beyond p->sz, whichever
\* calls before it failed for want of memory, unless sbrk() has shrunk the
\* process into its segments or an exec() failed after replacing them.
THEOREM MemoryContained == Spec => []Contained
  BY Invariance, InvContained, PTL

\* mappages() and freewalk() panic only when some process is damaged.
THEOREM ImagesSound == Spec => []NoImagePanic
  <1>1. IInv => NoImagePanic
    BY Zenon DEF IInv
  <1> QED
    BY <1>1, Invariance, PTL
=============================================================================
