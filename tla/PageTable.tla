----------------------------- MODULE PageTable -----------------------------
(***************************************************************************)
(* User page tables (kernel/vm.c, riscv.h): three levels of tables, and    *)
(* what walk, mappages, uvmunmap and freewalk do to them.                  *)
(*                                                                         *)
(* Each level has NPTE entries (512 in the code).  A page table is a       *)
(* record: the lower tables that exist, named <<level, prefix of the       *)
(* page number>>, and the leaves, a function from the mapped page numbers  *)
(* to "user" (PTE_U set) or "kernel" (PTE_U clear).  Page frames are only  *)
(* counted: nothing here shares one.                                       *)
(***************************************************************************)
EXTENDS Naturals, FiniteSets, Functions

CONSTANT NPTE       \* entries per table: 2^9 in the code

ASSUME NPTEAssumption == NPTE \in Nat \ {0, 1}

MAXVA == NPTE * NPTE * NPTE             \* in pages
TRAMPOLINE == MAXVA - 1
TRAPFRAME == TRAMPOLINE - 1

NoTable == [root |-> FALSE, nodes |-> {}, leaf |-> <<>>]

\* The tables below the root on the way to page v.
Path(v) == {<<1, v \div (NPTE * NPTE)>>, <<0, v \div NPTE>>}

\* walk(..., alloc = 1) with n frames left: the tables it adds, from the
\* top down, until kalloc() fails.
Added(t, v, n) ==
    LET missing == Path(v) \ t.nodes IN
    IF Cardinality(missing) <= n THEN missing
    ELSE IF n = 0 THEN {} ELSE {x \in missing : x[1] = 1}

\* mappages() of one page: -1 if a table is missing and there is no frame
\* for it; the tables that were added stay.
Remap(t, v) == v \in DOMAIN t.leaf
CanMap(t, v, n) == Path(v) \subseteq t.nodes \cup Added(t, v, n)

mappages(t, v, perm, n) ==
    [t EXCEPT !.nodes = @ \cup Added(t, v, n),
              !.leaf = IF CanMap(t, v, n)
                       THEN [w \in DOMAIN @ \cup {v} |-> IF w = v THEN perm ELSE @[w]]
                       ELSE @]

\* walkaddr(): is page v a user page?
UserPage(t, v) == v \in DOMAIN t.leaf /\ t.leaf[v] = "user"

\* uvmunmap() of the pages in V; those that are missing are skipped.
uvmunmap(t, V) == [t EXCEPT !.leaf = Restrict(@, DOMAIN @ \ V)]

\* uvmclear()
uvmclear(t, v) == [t EXCEPT !.leaf[v] = "kernel"]

\* proc_pagetable(): only the trampoline and the trapframe.
proc_pagetable ==
    [root |-> TRUE, nodes |-> Path(TRAMPOLINE) \cup Path(TRAPFRAME),
     leaf |-> [v \in {TRAMPOLINE, TRAPFRAME} |-> "kernel"]]

\* The frames a page table and its pages take.  The trampoline is kernel
\* text, and the trapframe belongs to the process.
Frames(t) ==
    IF t.root
    THEN 1 + Cardinality(t.nodes) + Cardinality(DOMAIN t.leaf \ {TRAMPOLINE, TRAPFRAME})
    ELSE 0

\* proc_freepagetable(t, n pages) meets a leaf that is still there: freewalk()
\* panics.
LeafLeft(t, n) == DOMAIN t.leaf \ ({TRAMPOLINE, TRAPFRAME} \cup 0..(n - 1)) # {}
=============================================================================
