------------------------------ MODULE Kalloc ------------------------------
(***************************************************************************)
(* The physical page allocator (kernel/kalloc.c): a free list of page      *)
(* frames and, for copy-on-write, a reference count per frame.  kmem.lock  *)
(* makes each of kalloc, kfree, incref and decref one step; getref takes   *)
(* no lock, so what it returned may be out of date when it is used.        *)
(*                                                                         *)
(* The list is modelled as the set of the frames on it and kalloc takes    *)
(* any of them: frames are interchangeable, so the order of the list is of *)
(* no consequence.                                                         *)
(***************************************************************************)
EXTENDS Naturals, FiniteSets

CONSTANT
    Frames          \* the page frames between "end" and PHYSTOP

ASSUME FramesAssumption == IsFiniteSet(Frames)

VARIABLES
    freelist,       \* the frames of kmem.freelist
    ref             \* kmem.runs[].ref

kvars == <<freelist, ref>>

\* kinit(): every frame on the list, the counts of a zeroed array.
kinit ==
    /\ freelist = Frames
    /\ ref = [f \in Frames |-> 0]

OutOfMemory == freelist = {}

\* Return a frame of the list: its count becomes 1.
kalloc(f) ==
    /\ f \in freelist
    /\ freelist' = freelist \ {f}
    /\ ref' = [ref EXCEPT ![f] = 1]

\* Put a frame back; the count keeps its value until the next kalloc().
kfree(f) ==
    /\ freelist' = freelist \cup {f}
    /\ UNCHANGED ref

incref(f) ==
    /\ ref' = [ref EXCEPT ![f] = @ + 1]
    /\ UNCHANGED freelist

\* getref(), which takes no lock.
getref(f) == ref[f]

decref(f) ==
    /\ ref' = [ref EXCEPT ![f] = @ - 1]
    /\ UNCHANGED freelist
===========================================================================
