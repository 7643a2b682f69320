------------------------------ MODULE MCMmap ------------------------------
(* Mmap for TLC.                                                           *)
EXTENDS Mmap, TLC

CONSTANTS p1, p2, f1, a, b

Map(len, prot, flags) == [len |-> len, prot |-> prot, flags |-> flags, file |-> f1]

MCMaps == {Map(1, RW, "PRIVATE"), Map(2, RW, "SHARED")}

Sym == Permutations(Frames)
===========================================================================
