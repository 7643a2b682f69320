---------------------------- MODULE MCVirtioDisk ----------------------------
(* Instances of VirtioDisk for TLC.                                        *)
EXTENDS VirtioDisk, TLC

CONSTANTS p1, p2, p3

\* The processes run the same code.
Sym == Permutations(Procs)

=============================================================================
