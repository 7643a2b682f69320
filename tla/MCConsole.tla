----------------------------- MODULE MCConsole ------------------------------
(* Instances of Console for TLC.                                           *)
EXTENDS Console

CONSTANTS p1, p2, a

=============================================================================
