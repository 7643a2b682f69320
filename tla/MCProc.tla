------------------------------- MODULE MCProc -------------------------------
(* Proc for TLC.                                                           *)
EXTENDS Proc

CONSTANTS c1, c2

=============================================================================
