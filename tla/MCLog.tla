------------------------------- MODULE MCLog -------------------------------
(* Log for TLC.                                                            *)
EXTENDS Log

CONSTANTS p1, p2, b1, b2, v0, v1
=============================================================================
