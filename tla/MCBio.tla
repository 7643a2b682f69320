------------------------------- MODULE MCBio --------------------------------
(* Instances of Bio for TLC.                                               *)
EXTENDS Bio

CONSTANTS p1, p2, b1, b2, b3

=============================================================================
