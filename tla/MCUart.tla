------------------------------- MODULE MCUart -------------------------------
(* Instances of Uart for TLC.                                              *)
EXTENDS Uart

CONSTANTS w1, w2, c1, c2

=============================================================================
