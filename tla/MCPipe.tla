------------------------------- MODULE MCPipe -------------------------------
(* Instances of Pipe for TLC.                                              *)
EXTENDS Pipe

CONSTANTS r1, r2, w1, w2

=============================================================================
