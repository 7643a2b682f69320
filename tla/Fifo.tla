-------------------------------- MODULE Fifo --------------------------------
(***************************************************************************)
(* What a pipe promises: the bytes written come out once each, in order,   *)
(* at most SIZE of them are in flight, nothing is put in once the read end *)
(* is closed, and an end that is closed stays closed.                      *)
(***************************************************************************)
EXTENDS Naturals, Sequences

CONSTANTS Byte, SIZE

VARIABLES q, readopen, writeopen

vars == <<q, readopen, writeopen>>

Init == q = <<>> /\ readopen = TRUE /\ writeopen = TRUE

Put(b) ==
    /\ readopen /\ writeopen
    /\ Len(q) < SIZE
    /\ q' = Append(q, b)
    /\ UNCHANGED <<readopen, writeopen>>

Get ==
    /\ readopen
    /\ q # <<>>
    /\ q' = Tail(q)
    /\ UNCHANGED <<readopen, writeopen>>

CloseRead == readopen /\ readopen' = FALSE /\ UNCHANGED <<q, writeopen>>
CloseWrite == writeopen /\ writeopen' = FALSE /\ UNCHANGED <<q, readopen>>

Next == (\E b \in Byte : Put(b)) \/ Get \/ CloseRead \/ CloseWrite

Spec == Init /\ [][Next]_vars
=============================================================================
