---------------------------- MODULE DiskService -----------------------------
(***************************************************************************)
(* What virtio_disk_rw() promises: the transfer of a request is done once, *)
(* after the call and before its return.                                   *)
(***************************************************************************)
CONSTANT Procs

VARIABLE request

Init == request = [p \in Procs |-> "none"]

Move(p, from, to) == request[p] = from /\ request' = [request EXCEPT ![p] = to]

Next == \E p \in Procs :
    Move(p, "none", "asked") \/ Move(p, "asked", "moved") \/ Move(p, "moved", "none")

Spec == Init /\ [][Next]_request
=============================================================================
