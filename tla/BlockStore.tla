----------------------------- MODULE BlockStore -----------------------------
(***************************************************************************)
(* What the buffer cache promises its callers: every block has one current *)
(* content, and at most one process at a time may look at it or change it. *)
(***************************************************************************)
CONSTANTS Block, Value, Procs, None

VARIABLES content, owner

vars == <<content, owner>>

Init == content \in [Block -> Value] /\ owner = [n \in Block |-> None]

Take(p, n) ==
    /\ owner[n] = None
    /\ owner' = [owner EXCEPT ![n] = p]
    /\ UNCHANGED content

Change(p, n) ==
    /\ owner[n] = p
    /\ \E v \in Value : content' = [content EXCEPT ![n] = v]
    /\ UNCHANGED owner

Give(p, n) ==
    /\ owner[n] = p
    /\ owner' = [owner EXCEPT ![n] = None]
    /\ UNCHANGED content

Next == \E p \in Procs, n \in Block : Take(p, n) \/ Change(p, n) \/ Give(p, n)

Spec == Init /\ [][Next]_vars
=============================================================================
