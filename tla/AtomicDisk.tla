----------------------------- MODULE AtomicDisk -----------------------------
(***************************************************************************)
(* What the logging layer of kernel/log.c promises to the file system: a   *)
(* disk whose contents change only by whole groups of system calls.        *)
(* "durable" is what a reboot would find; "view" is what running system    *)
(* calls read and write; "ops" are the processes inside a transaction.     *)
(***************************************************************************)
CONSTANTS Procs, Blocks, Val

VARIABLES durable, view, ops

vars == <<durable, view, ops>>

Init ==
    /\ durable \in [Blocks -> Val]
    /\ view = durable
    /\ ops = {}

Begin(p) ==
    /\ p \notin ops
    /\ ops' = ops \cup {p}
    /\ UNCHANGED <<durable, view>>

Write(p, b, v) ==
    /\ p \in ops
    /\ view' = [view EXCEPT ![b] = v]
    /\ UNCHANGED <<durable, ops>>

End(p) ==
    /\ p \in ops
    /\ ops' = ops \ {p}
    /\ UNCHANGED <<durable, view>>

\* All the updates of all the calls since the last commit, at once.
Commit ==
    /\ ops = {}
    /\ durable' = view
    /\ UNCHANGED <<view, ops>>

\* A crash loses every uncommitted update and nothing else.
Crash ==
    /\ view' = durable
    /\ ops' = {}
    /\ UNCHANGED durable

Next ==
    \/ \E p \in Procs : Begin(p) \/ End(p)
    \/ \E p \in Procs, b \in Blocks, v \in Val : Write(p, b, v)
    \/ Commit
    \/ Crash

Spec == Init /\ [][Next]_vars
=============================================================================
