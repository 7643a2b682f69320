----------------------------- MODULE MCUserMem -----------------------------
(* UserMem for TLC: two processes, programs of at most two pages.          *)
EXTENDS UserMem

CONSTANTS p1, p2

Prog(t, d) == [text |-> t, data |-> d]
MCPrograms == {Prog(1, 0), Prog(2, 1)}
MCSbrks == {3, -3}
=============================================================================
