------------------------------ MODULE Console -------------------------------
(***************************************************************************)
(* The input half of kernel/console.c: consoleintr(), called for every     *)
(* character the UART has received, and the processes in consoleread().    *)
(* The handler is one critical section of cons.lock; a reader keeps the    *)
(* lock from "loop" to its sleep or its return.                            *)
(***************************************************************************)
EXTENDS Integers, Sequences, FiniteSets

CONSTANTS
    Readers, None,
    Letter, NL, EOF,    \* ordinary characters, '\n' (and '\r'), ^D
    INPUT_BUF_SIZE,
    MOD,                \* 2^32: where r, w and e wrap
    MaxN                \* bound on the n of a read

Char == Letter \cup {NL, EOF}

ASSUME ConsoleAssumption ==
    /\ IsFiniteSet(Readers) /\ None \notin Readers
    /\ NL # EOF /\ Letter \cap {NL, EOF} = {}
    /\ INPUT_BUF_SIZE \in Nat \ {0}
    /\ MOD \in Nat /\ MOD % INPUT_BUF_SIZE = 0 /\ MOD > INPUT_BUF_SIZE
    /\ MaxN \in Nat

VARIABLES
    buf, r, w, e,           \* cons
    lock,                   \* cons.lock
    killed, pc, n, target   \* of each process

cons == <<buf, r, w, e>>
vars == <<buf, r, w, e, lock, killed, pc, n, target>>

Init ==
    /\ buf = [k \in 0 .. INPUT_BUF_SIZE - 1 |-> NL]
    /\ r = 0 /\ w = 0 /\ e = 0
    /\ lock = None
    /\ killed = [p \in Readers |-> FALSE]
    /\ pc = [p \in Readers |-> "user"]
    /\ n = [p \in Readers |-> 0]
    /\ target = [p \in Readers |-> 0]

Minus(x, y) == (x - y) % MOD
Plus1(x) == (x + 1) % MOD
At(x) == buf[x % INPUT_BUF_SIZE]
Goto(p, l) == pc' = [pc EXCEPT ![p] = l]

-----------------------------------------------------------------------------
(* consoleintr().                                                          *)

Room == Minus(e, r) < INPUT_BUF_SIZE

\* Fault: a full buffer is not handed to the readers.
WholeLineOnly(c) == c \in {NL, EOF}

WholeLine(c) == c \in {NL, EOF} \/ Minus(Plus1(e), r) = INPUT_BUF_SIZE

wakeup == [p \in Readers |-> IF pc[p] = "asleep" THEN "lock" ELSE pc[p]]

intr_store(c) ==
    /\ lock = None /\ Room
    /\ buf' = [buf EXCEPT ![e % INPUT_BUF_SIZE] = c]
    /\ e' = Plus1(e)
    /\ IF WholeLine(c)
         THEN w' = Plus1(e) /\ pc' = wakeup
         ELSE UNCHANGED <<w, pc>>
    /\ UNCHANGED <<r, lock, killed, n, target>>

\* Fault: an erase that only looks whether the buffer is empty.
CanEraseUnread == e # r

CanErase == e # w

intr_erase ==
    /\ lock = None /\ CanErase
    /\ e' = Minus(e, 1)
    /\ UNCHANGED <<buf, r, w, lock, killed, pc, n, target>>

\* How many characters ^U takes back: to w or to the newline before.
KillLength == CHOOSE k \in 0 .. INPUT_BUF_SIZE :
    /\ \A j \in 1 .. k : Minus(e, j - 1) # w /\ At(Minus(e, j)) # NL
    /\ Minus(e, k) = w \/ At(Minus(e, k + 1)) = NL

intr_kill ==
    /\ lock = None
    /\ e' = Minus(e, KillLength)
    /\ UNCHANGED <<buf, r, w, lock, killed, pc, n, target>>

-----------------------------------------------------------------------------
(* consoleread().                                                          *)

consoleread(p) ==
    /\ pc[p] = "user" /\ ~killed[p]
    /\ \E m \in 0 .. MaxN : n' = [n EXCEPT ![p] = m] /\ target' = [target EXCEPT ![p] = m]
    /\ Goto(p, "lock")
    /\ UNCHANGED <<cons, lock, killed>>

acquire(p) ==
    /\ pc[p] = "lock" /\ lock = None
    /\ lock' = p
    /\ Goto(p, "loop")
    /\ UNCHANGED <<cons, killed, n, target>>

return(p) ==
    /\ lock' = None
    /\ n' = [n EXCEPT ![p] = 0] /\ target' = [target EXCEPT ![p] = 0]
    /\ Goto(p, "user")

read_done(p) ==
    /\ pc[p] = "loop" /\ n[p] = 0
    /\ return(p)
    /\ UNCHANGED <<cons, killed>>

read_killed(p) ==
    /\ pc[p] = "loop" /\ n[p] > 0 /\ r = w /\ killed[p]
    /\ return(p)
    /\ UNCHANGED <<cons, killed>>

read_empty(p) ==
    /\ pc[p] = "loop" /\ n[p] > 0 /\ r = w /\ ~killed[p]
    /\ Goto(p, "wait")
    /\ UNCHANGED <<cons, lock, killed, n, target>>

read_sleep(p) ==
    /\ pc[p] = "wait"
    /\ lock' = None
    /\ Goto(p, "asleep")
    /\ UNCHANGED <<cons, killed, n, target>>

\* ^D ends the read; after other characters it stays for the next one.
read_eof(p) ==
    /\ pc[p] = "loop" /\ n[p] > 0 /\ r # w /\ At(r) = EOF
    /\ r' = IF n[p] < target[p] THEN r ELSE Plus1(r)
    /\ return(p)
    /\ UNCHANGED <<buf, w, e, killed>>

read_char(p) ==
    /\ pc[p] = "loop" /\ n[p] > 0 /\ r # w /\ At(r) # EOF
    /\ r' = Plus1(r)
    /\ IF At(r) = NL
         THEN return(p)
         ELSE n' = [n EXCEPT ![p] = @ - 1] /\ UNCHANGED <<lock, pc, target>>
    /\ UNCHANGED <<buf, w, e, killed>>

\* either_copyout() failed; the character is gone.
read_fault(p) ==
    /\ pc[p] = "loop" /\ n[p] > 0 /\ r # w /\ At(r) # EOF
    /\ r' = Plus1(r)
    /\ return(p)
    /\ UNCHANGED <<buf, w, e, killed>>

kill(p) ==
    /\ killed' = [killed EXCEPT ![p] = TRUE]
    /\ Goto(p, IF pc[p] = "asleep" THEN "lock" ELSE pc[p])
    /\ UNCHANGED <<cons, lock, n, target>>

-----------------------------------------------------------------------------

Read(p) == read_done(p) \/ read_killed(p) \/ read_empty(p) \/ read_sleep(p)
             \/ read_eof(p) \/ read_char(p) \/ read_fault(p)

Next ==
    \/ (\E c \in Char : intr_store(c)) \/ intr_erase \/ intr_kill
    \/ \E p \in Readers : consoleread(p) \/ acquire(p) \/ Read(p) \/ kill(p)

Spec == Init /\ [][Next]_vars

-----------------------------------------------------------------------------
(* Properties.                                                             *)

Chars(from, to) == [k \in 1 .. Minus(to, from) |-> At((from + k - 1) % MOD)]

\* What has been handed to the readers, and the line that can be edited.
Ready == Chars(r, w)
Line == Chars(w, e)

Input == INSTANCE LineInput WITH
    Ends <- {NL, EOF},
    SIZE <- INPUT_BUF_SIZE,
    ready <- Ready,
    line <- Line

\* The three indices into the ring are a line editor in front of a queue, also
\* where they wrap and with readers that come and go: what has been handed to
\* the readers cannot be erased, no character is stored over one that is still
\* to be read, and a full buffer is handed over although no line has ended.
IsLineInput == Input!Spec

\* The user can always go on: either there is room for a character or the
\* readers have something to read, and a reader sleeps only while there is
\* nothing for it to read, so that typing never comes to a stop that only more
\* typing could end.
NeverWedged ==
    /\ Room \/ r # w
    /\ \A p \in Readers : pc[p] = "asleep" => r = w

=============================================================================
