-------------------------------- MODULE Pipe --------------------------------
(***************************************************************************)
(* One pipe of kernel/pipe.c with the processes that have an end of it     *)
(* open.  pi->lock is held from "wloop"/"rloop" on and given up by sleep() *)
(* and on return; kill() does not take it, so it falls between any two     *)
(* steps.  nread and nwrite are the code's 32-bit counters, of width MOD.  *)
(***************************************************************************)
EXTENDS Integers, Sequences, FiniteSets

CONSTANTS
    Writers, Readers,   \* processes with the write end, with the read end
    None,               \* no lock holder
    Byte,
    PIPESIZE,
    MOD,                \* 2^32: where nread and nwrite wrap
    MaxN                \* bound on the n of a call

Procs == Writers \cup Readers

ASSUME PipeAssumption ==
    /\ IsFiniteSet(Procs) /\ Writers \cap Readers = {} /\ None \notin Procs
    /\ Byte # {}
    /\ PIPESIZE \in Nat \ {0}
    /\ MOD \in Nat /\ MOD % PIPESIZE = 0 /\ MOD > PIPESIZE
    /\ MaxN \in Nat

VARIABLES
    data, nread, nwrite, readopen, writeopen,   \* struct pipe
    freed,      \* kfree(pi) was called
    lock,       \* pi->lock
    open,       \* processes that have not closed their end
    killed,
    pc, i, n    \* of the call each process is in

pipe == <<data, nread, nwrite, readopen, writeopen, freed>>
vars == <<data, nread, nwrite, readopen, writeopen, freed, lock, open, killed, pc, i, n>>

Init ==
    /\ data = [k \in 0 .. PIPESIZE - 1 |-> CHOOSE b \in Byte : TRUE]
    /\ nread = 0 /\ nwrite = 0
    /\ readopen = TRUE /\ writeopen = TRUE
    /\ freed = FALSE
    /\ lock = None
    /\ open = Procs
    /\ killed = [p \in Procs |-> FALSE]
    /\ pc = [p \in Procs |-> "user"]
    /\ i = [p \in Procs |-> 0]
    /\ n = [p \in Procs |-> 0]

\* Fault: a test that forgets that the counters wrap.
FullUnwrapped == nwrite >= nread + PIPESIZE

Full == nwrite = (nread + PIPESIZE) % MOD
Empty == nread = nwrite

\* wakeup(): the sleepers at l retry their acquire(&pi->lock).
wakeup(l) == [p \in Procs |->
    CASE l = "rasleep" /\ pc[p] = "rasleep" -> "racquire"
      [] l = "wasleep" /\ pc[p] = "wasleep" -> "wacquire"
      [] OTHER -> pc[p]]

Goto(p, l) == pc' = [pc EXCEPT ![p] = l]

\* Release pi->lock and return, after a wakeup() of the sleepers at l.
leave(p) == lock' = None /\ i' = [i EXCEPT ![p] = 0] /\ n' = [n EXCEPT ![p] = 0]
return(p) == leave(p) /\ Goto(p, "user")
return_waking(p, l) == leave(p) /\ pc' = [wakeup(l) EXCEPT ![p] = "user"]

\* read() or write() on an open end; a killed process makes no more calls.
call(p) ==
    /\ pc[p] = "user" /\ p \in open /\ ~killed[p]
    /\ \E m \in 0 .. MaxN : n' = [n EXCEPT ![p] = m]
    /\ Goto(p, IF p \in Writers THEN "wacquire" ELSE "racquire")
    /\ UNCHANGED <<pipe, lock, open, killed, i>>

acquire(p) ==
    /\ lock = None
    /\ lock' = p
    /\ \/ pc[p] = "wacquire" /\ Goto(p, "wloop")
       \/ pc[p] = "racquire" /\ Goto(p, "rloop")
    /\ UNCHANGED <<pipe, open, killed, i, n>>

-----------------------------------------------------------------------------
(* pipewrite().                                                            *)

write_refused(p) ==
    /\ pc[p] = "wloop" /\ i[p] < n[p]
    /\ ~readopen \/ killed[p]
    /\ return(p)
    /\ UNCHANGED <<pipe, open, killed>>

write_check(p) ==
    /\ pc[p] = "wloop" /\ i[p] < n[p]
    /\ readopen /\ ~killed[p]
    /\ Goto(p, "wput")
    /\ UNCHANGED <<pipe, lock, open, killed, i, n>>

write_sleep(p) ==
    /\ pc[p] = "wput" /\ Full
    /\ lock' = None
    /\ pc' = [wakeup("rasleep") EXCEPT ![p] = "wasleep"]
    /\ UNCHANGED <<pipe, open, killed, i, n>>

write_byte(p, b) ==
    /\ pc[p] = "wput" /\ ~Full
    /\ data' = [data EXCEPT ![nwrite % PIPESIZE] = b]
    /\ nwrite' = (nwrite + 1) % MOD
    /\ i' = [i EXCEPT ![p] = @ + 1]
    /\ Goto(p, "wloop")
    /\ UNCHANGED <<nread, readopen, writeopen, freed, lock, open, killed, n>>

\* copyin() failed: break.
write_fault(p) ==
    /\ pc[p] = "wput" /\ ~Full
    /\ return_waking(p, "rasleep")
    /\ UNCHANGED <<pipe, open, killed>>

write_done(p) ==
    /\ pc[p] = "wloop" /\ i[p] = n[p]
    /\ return_waking(p, "rasleep")
    /\ UNCHANGED <<pipe, open, killed>>

-----------------------------------------------------------------------------
(* piperead().                                                             *)

Wait == Empty /\ writeopen

read_killed(p) ==
    /\ pc[p] = "rloop" /\ Wait /\ killed[p]
    /\ return(p)
    /\ UNCHANGED <<pipe, open, killed>>

read_check(p) ==
    /\ pc[p] = "rloop" /\ Wait /\ ~killed[p]
    /\ Goto(p, "rwait")
    /\ UNCHANGED <<pipe, lock, open, killed, i, n>>

read_sleep(p) ==
    /\ pc[p] = "rwait"
    /\ lock' = None
    /\ Goto(p, "rasleep")
    /\ UNCHANGED <<pipe, open, killed, i, n>>

read_start(p) ==
    /\ pc[p] = "rloop" /\ ~Wait
    /\ Goto(p, "rcopy")
    /\ UNCHANGED <<pipe, lock, open, killed, i, n>>

\* The byte is taken out of the ring before copyout() can fail.
take == nread' = (nread + 1) % MOD /\ UNCHANGED <<data, nwrite, readopen, writeopen, freed>>

read_byte(p) ==
    /\ pc[p] = "rcopy" /\ i[p] < n[p] /\ ~Empty
    /\ take
    /\ i' = [i EXCEPT ![p] = @ + 1]
    /\ UNCHANGED <<lock, open, killed, pc, n>>

read_fault(p) ==
    /\ pc[p] = "rcopy" /\ i[p] < n[p] /\ ~Empty
    /\ take
    /\ return_waking(p, "wasleep")
    /\ UNCHANGED <<open, killed>>

\* Fault: writers are woken only if the ring was left empty.
read_doneIfEmpty(p) ==
    /\ pc[p] = "rcopy" /\ (i[p] = n[p] \/ Empty)
    /\ IF Empty THEN return_waking(p, "wasleep") ELSE return(p)
    /\ UNCHANGED <<pipe, open, killed>>

read_done(p) ==
    /\ pc[p] = "rcopy" /\ (i[p] = n[p] \/ Empty)
    /\ return_waking(p, "wasleep")
    /\ UNCHANGED <<pipe, open, killed>>

-----------------------------------------------------------------------------
(* close(), exit() and kill().                                             *)

\* fileclose() calls pipeclose() when the last reference to an end goes.
Last(p) == open \cap (IF p \in Writers THEN Writers ELSE Readers) = {p}

\* Fault: the pipe goes as soon as one end is closed.
FreesEarly(p) == TRUE

Frees(p) == IF p \in Writers THEN ~readopen ELSE ~writeopen

\* Where those sleep that must see that the end of p was closed.
Chan(p) == IF p \in Writers THEN "rasleep" ELSE "wasleep"

close(p) ==
    /\ pc[p] = "user" /\ p \in open
    /\ open' = open \ {p}
    /\ \/ ~Last(p) /\ UNCHANGED <<readopen, writeopen, pc, freed>>
       \/ /\ Last(p) /\ lock = None
          /\ writeopen' = (writeopen /\ p \notin Writers)
          /\ readopen' = (readopen /\ p \notin Readers)
          /\ pc' = wakeup(Chan(p))
          /\ freed' = Frees(p)
    /\ UNCHANGED <<data, nread, nwrite, lock, killed, i, n>>

kill(p) ==
    /\ killed' = [killed EXCEPT ![p] = TRUE]
    /\ Goto(p, CASE pc[p] = "rasleep" -> "racquire"
                 [] pc[p] = "wasleep" -> "wacquire"
                 [] OTHER -> pc[p])
    /\ UNCHANGED <<pipe, lock, open, i, n>>

-----------------------------------------------------------------------------

Write(p) == write_refused(p) \/ write_check(p) \/ write_sleep(p) \/ write_fault(p)
              \/ write_done(p) \/ \E b \in Byte : write_byte(p, b)
Read(p) == read_killed(p) \/ read_check(p) \/ read_sleep(p) \/ read_start(p)
              \/ read_byte(p) \/ read_fault(p) \/ read_done(p)

Next == \E p \in Procs :
    call(p) \/ acquire(p) \/ Write(p) \/ Read(p) \/ close(p) \/ kill(p)

Spec == Init /\ [][Next]_vars

-----------------------------------------------------------------------------
(* Properties.                                                             *)

\* Bytes in the ring.
Count == (nwrite - nread) % MOD

\* The bytes from nread up to nwrite.
Queue == [k \in 1 .. Count |-> data[(nread + k - 1) % PIPESIZE]]

Ring == INSTANCE Fifo WITH q <- Queue, SIZE <- PIPESIZE

\* The ring buffer is a bounded FIFO, across the wrap of its counters: no byte
\* is lost, duplicated, reordered or overwritten before it is read, and none
\* goes in after the last reader has closed.
IsFifo == Ring!Spec

\* While a process sleeps, the reason for its sleep holds, or the process that
\* removed it has the lock and has not yet called wakeup().  A killed writer
\* breaks this for readers until the close: write_refused() returns without a wakeup even when
\* bytes went into the ring before (see ReaderWakes).
NoLostWakeup ==
    /\ \A p \in Readers : pc[p] = "rasleep" =>
         \/ Wait
         \/ lock \in Writers /\ pc[lock] \in {"wloop", "wput"}
         \/ writeopen /\ \E w \in Writers : killed[w]
    /\ \A p \in Writers : pc[p] = "wasleep" =>
         \/ Full /\ readopen
         \/ lock \in Readers /\ pc[lock] = "rcopy"

\* The page of the pipe is given back once both ends are closed and nobody is
\* inside a call on it.
FreedUnused ==
    freed => open = {} /\ \A p \in Procs : pc[p] = "user"

\* A process that has the lock gets on with its call, those who spin for it
\* get it, and a killed process exits, which closes its files.
Fairness == \A p \in Procs :
    /\ WF_vars(Write(p) \/ Read(p))
    /\ SF_vars(acquire(p))
    /\ SF_vars(killed[p] /\ close(p))

FairSpec == Spec /\ Fairness

\* A reader does not stay asleep when the pipe is not empty.
ReaderWakes == \A p \in Readers : (pc[p] = "rasleep" /\ ~Empty) ~> pc[p] # "rasleep"

=============================================================================
