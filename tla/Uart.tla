-------------------------------- MODULE Uart --------------------------------
(***************************************************************************)
(* Output to the console: consolewrite() puts characters with uartputc()   *)
(* into the transmit buffer of kernel/uart.c, uartstart() moves them to    *)
(* the UART, and uartintr() calls it again when the UART has sent one.     *)
(* Echo and printf go past the buffer with uartputc_sync(), which takes no *)
(* lock: it may fill the UART between the two accesses of uartstart().     *)
(***************************************************************************)
EXTENDS Integers, Sequences, FiniteSets

CONSTANTS
    Writers,            \* processes in write() to the console
    Printers,           \* CPUs in printf() or echoing
    intr, None,         \* the interrupt handler; no lock holder
    Char, Echo,         \* what write() sends; what uartputc_sync() sends
    UART_TX_BUF_SIZE,
    MOD                 \* 2^64: where uart_tx_w and uart_tx_r wrap

Senders == Writers \cup {intr}

ASSUME UartAssumption ==
    /\ IsFiniteSet(Writers) /\ IsFiniteSet(Printers)
    /\ {intr, None} \cap Writers = {} /\ intr # None
    /\ Echo \notin Char
    /\ UART_TX_BUF_SIZE \in Nat \ {0}
    /\ MOD \in Nat /\ MOD % UART_TX_BUF_SIZE = 0 /\ MOD > UART_TX_BUF_SIZE

VARIABLES
    buf, tx_w, tx_r,    \* uart_tx_buf, uart_tx_w, uart_tx_r
    lock,               \* uart_tx_lock
    pc,                 \* of writers, the handler and printers
    fifo,               \* what the UART has taken and not yet sent
    irq                 \* it has become idle: an interrupt is pending

vars == <<buf, tx_w, tx_r, lock, pc, fifo, irq>>

Init ==
    /\ buf = [k \in 0 .. UART_TX_BUF_SIZE - 1 |-> CHOOSE c \in Char : TRUE]
    /\ tx_w = 0 /\ tx_r = 0
    /\ lock = None
    /\ pc = [t \in Senders \cup Printers |-> "idle"]
    /\ fifo = <<>>
    /\ irq = FALSE

\* Fault: the buffer takes one character too many.
FullLate == tx_w = (tx_r + UART_TX_BUF_SIZE + 1) % MOD

Full == tx_w = (tx_r + UART_TX_BUF_SIZE) % MOD
Empty == tx_w = tx_r
Idle == fifo = <<>>         \* LSR_TX_IDLE
Goto(t, l) == pc' = [pc EXCEPT ![t] = l]

-----------------------------------------------------------------------------
(* uartputc(), called by consolewrite() for each character.                *)

uartputc(p) ==
    /\ pc[p] = "idle"
    /\ Goto(p, "lock")
    /\ UNCHANGED <<buf, tx_w, tx_r, lock, fifo, irq>>

put(p, c) ==
    /\ pc[p] = "lock" /\ lock = None /\ ~Full
    /\ buf' = [buf EXCEPT ![tx_w % UART_TX_BUF_SIZE] = c]
    /\ tx_w' = (tx_w + 1) % MOD
    /\ lock' = p
    /\ Goto(p, "start")
    /\ UNCHANGED <<tx_r, fifo, irq>>

put_sleep(p) ==
    /\ pc[p] = "lock" /\ lock = None /\ Full
    /\ Goto(p, "asleep")
    /\ UNCHANGED <<buf, tx_w, tx_r, lock, fifo, irq>>

\* kill() ends a sleep early; uartputc() goes round its loop.
kill(p) ==
    /\ pc[p] = "asleep"
    /\ Goto(p, "lock")
    /\ UNCHANGED <<buf, tx_w, tx_r, lock, fifo, irq>>

-----------------------------------------------------------------------------
(* uartstart(), by the process or the handler that has the lock.           *)

start_return == Empty \/ ~Idle

start_end(t) ==
    /\ pc[t] = "start" /\ start_return
    /\ lock' = None
    /\ Goto(t, "idle")
    /\ UNCHANGED <<buf, tx_w, tx_r, fifo, irq>>

start_check(t) ==
    /\ pc[t] = "start" /\ ~start_return
    /\ Goto(t, "send")
    /\ UNCHANGED <<buf, tx_w, tx_r, lock, fifo, irq>>

\* Fault: nobody is told that there is room again.
wakeupNobody == pc

\* wakeup(&uart_tx_r)
wakeup == [t \in DOMAIN pc |-> IF pc[t] = "asleep" THEN "lock" ELSE pc[t]]

\* Writing THR takes a pending transmit interrupt back.
start_send(t) ==
    /\ pc[t] = "send"
    /\ tx_r' = (tx_r + 1) % MOD
    /\ fifo' = Append(fifo, buf[tx_r % UART_TX_BUF_SIZE])
    /\ irq' = FALSE
    /\ pc' = [wakeup EXCEPT ![t] = "start"]
    /\ UNCHANGED <<buf, tx_w, lock>>

-----------------------------------------------------------------------------
(* uartputc_sync().                                                        *)

sync_check(s) ==
    /\ pc[s] = "idle" /\ Idle
    /\ Goto(s, "sync")
    /\ UNCHANGED <<buf, tx_w, tx_r, lock, fifo, irq>>

sync_send(s) ==
    /\ pc[s] = "sync"
    /\ fifo' = Append(fifo, Echo)
    /\ irq' = FALSE
    /\ Goto(s, "idle")
    /\ UNCHANGED <<buf, tx_w, tx_r, lock>>

-----------------------------------------------------------------------------
(* The UART and its interrupt.                                             *)

transmit ==
    /\ ~Idle
    /\ fifo' = Tail(fifo)
    /\ irq' = (irq \/ fifo' = <<>>)
    /\ UNCHANGED <<buf, tx_w, tx_r, lock, pc>>

uartintr ==
    /\ irq /\ irq' = FALSE
    /\ pc[intr] = "idle" /\ Goto(intr, "wait")
    /\ UNCHANGED <<buf, tx_w, tx_r, lock, fifo>>

intr_acquire ==
    /\ pc[intr] = "wait" /\ lock = None
    /\ lock' = intr
    /\ Goto(intr, "start")
    /\ UNCHANGED <<buf, tx_w, tx_r, fifo, irq>>

-----------------------------------------------------------------------------

Put(p) == put_sleep(p) \/ \E c \in Char : put(p, c)
uartstart(t) == start_end(t) \/ start_check(t) \/ start_send(t)
uartputc_sync(s) == sync_check(s) \/ sync_send(s)

Next ==
    \/ \E p \in Writers : uartputc(p) \/ Put(p) \/ kill(p)
    \/ \E t \in Senders : uartstart(t)
    \/ \E s \in Printers : uartputc_sync(s)
    \/ transmit \/ uartintr \/ intr_acquire

Spec == Init /\ [][Next]_vars

-----------------------------------------------------------------------------
(* Properties.                                                             *)

Waiting == [k \in 1 .. (tx_w - tx_r) % MOD |-> buf[(tx_r + k - 1) % UART_TX_BUF_SIZE]]

Out == INSTANCE Fifo WITH
    q <- SelectSeq(fifo, LAMBDA c : c \in Char) \o Waiting,
    SIZE <- UART_TX_BUF_SIZE + 1 + Cardinality(Printers),
    Byte <- Char, readopen <- TRUE, writeopen <- TRUE

\* What processes write to the console comes out once each and in the order of
\* their uartputc() calls, whatever is printed or echoed in between.
InOrder == Out!Spec

\* Whoever has the lock goes on, the UART sends, and interrupts are taken; a
\* process that spins for the lock gets it in the end.
Fairness ==
    /\ \A t \in Senders : WF_vars(uartstart(t))
    /\ \A p \in Writers : SF_vars(\E c \in Char : put(p, c))
    /\ \A s \in Printers : WF_vars(sync_send(s))
    /\ WF_vars(transmit) /\ SF_vars(uartintr) /\ SF_vars(intr_acquire)

FairSpec == Spec /\ Fairness

\* A character given to uartputc() is accepted by the buffer, and the caller
\* gets away from uartstart(), unless printing goes on for ever and fills the
\* UART each time before uartstart() gets to it.
Written == \A p \in Writers :
    (<>[](\A s \in Printers : pc[s] = "idle")) => (pc[p] = "lock" ~> pc[p] = "idle")

=============================================================================
