------------------------------ MODULE LineInput -----------------------------
(***************************************************************************)
(* What the console promises its readers: the line being typed can be      *)
(* edited until it ends, with a newline, with ^D or because SIZE           *)
(* characters are waiting; from then on it is read once, in order.         *)
(***************************************************************************)
EXTENDS Naturals, Sequences

CONSTANTS Char, Ends, SIZE

VARIABLES ready, line

vars == <<ready, line>>

Init == ready = <<>> /\ line = <<>>

Type(c) ==
    /\ Len(ready) + Len(line) < SIZE
    /\ IF c \in Ends \/ Len(ready) + Len(line) + 1 = SIZE
         THEN ready' = ready \o Append(line, c) /\ line' = <<>>
         ELSE line' = Append(line, c) /\ UNCHANGED ready

Erase ==
    /\ line # <<>>
    /\ line' = SubSeq(line, 1, Len(line) - 1)
    /\ UNCHANGED ready

EraseLine == line' = <<>> /\ UNCHANGED ready

Get == ready # <<>> /\ ready' = Tail(ready) /\ UNCHANGED line

Next == (\E c \in Char : Type(c)) \/ Erase \/ EraseLine \/ Get

Spec == Init /\ [][Next]_vars
=============================================================================
