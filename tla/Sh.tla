--------------------------------- MODULE Sh ---------------------------------
(***************************************************************************)
(* The shell (user/sh.c): main() reads a line and forks a process that     *)
(* parses it (ShParse) and runs the command; runcmd() forks, redirects,    *)
(* connects pipes and waits.                                               *)
(*                                                                         *)
(* The system calls are external and do what the kernel's do: fork copies  *)
(* the descriptors, open, dup and pipe take the lowest free ones, wait     *)
(* returns when a child has exited.  A program that exec() starts reads    *)
(* its standard input to the end and exits, so it waits as long as anybody *)
(* could still write to the pipe it reads from.                            *)
(*                                                                         *)
(* One line is run.  The descriptors a process has are its own, and the    *)
(* others see them only through the end of a pipe, which can only come     *)
(* later while more of them are open: a run of close() and dup() is one    *)
(* step.                                                                   *)
(***************************************************************************)
EXTENDS ShParse

CONSTANTS
    Lines,          \* the lines that may be typed
    MaxProcs        \* processes a line needs at most; main is 1

Pids == 1..MaxProcs
Fds == 0..9

VARIABLES
    buf,            \* the line, as the parser left it
    line,           \* the line as typed
    tree,           \* what parsecmd() makes of it
    proc,           \* the processes: [pc, cmd, fd, parent, pipe, back]
    nproc,          \* processes created
    npipe,          \* pipes created
    failed          \* history: fork(), open() or pipe() has failed

vars == <<buf, line, tree, proc, nproc, npipe, failed>>

\* What a descriptor refers to.
Closed == <<"closed", 0>>
Console == <<"console", 0>>
File == <<"file", 0>>
End(end, k) == <<end, k>>       \* an end, "r" or "w", of pipe k

NoProc == [pc |-> "unused", cmd |-> Panic, fd |-> [n \in Fds |-> Closed],
           parent |-> 0, pipe |-> <<0, 0>>, back |-> FALSE]

\* main() has opened the console as 0, 1 and 2.
Stdio == [n \in Fds |-> IF n <= 2 THEN Console ELSE Closed]

Init ==
    /\ line \in Lines
    /\ tree = parsecmd(line)
    /\ buf = line
    /\ proc = [p \in Pids |-> IF p = 1 THEN [NoProc EXCEPT !.pc = "getcmd", !.fd = Stdio] ELSE NoProc]
    /\ nproc = 1
    /\ npipe = 0
    /\ failed = FALSE

-----------------------------------------------------------------------------
(* System calls.                                                           *)

Lowest(fd) == Min({n \in Fds : fd[n] = Closed})
close(fd, n) == [fd EXCEPT ![n] = Closed]
dup(fd, n) == [fd EXCEPT ![Lowest(fd)] = fd[n]]
open(fd, what) == [fd EXCEPT ![Lowest(fd)] = what]

\* p goes on at "where".
Go(p, where) == proc' = [proc EXCEPT ![p].pc = where]

\* exit(): the children become init's.
exited(ps, p) ==
    [q \in Pids |-> IF q = p THEN [NoProc EXCEPT !.pc = "zombie", !.parent = ps[p].parent]
                    ELSE IF ps[q].parent = p THEN [ps[q] EXCEPT !.parent = 0] ELSE ps[q]]
exit(p) == proc' = exited(proc, p)

\* fork1(): the child begins at "start" with the command cmd and the
\* descriptors fd; p goes on with "then".  If fork() fails p exits.
fork1(p, start, cmd, fd, back, then) ==
    /\ UNCHANGED <<line, tree, npipe>>
    /\ \/ /\ nproc < MaxProcs
          /\ nproc' = nproc + 1
          /\ proc' = [proc EXCEPT ![p] = then, ![nproc + 1] =
                        [NoProc EXCEPT !.pc = start, !.cmd = cmd, !.fd = fd,
                                       !.parent = p, !.back = back]]
          /\ UNCHANGED failed
       \/ exit(p) /\ failed' = TRUE /\ UNCHANGED nproc

Zombies(p) == {q \in Pids : proc[q].pc = "zombie" /\ proc[q].parent = p}

\* wait(0) of p, which then goes on at "where".
wait(p, where) ==
    /\ \E q \in Zombies(p) :
         proc' = [proc EXCEPT ![q] = [NoProc EXCEPT !.pc = "gone"], ![p].pc = where]
    /\ UNCHANGED <<buf, line, tree, nproc, npipe, failed>>

-----------------------------------------------------------------------------
(* main().                                                                 *)

\* A line that begins with "cd " is run by main() itself; the end of the
\* input ends the shell.
IsCd == line # <<>> /\ line[1] = "cd "

Main(p) ==
    /\ proc[p].pc = "getcmd" /\ ~IsCd
    /\ fork1(p, "parse", Panic, proc[p].fd, FALSE, [proc[p] EXCEPT !.pc = "prompt"])
    /\ UNCHANGED buf

Cd(p) ==
    /\ proc[p].pc = "getcmd" /\ IsCd
    /\ Go(p, "done")
    /\ UNCHANGED <<buf, line, tree, nproc, npipe, failed>>

MainWait(p) == proc[p].pc = "prompt" /\ wait(p, "done")

\* runcmd(parsecmd(buf)), where panic() exits.
Parse(p) ==
    /\ proc[p].pc = "parse"
    /\ IF tree = Panic THEN exit(p) /\ UNCHANGED buf
       ELSE /\ buf' = nulterminate(buf, tree)
            /\ proc' = [proc EXCEPT ![p].pc = "run", ![p].cmd = tree]
    /\ UNCHANGED <<line, tree, nproc, npipe, failed>>

-----------------------------------------------------------------------------
(* runcmd().                                                               *)

Runs(p, type) == proc[p].pc = "run" /\ proc[p].cmd.type = type

\* exec() replaces the process by a program, or fails and the process exits;
\* so it does without a word.
RunExec(p) ==
    /\ Runs(p, "EXEC")
    /\ \/ proc[p].cmd.argv # <<>> /\ Go(p, "program")
       \/ exit(p)
    /\ UNCHANGED <<buf, line, tree, nproc, npipe, failed>>

RunRedir(p) ==
    LET r == proc[p]
        fd == IF r.cmd.mode = "<" THEN 0 ELSE 1
    IN  /\ Runs(p, "REDIR")
        /\ \/ /\ proc' = [proc EXCEPT ![p].fd = open(close(@, fd), File), ![p].cmd = @.cmd]
              /\ UNCHANGED failed
           \/ exit(p) /\ failed' = TRUE
        /\ UNCHANGED <<buf, line, tree, nproc, npipe>>

\* The left command in a child, then the right one in the same process.
RunList(p) ==
    LET r == proc[p] IN
    /\ Runs(p, "LIST")
    /\ fork1(p, "run", r.cmd.left, r.fd, r.back, [r EXCEPT !.pc = "left", !.cmd = @.right])
    /\ UNCHANGED buf

ListWait(p) == proc[p].pc = "left" /\ wait(p, "run")

\* pipe(), then two children; without a pipe, panic().
RunPipe(p) ==
    LET r == proc[p]
        fd1 == open(r.fd, End("r", npipe))
        fd2 == open(fd1, End("w", npipe))
    IN  /\ Runs(p, "PIPE")
        /\ \/ /\ npipe' = npipe + 1
              /\ proc' = [proc EXCEPT ![p].pc = "left fork", ![p].fd = fd2,
                                      ![p].pipe = <<Lowest(r.fd), Lowest(fd1)>>]
              /\ UNCHANGED failed
           \/ exit(p) /\ failed' = TRUE /\ UNCHANGED npipe
        /\ UNCHANGED <<buf, line, tree, nproc>>

\* What the descriptors of a child are: p[end] becomes n, and both ends are
\* closed.
Connected(r, n, end) ==
    close(close(dup(close(r.fd, n), r.pipe[end]), r.pipe[1]), r.pipe[2])

PipeLeft(p) ==
    LET r == proc[p] IN
    /\ r.pc = "left fork"
    /\ fork1(p, "run", r.cmd.left, Connected(r, 1, 2), r.back, [r EXCEPT !.pc = "right fork"])
    /\ UNCHANGED buf

PipeRight(p) ==
    LET r == proc[p] IN
    /\ r.pc = "right fork"
    /\ fork1(p, "run", r.cmd.right, Connected(r, 0, 1), r.back, [r EXCEPT !.pc = "close"])
    /\ UNCHANGED buf

\* Fault: the end for writing is left open.
BothEndsLeaky(r) == {r.pipe[1]}

\* The descriptors the parent closes before it waits.
BothEnds(r) == {r.pipe[1], r.pipe[2]}

PipeClose(p) ==
    LET r == proc[p] IN
    /\ r.pc = "close"
    /\ proc' = [proc EXCEPT ![p].pc = "wait both",
                            ![p].fd = [n \in Fds |-> IF n \in BothEnds(r) THEN Closed ELSE @[n]]]
    /\ UNCHANGED <<buf, line, tree, nproc, npipe, failed>>

\* Fault: one wait() is enough.
AfterFirstDone == "exit"

\* Where the first wait() of a pipe leads.
AfterFirst == "wait last"

PipeWait1(p) == proc[p].pc = "wait both" /\ wait(p, AfterFirst)
PipeWait2(p) == proc[p].pc = "wait last" /\ wait(p, "exit")

\* The command in a child nobody waits for.
RunBack(p) ==
    LET r == proc[p] IN
    /\ Runs(p, "BACK")
    /\ fork1(p, "run", r.cmd.cmd, r.fd, TRUE, [r EXCEPT !.pc = "exit"])
    /\ UNCHANGED buf

Exit(p) ==
    /\ proc[p].pc = "exit"
    /\ exit(p)
    /\ UNCHANGED <<buf, line, tree, nproc, npipe, failed>>

\* Somebody can still write to the pipe that p reads from.
MoreInput(p) ==
    LET in == proc[p].fd[0] IN
    in[1] = "r" /\ \E q \in Pids, n \in Fds : proc[q].fd[n] = End("w", in[2])

Program(p) ==
    /\ proc[p].pc = "program" /\ ~MoreInput(p)
    /\ exit(p)
    /\ UNCHANGED <<buf, line, tree, nproc, npipe, failed>>

-----------------------------------------------------------------------------
Step(p) ==
    \/ Main(p) \/ Cd(p) \/ MainWait(p) \/ Parse(p)
    \/ RunExec(p) \/ RunRedir(p) \/ RunList(p) \/ ListWait(p)
    \/ RunPipe(p) \/ PipeLeft(p) \/ PipeRight(p) \/ PipeClose(p)
    \/ PipeWait1(p) \/ PipeWait2(p)
    \/ RunBack(p) \/ Exit(p) \/ Program(p)

Next == \E p \in Pids : Step(p)

\* Every process that can go on does.
Spec == Init /\ [][Next]_vars /\ \A p \in Pids : WF_vars(Step(p))

-----------------------------------------------------------------------------
\* parsecmd() accepts what the grammar derives and builds its only tree, and
\* after nulterminate() every word of the command is the string that was
\* typed.
ParsedRight ==
    proc[1].pc = "getcmd" =>
        /\ Derivations(line) = IF tree = Panic THEN {} ELSE {tree}
        /\ \A w \in Words(tree) :
              String(nulterminate(line, tree), w[1]) = SubSeq(line, w[1], w[2] - 1)

\* The shell prompts again only when everything it ran has exited but the
\* commands in the background, unless a fork(), open() or pipe() failed.
ForegroundDone ==
    proc[1].pc = "done" /\ ~failed =>
        \A p \in Pids \ {1} : proc[p].pc \in {"unused", "gone", "zombie"} \/ proc[p].back

\* And it does prompt again, or exits: nobody keeps the end of a pipe open
\* that another process waits for.
PromptReturns == <>(proc[1].pc \in {"done", "zombie"})
=============================================================================
