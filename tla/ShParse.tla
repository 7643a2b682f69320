------------------------------ MODULE ShParse ------------------------------
(***************************************************************************)
(* The parser of the shell (user/sh.c), as operators on the line it reads. *)
(*                                                                         *)
(* A line is a sequence of characters: " " for white space, the symbols,   *)
(* and anything else for the characters of words.  Positions start at 1;   *)
(* position Len + 1 (es in the code) holds the terminating NUL.  A word is *)
(* the pair <<q, eq>> of its first position and the one after its last.    *)
(* The parse functions take the position *ps and return the new one with   *)
(* the command; panic() is the command Panic.                              *)
(***************************************************************************)
EXTENDS Naturals, Sequences, FiniteSetsExt, SequencesExt, TLC

CONSTANT MAXARGS

symbols == {"<", "|", ">", "&", ";", "(", ")"}
NUL == "nul"

At(b, i) == IF i <= Len(b) THEN b[i] ELSE NUL

\* The constructors.
execcmd(argv) == [type |-> "EXEC", argv |-> argv]
redircmd(cmd, r) == [type |-> "REDIR", cmd |-> cmd, file |-> r.file, mode |-> r.mode]
pipecmd(left, right) == [type |-> "PIPE", left |-> left, right |-> right]
listcmd(left, right) == [type |-> "LIST", left |-> left, right |-> right]
backcmd(cmd) == [type |-> "BACK", cmd |-> cmd]
Panic == [type |-> "PANIC"]

Failed(r) == r.cmd = Panic
Failure == [s |-> 0, cmd |-> Panic]

-----------------------------------------------------------------------------
\* The next position that is not white space.
Skip(b, i) == Min({j \in i .. Len(b) + 1 : At(b, j) # " "})

EndOfWord(b, i) == Min({j \in i .. Len(b) + 1 : At(b, j) \in symbols \cup {" ", NUL}})

\* gettoken(): the token ("a" for a word, "+" for ">>"), where it begins and
\* ends, and the position after the white space that follows.
gettoken(b, i) ==
    LET s == Skip(b, i)
        c == At(b, s)
        append == c = ">" /\ At(b, s + 1) = ">"
        e == CASE c = NUL                 -> s
               [] append                  -> s + 2
               [] c \in symbols /\ ~append -> s + 1
               [] OTHER                   -> EndOfWord(b, s)
    IN  [tok |-> IF append THEN "+" ELSE IF c \in symbols \cup {NUL} THEN c ELSE "a",
         word |-> <<s, e>>, s |-> Skip(b, e)]

peek(b, i, toks) == At(b, Skip(b, i)) \in toks

-----------------------------------------------------------------------------
(* The parse functions call one another: P["pipe", i] is what parsepipe()  *)
(* returns when it is called at position i, and so on.                     *)

\* The loop of parseredirs(): the redirections at i, first one first.
redirs(b, i, P) ==
    LET t == gettoken(b, i)
        f == gettoken(b, t.s)
    IN  IF ~peek(b, i, {"<", ">"}) THEN [s |-> i, ok |-> TRUE, list |-> <<>>]
        ELSE IF f.tok # "a" THEN [s |-> i, ok |-> FALSE, list |-> <<>>]
        ELSE [P["redirs", f.s] EXCEPT !.list = <<[file |-> f.word, mode |-> t.tok]>> \o @]

\* Each redirection goes around the command so far.
Around(cmd, list) == FoldLeft(redircmd, cmd, list)

\* The loop of parseexec(): words, and the redirections after each.
args(b, i, P) ==
    LET t == gettoken(b, i)
        r == P["redirs", t.s]
        more == P["args", r.s]
    IN  IF peek(b, i, {"|", ")", "&", ";"}) \/ t.tok = NUL
        THEN [s |-> i, ok |-> TRUE, argv |-> <<>>, list |-> <<>>]
        ELSE IF t.tok # "a" \/ ~r.ok
        THEN [s |-> i, ok |-> FALSE, argv |-> <<>>, list |-> <<>>]
        ELSE [more EXCEPT !.argv = <<t.word>> \o @, !.list = r.list \o @]

parseblock(b, i, P) ==
    LET line == P["line", gettoken(b, i).s]
        r == P["redirs", gettoken(b, line.s).s]
    IN  IF Failed(line) \/ ~peek(b, line.s, {")"}) \/ ~r.ok THEN Failure
        ELSE [s |-> r.s, cmd |-> Around(line.cmd, r.list)]

\* parseexec(); argv[] has room for MAXARGS - 1 words and a null pointer.
parseexec(b, i, P) ==
    LET r == P["redirs", i]
        a == P["args", r.s]
    IN  IF peek(b, i, {"("}) THEN parseblock(b, i, P)
        ELSE IF ~r.ok \/ ~a.ok \/ Len(a.argv) >= MAXARGS THEN Failure
        ELSE [s |-> a.s, cmd |-> Around(execcmd(a.argv), r.list \o a.list)]

parsepipe(b, i, P) ==
    LET left == P["exec", i]
        right == P["pipe", gettoken(b, left.s).s]
    IN  IF Failed(left) \/ ~peek(b, left.s, {"|"}) THEN left
        ELSE IF Failed(right) THEN Failure
        ELSE [right EXCEPT !.cmd = pipecmd(left.cmd, @)]

\* The "&" of the loop in parseline().
amps(b, i, P) ==
    IF peek(b, i, {"&"}) THEN [P["amps", gettoken(b, i).s] EXCEPT !.list = Append(@, "&")]
    ELSE [s |-> i, list |-> <<>>]

parseline(b, i, P) ==
    LET pipe == P["pipe", i]
        amp == P["amps", pipe.s]
        cmd == FoldLeft(LAMBDA c, x : backcmd(c), pipe.cmd, amp.list)
        right == P["line", gettoken(b, amp.s).s]
    IN  IF Failed(pipe) THEN Failure
        ELSE IF ~peek(b, amp.s, {";"}) THEN [s |-> amp.s, cmd |-> cmd]
        ELSE IF Failed(right) THEN Failure
        ELSE [right EXCEPT !.cmd = listcmd(cmd, @)]

Parsers == {"redirs", "args", "exec", "pipe", "amps", "line"}

\* The parse functions of the line b.
parse(b) ==
    LET P[f \in Parsers, i \in 1 .. Len(b) + 1] ==
            CASE f = "redirs" -> redirs(b, i, P)
              [] f = "args"   -> args(b, i, P)
              [] f = "exec"   -> parseexec(b, i, P)
              [] f = "pipe"   -> parsepipe(b, i, P)
              [] f = "amps"   -> amps(b, i, P)
              [] f = "line"   -> parseline(b, i, P)
    IN  P

\* The words of a command.
RECURSIVE Words(_)
Words(cmd) ==
    CASE cmd.type = "EXEC"              -> ToSet(cmd.argv)
      [] cmd.type = "REDIR"             -> Words(cmd.cmd) \cup {cmd.file}
      [] cmd.type \in {"PIPE", "LIST"}  -> Words(cmd.left) \cup Words(cmd.right)
      [] cmd.type = "BACK"              -> Words(cmd.cmd)
      [] OTHER                          -> {}

\* nulterminate(): the line with a NUL after each word.
nulterminate(b, cmd) ==
    [i \in 1 .. Len(b) |-> IF i \in {w[2] : w \in Words(cmd)} THEN NUL ELSE b[i]]

\* Fault: what is left over is ignored.
parsecmdPrefix(b) == parse(b)["line", 1].cmd

\* parsecmd(): nothing may be left over.
parsecmd(b) ==
    LET r == parse(b)["line", 1] IN
    IF Failed(r) \/ Skip(b, r.s) # Len(b) + 1 THEN Panic ELSE r.cmd

-----------------------------------------------------------------------------
(* What the parser is to accept: the grammar                               *)
(*   line = back [ ";" line ]      back = pipe | back "&"                  *)
(*   pipe = exec [ "|" pipe ]                                              *)
(*   exec = "(" line ")" redirs | words and redirections in any order      *)
(* D[<<rule, i, j>>] is the set of derivations of the tokens i .. j - 1.   *)

RECURSIVE Tokens(_, _)
Tokens(b, i) ==
    LET t == gettoken(b, i) IN IF t.tok = NUL THEN <<>> ELSE <<t>> \o Tokens(b, t.s)

IsRedir(ts, k) == ts[k].tok \in {"<", ">", "+"}

\* Tokens i .. j - 1 are words and redirections with their file names.
IsSimple(ts, i, j) ==
    \A k \in i .. j - 1 :
        ts[k].tok = "a" \/ (IsRedir(ts, k) /\ k + 1 < j /\ ts[k + 1].tok = "a")

Redirections(ts, i, j) ==
    LET at == SetToSortSeq({k \in i .. j - 1 : IsRedir(ts, k)}, <) IN
    [n \in DOMAIN at |-> [file |-> ts[at[n] + 1].word, mode |-> ts[at[n]].tok]]

Arguments(ts, i, j) ==
    LET at == SetToSortSeq({k \in i .. j - 1 : ts[k].tok = "a" /\ (k = i \/ ~IsRedir(ts, k - 1))}, <)
    IN  [n \in DOMAIN at |-> ts[at[n]].word]

Execs(ts, i, j, D) ==
    {Around(execcmd(argv), Redirections(ts, i, j)) :
        argv \in {a \in {Arguments(ts, i, j)} : IsSimple(ts, i, j) /\ Len(a) < MAXARGS}}
    \cup UNION {{Around(c, Redirections(ts, k + 1, j)) : c \in D[<<"line", i + 1, k>>]} :
                k \in {n \in i + 1 .. j - 1 :
                         /\ ts[i].tok = "(" /\ ts[n].tok = ")"
                         /\ IsSimple(ts, n + 1, j) /\ Arguments(ts, n + 1, j) = <<>>}}

Pipes(ts, i, j, D) ==
    D[<<"exec", i, j>>] \cup
    UNION {{pipecmd(l, r) : l \in D[<<"exec", i, k>>], r \in D[<<"pipe", k + 1, j>>]} :
           k \in {n \in i .. j - 1 : ts[n].tok = "|"}}

Backs(ts, i, j, D) ==
    D[<<"pipe", i, j>>] \cup
    IF i < j /\ ts[j - 1].tok = "&" THEN {backcmd(c) : c \in D[<<"back", i, j - 1>>]} ELSE {}

LinesOf(ts, i, j, D) ==
    D[<<"back", i, j>>] \cup
    UNION {{listcmd(l, r) : l \in D[<<"back", i, k>>], r \in D[<<"line", k + 1, j>>]} :
           k \in {n \in i .. j - 1 : ts[n].tok = ";"}}

\* D, from the shorter intervals to the longer ones.
Kinds == <<"exec", "pipe", "back", "line">>
Derivations(b) ==
    LET ts == Tokens(b, 1)
        N == Len(ts)
        trees(D, k, i, j) ==
            CASE k = "exec" -> Execs(ts, i, j, D)
              [] k = "pipe" -> Pipes(ts, i, j, D)
              [] k = "back" -> Backs(ts, i, j, D)
              [] k = "line" -> LinesOf(ts, i, j, D)
        longer(D, x) ==
            [k \in {<<x[1], i, i + x[2]>> : i \in 1 .. N + 1 - x[2]} |->
                trees(D, k[1], k[2], k[3])] @@ D
    IN  FoldLeft(longer, <<>>, [n \in 1 .. 4 * (N + 1) |->
                     <<Kinds[1 + ((n - 1) % 4)], (n - 1) \div 4>>])[<<"line", 1, N + 1>>]

\* The string at position q of a buffer.
String(b, q) == SubSeq(b, q, Min({j \in q .. Len(b) + 1 : At(b, j) = NUL}) - 1)
=============================================================================
