-------------------------------- MODULE MCFs --------------------------------
(* Two processes, three inodes, four blocks: the root directory and two    *)
(* files or directories.  Each workload is explored without a bound.       *)
EXTENDS Fs, TLC

CONSTANTS p1, p2, f1

Rel(s) == [abs |-> FALSE, elems |-> s]
Abs(s) == [abs |-> TRUE, elems |-> s]
Sys(c, s) == [call |-> c, path |-> s, new |-> Rel(<<>>)]

MCNames == {"a", "b"}

LinkTo(s, t) == [call |-> "link", path |-> s, new |-> t]

\* Directories made, entered and removed under one another.
Directories ==
    {Sys("mkdir", Rel(<<"b">>)), Sys("unlink", Rel(<<"b">>)), Sys("unlink", Abs(<<"b">>)),
     Sys("chdir", Rel(<<"b">>)), Sys("chdir", Rel(<<"..">>))}

\* A file with two names, opened while it is linked and unlinked.
Links ==
    {Sys("creat", Abs(<<"a">>)), LinkTo(Abs(<<"a">>), Abs(<<"b">>)),
     Sys("unlink", Abs(<<"a">>)), Sys("unlink", Abs(<<"b">>))}

\* A file in a directory that is removed, with a name outside it.
Subdirectory ==
    {Sys("mkdir", Abs(<<"b">>)), Sys("unlink", Abs(<<"b">>)),
     Sys("creat", Abs(<<"b", "a">>)), Sys("unlink", Abs(<<"b", "a">>)),
     LinkTo(Abs(<<"b", "a">>), Abs(<<"a">>))}

\* A file written, truncated and removed, until the disk is full.
Truncation ==
    {Sys("creat", Abs(<<"a">>)), Sys("write", Rel(<<>>)), Sys("trunc", Abs(<<"a">>)),
     Sys("unlink", Abs(<<"a">>))}

\* A file takes the blocks that a link or a directory needs.
FullLinks ==
    {Sys("creat", Abs(<<"a">>)), Sys("write", Rel(<<>>)), Sys("mkdir", Abs(<<"b">>)),
     LinkTo(Abs(<<"a">>), Abs(<<"b">>))}

\* A device, dup, and paths that lead nowhere.
Refusals ==
    {Sys("mknod", Rel(<<"a">>)), Sys("unlink", Rel(<<"a">>)),
     Sys("open", Rel(<<"a">>)), Sys("dup", Rel(<<>>)),
     Sys("open", Rel(<<"a", "b">>)), Sys("trunc", Abs(<<>>)),
     Sys("chdir", Rel(<<"a">>)), Sys("unlink", Abs(<<>>)), Sys("unlink", Rel(<<".">>)),
     LinkTo(Abs(<<>>), Rel(<<"b">>)), LinkTo(Rel(<<"a">>), Rel(<<".">>)),
     LinkTo(Rel(<<"a">>), Rel(<<"b", "a">>))}

MCWorkloads == {Directories, Links, Subdirectory, Truncation, FullLinks, Refusals}

Sym == Permutations({p1, p2})
=============================================================================
