--------------------------------- MODULE Fs ---------------------------------
(***************************************************************************)
(* The file-system calls (kernel/sysfile.c, file.c, and namex, iput and    *)
(* writei of fs.c): open, mkdir, mknod, link, unlink, chdir, dup, close,   *)
(* and write, by processes that run them concurrently, and a crash.        *)
(*                                                                         *)
(* A step is what a call does between two points where it can wait or      *)
(* where another process can see its progress: while it holds the lock of  *)
(* an inode nobody else reads that inode, so a lookup is one step, but the *)
(* reference kept from one directory to the next, iput() after iunlock(),  *)
(* and the places that hold one lock and wait for another are steps of     *)
(* their own.                                                              *)
(*                                                                         *)
(* The log commits the calls when the last of those that overlap ends      *)
(* (end_op(), see Log), so a crash takes the disk back to the last state   *)
(* in which no call was running.                                           *)
(***************************************************************************)
EXTENDS Inode, Sequences, SequencesExt

CONSTANTS
    Procs,          \* processes
    Files,          \* entries of the file table
    NOFILE,         \* open files per process
    Workloads       \* sets of calls [call, path, new]; a path is [abs, elems]

VARIABLES
    calls,          \* the calls the programs make, one of Workloads
    pc,             \* where each process is
    loc,            \* the locals of its call
    cwd,            \* p->cwd
    ofile,          \* p->ofile[]
    file,           \* the file table: [ref, ip, writable]
    crashed,        \* there has been a crash
    strayed,        \* history: ".." has led to a directory that is gone
    panicked        \* the message of a kernel panic

fvars == <<cwd, ofile, file>>
vars == <<calls, ivars, pc, loc, fvars, crashed, strayed, panicked>>

Fds == 1..NOFILE
NoFile == "none"
ClosedFile == [ref |-> 0, ip |-> 0, writable |-> FALSE]

\* Locals: the call, the rest of the path, whether its parent is wanted, the
\* inode reached, the directory and the name found; link's inode and second
\* path; the inodes to be dropped next and where to go then.
NoLoc == [call |-> "", path |-> <<>>, parent |-> FALSE, ip |-> 0, dp |-> 0,
          name |-> "", old |-> 0, new |-> [abs |-> FALSE, elems |-> <<>>],
          drop |-> <<>>, then |-> "user"]

\* Every process is in the root directory and has no open files.
Init ==
    /\ calls \in Workloads
    /\ disk = mkfs
    /\ iref = RootRefs(Cardinality(Procs))
    /\ ivalid = [i \in Inums |-> FALSE]
    /\ ilocked = [i \in Inums |-> Nobody]
    /\ pc = [p \in Procs |-> "user"]
    /\ loc = [p \in Procs |-> NoLoc]
    /\ cwd = [p \in Procs |-> ROOTINO]
    /\ ofile = [p \in Procs |-> [fd \in Fds |-> NoFile]]
    /\ file = [f \in Files |-> ClosedFile]
    /\ crashed = FALSE
    /\ strayed = FALSE
    /\ panicked = ""

-----------------------------------------------------------------------------
\* p goes on at "where" with the locals l.
Go(p, where, l) ==
    /\ pc' = [pc EXCEPT ![p] = where]
    /\ loc' = [loc EXCEPT ![p] = l]

Return(p) == Go(p, "user", NoLoc)

\* Unlock, where p holds the lock, and iput() the inodes of s in turn, and
\* go on at "then" with the locals l.
Drop(p, s, then, l) == Go(p, "iput", [l EXCEPT !.drop = s, !.then = then])

\* The call fails once the inodes of s are dropped.
Fail(p, s) == Drop(p, s, "user", NoLoc)

\* The machine halts.
Panic(why) ==
    /\ panicked' = why
    /\ pc' = [q \in Procs |-> "halted"]
    /\ UNCHANGED <<ivars, loc, fvars>>

\* The programs make this call.
Makes(call) == \E s \in calls : s.call = call

Quiet == UNCHANGED <<calls, crashed, strayed, panicked>>

\* The calls of create().
Creates == {"creat", "mkdir", "mknod"}

\* The inode p locks in its next step, 0 for none.
Wants(p) ==
    CASE pc[p] = "walk" /\ loc[p].path # <<>> -> loc[p].ip
      [] pc[p] \in {"open", "trunc", "found", "create2", "link", "unlink2", "chdir"}
                                              -> loc[p].ip
      [] pc[p] \in Creates \cup {"linkdir", "unlink"}
                                              -> loc[p].dp
      [] pc[p] = "linkbad"                    -> loc[p].old
      [] OTHER                                -> 0

\* ilock() of that inode: wait for the lock, and read the inode into memory
\* if its copy is not valid.
ilock(p) == Wants(p) # 0 /\ ilocked[Wants(p)] = Nobody /\ ~NoType(Wants(p))

ilockPanic(p) ==
    /\ Wants(p) # 0 /\ ilocked[Wants(p)] = Nobody /\ NoType(Wants(p))
    /\ Panic("ilock: no type") /\ UNCHANGED <<calls, crashed, strayed>>

\* What the step does to the inode table: it locks Wants(p) and, if "keep",
\* does not unlock it again; and it takes a reference to inode i.
Locks(p, keep) ==
    /\ ivalid' = [ivalid EXCEPT ![Wants(p)] = TRUE]
    /\ ilocked' = IF keep THEN [ilocked EXCEPT ![Wants(p)] = p] ELSE ilocked
    /\ UNCHANGED iref

\* idup() of inode i, or iget() when it is in the table.
idup(i) == [iref EXCEPT ![i] = @ + 1]

\* iget() of an inode that is not in the table gives a copy not yet read.
iget(i, valid) == [valid EXCEPT ![i] = @ /\ iref[i] > 0]

LocksAndGets(p, keep, i) ==
    /\ iref' = idup(i)
    /\ ivalid' = iget(i, [ivalid EXCEPT ![Wants(p)] = TRUE])
    /\ ilocked' = IF keep THEN [ilocked EXCEPT ![Wants(p)] = p] ELSE ilocked

-----------------------------------------------------------------------------
(* Path names: namex().                                                    *)

Dirs == {d \in Inums : Ino(d).type = "DIR"}
NamesOf(i) == {x \in Dirs \X Names : Ino(x[1]).ents[x[2]] = i}
Subdirs(d) == {c \in Dirs : \E n \in Names : d \in Dirs /\ Ino(d).ents[n] = c}

\* ".." of an unlinked directory outlives the directory it names, whose inode
\* may be free by then or be given to somebody else.
Removed(d) == d # ROOTINO /\ NamesOf(d) = {}
Astray(i, n) == n = ".." /\ i \in Dirs /\ Removed(i) /\ Removed(Ino(i).parent)

\* skipelem(): the first element of a path, and the rest of it.
skipelem(path) == [name |-> Head(path), path |-> Tail(path)]

\* Where namex() begins, and the locals of a call that begins a lookup there.
Origin(p, path) == IF path.abs THEN ROOTINO ELSE cwd[p]
Lookup(p, call, path, l) ==
    [l EXCEPT !.call = call, !.path = path.elems, !.ip = Origin(p, path),
              !.parent = call \in Creates \cup {"unlink", "linkdir"}]

\* A call that begins with a path name.
Call(p, s) ==
    LET i == Origin(p, s.path) IN
    /\ pc[p] = "user" /\ s.call \notin {"dup", "write"}
    /\ iref' = idup(i)
    /\ ivalid' = iget(i, ivalid)
    /\ Go(p, "walk", Lookup(p, s.call, s.path, [NoLoc EXCEPT !.new = s.new]))
    /\ UNCHANGED <<disk, ilocked, fvars>> /\ Quiet

\* Fault: a lookup that fails keeps its reference.
WalkFailLeak(p) == Go(p, "user", NoLoc)

\* Where a lookup that fails goes: sys_link() has to take its link back.
WalkFail(p) ==
    IF loc[p].call = "linkdir"
    THEN Drop(p, <<loc[p].ip>>, "linkbad", [loc[p] EXCEPT !.ip = 0])
    ELSE Fail(p, <<loc[p].ip>>)

\* An empty path is the inode itself, which has no parent to return.
WalkEmpty(p) ==
    /\ pc[p] = "walk" /\ loc[p].path = <<>>
    /\ IF loc[p].parent THEN WalkFail(p) ELSE Go(p, loc[p].call, loc[p])
    /\ UNCHANGED <<ivars, fvars>> /\ Quiet

\* One element: stop one level early for the parent, or go on to the next
\* inode and drop this one.
WalkElem(p) ==
    LET l == loc[p]
        i == l.ip
        elem == skipelem(l.path)
        n == elem.name
        next == dirlookup(i, n)
    IN  /\ pc[p] = "walk" /\ ilock(p)
        /\ \/ /\ Ino(i).type # "DIR"
              /\ Locks(p, FALSE)
              /\ WalkFail(p)
           \/ /\ Ino(i).type = "DIR" /\ l.parent /\ Len(l.path) = 1
              /\ Locks(p, FALSE)
              /\ Go(p, l.call, [l EXCEPT !.path = <<>>, !.ip = 0, !.dp = i, !.name = n])
           \/ /\ Ino(i).type = "DIR" /\ ~(l.parent /\ Len(l.path) = 1)
              /\ next = 0
              /\ Locks(p, FALSE)
              /\ WalkFail(p)
           \/ /\ Ino(i).type = "DIR" /\ ~(l.parent /\ Len(l.path) = 1)
              /\ next # 0
              /\ LocksAndGets(p, FALSE, next)
              /\ Drop(p, <<i>>, IF Len(l.path) = 1 THEN l.call ELSE "walk",
                      [l EXCEPT !.path = elem.path, !.ip = next])
        /\ strayed' = (strayed \/ Astray(i, n))
        /\ UNCHANGED <<disk, fvars, calls, crashed, panicked>>

-----------------------------------------------------------------------------
(* iput().                                                                 *)

\* After an iput(): the next one, or what comes then.
Dropped(p) ==
    LET l == loc[p] IN
    IF Len(l.drop) > 1 THEN Go(p, "iput", [l EXCEPT !.drop = Tail(@)])
    ELSE IF l.then = "user" THEN Return(p)
    ELSE Go(p, l.then, [l EXCEPT !.drop = <<>>, !.then = "user"])

\* ref-- of inode i, after p unlocked it.  A copy nobody refers to is not
\* read again: it counts as not valid.
Unref(i, valid) ==
    /\ iref' = [iref EXCEPT ![i] = @ - 1]
    /\ ivalid' = [ivalid EXCEPT ![i] = valid /\ iref[i] > 1]

iput(p) ==
    LET i == Head(loc[p].drop) IN
    /\ pc[p] = "iput" /\ ~LastUse(i)
    /\ Unref(i, ivalid[i])
    /\ ilocked' = IF ilocked[i] = p THEN [ilocked EXCEPT ![i] = Nobody] ELSE ilocked
    /\ UNCHANGED <<disk, fvars>> /\ Quiet
    /\ Dropped(p)

\* The last reference to an inode without links: itrunc(), and type 0 on the
\* disk.  acquiresleep() is called with a spinlock held and must not wait.
iputFree(p) ==
    LET i == Head(loc[p].drop) IN
    /\ pc[p] = "iput" /\ LastUse(i)
    /\ IF ilocked[i] \notin {Nobody, p}
       THEN Panic("sched locks")
       ELSE /\ ilocked' = [ilocked EXCEPT ![i] = p]
            /\ disk' = [itrunc(disk, i) EXCEPT !.inode[i] = FreeInode]
            /\ Go(p, "ifree", loc[p])
            /\ UNCHANGED <<iref, ivalid, fvars, panicked>>
    /\ UNCHANGED <<calls, crashed, strayed>>

\* valid = 0, releasesleep() and ref--.  By now ialloc() may have given the
\* inode to someone else.
iputEnd(p) ==
    LET i == Head(loc[p].drop) IN
    /\ pc[p] = "ifree"
    /\ Unref(i, FALSE)
    /\ ilocked' = [ilocked EXCEPT ![i] = Nobody]
    /\ UNCHANGED <<disk, fvars>> /\ Quiet
    /\ Dropped(p)

-----------------------------------------------------------------------------
(* create() for open(O_CREATE), mkdir and mknod.                           *)

TypeOf(call) == CASE call = "creat" -> "FILE" [] call = "mkdir" -> "DIR" [] OTHER -> "DEVICE"

\* The name exists: drop the directory and look at the inode.
CreateFound(p) ==
    LET l == loc[p]
        i == dirlookup(l.dp, l.name)
    IN  /\ pc[p] \in Creates /\ ilock(p)
        /\ i # 0
        /\ LocksAndGets(p, FALSE, i)
        /\ Drop(p, <<l.dp>>, "found", [l EXCEPT !.ip = i, !.dp = 0])
        /\ UNCHANGED <<disk, fvars>> /\ Quiet

\* ialloc(), with the directory locked.
CreateAlloc(p) ==
    LET l == loc[p]
        i == Min(FreeInodes(disk))
    IN  /\ pc[p] \in Creates /\ ilock(p)
        /\ dirlookup(l.dp, l.name) = 0
        /\ \/ /\ FreeInodes(disk) = {}
              /\ Locks(p, FALSE)
              /\ Fail(p, <<l.dp>>)
              /\ UNCHANGED disk
           \/ /\ FreeInodes(disk) # {}
              /\ disk' = [disk EXCEPT !.inode[i].type = TypeOf(l.call)]
              /\ LocksAndGets(p, TRUE, i)
              /\ Go(p, "create2", [l EXCEPT !.ip = i])
        /\ UNCHANGED fvars /\ Quiet

\* Lock the new inode, give it a link, make "." and "..", and enter it in
\* the directory; without a block for that, nlink = 0 and drop it again.
CreateInode(p) ==
    LET l == loc[p]
        d1 == [disk EXCEPT !.inode[l.ip].nlink = 1]
        isdir == l.call = "mkdir"
        d2 == IF isdir THEN dirinit(d1, l.ip, l.dp) ELSE d1
        made == isdir => CanInit(d1, l.ip)
        d3 == IF made THEN dirlink(d2, l.dp, l.name, l.ip) ELSE d2
        linked == made /\ CanLink(d2, l.dp)
    IN  /\ pc[p] = "create2" /\ ilock(p)
        /\ Locks(p, TRUE)
        /\ \/ /\ linked
              /\ disk' = IF isdir THEN [d3 EXCEPT !.inode[l.dp].nlink = @ + 1] ELSE d3
              /\ IF l.call = "creat"
                 THEN Drop(p, <<l.dp>>, "opened", [l EXCEPT !.dp = 0])
                 ELSE Drop(p, <<l.dp, l.ip>>, "user", NoLoc)
           \/ /\ ~linked
              /\ disk' = [d3 EXCEPT !.inode[l.ip].nlink = 0]
              /\ Fail(p, <<l.ip, l.dp>>)
        /\ UNCHANGED fvars /\ Quiet

-----------------------------------------------------------------------------
(* open.                                                                   *)

\* A directory is opened only for reading, and O_CREATE wants a file or a
\* device.
Refused(p) ==
    \/ pc[p] = "trunc" /\ Ino(loc[p].ip).type = "DIR"
    \/ pc[p] = "found" /\ (loc[p].call # "creat" \/ Ino(loc[p].ip).type = "DIR")

\* A device is also refused when its number is out of range.
OpenRefused(p) ==
    /\ pc[p] \in {"open", "trunc", "found"} /\ ilock(p)
    /\ Refused(p) \/ Ino(loc[p].ip).type = "DEVICE"
    /\ Locks(p, FALSE)
    /\ Fail(p, <<loc[p].ip>>)
    /\ UNCHANGED <<disk, fvars>> /\ Quiet

FreeFiles == {f \in Files : file[f].ref = 0}
FreeFds(p) == {fd \in Fds : ofile[p][fd] = NoFile}

\* filealloc() and fdalloc() with the inode locked; O_TRUNC empties a file.
OpenFile(p) ==
    LET i == loc[p].ip
        f == CHOOSE x \in FreeFiles : TRUE
    IN  /\ \/ pc[p] \in {"open", "trunc", "found"} /\ ilock(p) /\ ~Refused(p)
           \/ pc[p] = "opened"
        /\ ivalid' = [ivalid EXCEPT ![i] = TRUE]
        /\ IF FreeFiles # {} /\ FreeFds(p) # {}
           THEN /\ file' = [file EXCEPT ![f] = [ref |-> 1, ip |-> i, writable |-> loc[p].call # "open"]]
                /\ ofile' = [ofile EXCEPT ![p][Min(FreeFds(p))] = f]
                /\ disk' = IF loc[p].call = "trunc" /\ Ino(i).type = "FILE"
                           THEN itrunc(disk, i) ELSE disk
                /\ ilocked' = [ilocked EXCEPT ![i] = Nobody]
                /\ Return(p)
           ELSE /\ ilocked' = [ilocked EXCEPT ![i] = p]
                /\ Fail(p, <<i>>)
                /\ UNCHANGED <<disk, file, ofile>>
        /\ UNCHANGED <<iref, cwd>> /\ Quiet

-----------------------------------------------------------------------------
(* link and unlink.                                                        *)

\* The first half of sys_link(): one more link, then look up the new parent.
Link(p) ==
    LET l == loc[p] IN
    /\ pc[p] = "link" /\ ilock(p)
    /\ \/ /\ Ino(l.ip).type = "DIR"
          /\ Locks(p, FALSE)
          /\ Fail(p, <<l.ip>>)
          /\ UNCHANGED disk
       \/ /\ Ino(l.ip).type # "DIR"
          /\ disk' = [disk EXCEPT !.inode[l.ip].nlink = @ + 1]
          /\ LocksAndGets(p, FALSE, Origin(p, l.new))
          /\ Go(p, "walk", Lookup(p, "linkdir", l.new, [l EXCEPT !.old = l.ip]))
    /\ UNCHANGED fvars /\ Quiet

\* The entry, if the name is free and there is a block for it; dirlink()
\* gets and puts the inode of a name that exists.
LinkDir(p) ==
    LET l == loc[p]
        i == dirlookup(l.dp, l.name)
    IN  /\ pc[p] = "linkdir" /\ ilock(p)
        /\ \/ /\ i \notin {0, l.dp}
              /\ LocksAndGets(p, TRUE, i)
              /\ Drop(p, <<i, l.dp>>, "linkbad", [l EXCEPT !.dp = 0])
              /\ UNCHANGED disk
           \/ /\ i = l.dp
              /\ Locks(p, TRUE)
              /\ Drop(p, <<l.dp>>, "linkbad", [l EXCEPT !.dp = 0])
              /\ UNCHANGED disk
           \/ /\ i = 0
              /\ Locks(p, TRUE)
              /\ disk' = dirlink(disk, l.dp, l.name, l.old)
              /\ IF CanLink(disk, l.dp)
                 THEN Drop(p, <<l.dp, l.old>>, "user", NoLoc)
                 ELSE Drop(p, <<l.dp>>, "linkbad", [l EXCEPT !.dp = 0])
        /\ UNCHANGED fvars /\ Quiet

\* bad: take the link back.
LinkBad(p) ==
    /\ pc[p] = "linkbad" /\ ilock(p)
    /\ disk' = [disk EXCEPT !.inode[loc[p].old].nlink = @ - 1]
    /\ Locks(p, TRUE)
    /\ Fail(p, <<loc[p].old>>)
    /\ UNCHANGED fvars /\ Quiet

\* Fault: "." can be unlinked.
UnlinkableAny(n) == n # ".."

\* Cannot unlink "." or "..".
Unlinkable(n) == n \notin {".", ".."}

\* Fault: the directory loses a link for every name.
UnlinkedAny(l) ==
    [disk EXCEPT !.inode[l.dp].ents[l.name] = 0,
                 !.inode[l.dp].nlink = @ - 1,
                 !.inode[l.ip].nlink = @ - 1]

\* The disk when the entry is cleared and the links are counted down.
Unlinked(l) ==
    [disk EXCEPT !.inode[l.dp].ents[l.name] = 0,
                 !.inode[l.dp].nlink = IF Ino(l.ip).type = "DIR" THEN @ - 1 ELSE @,
                 !.inode[l.ip].nlink = @ - 1]

\* sys_unlink(): find the entry, and keep the directory locked.
Unlink(p) ==
    LET l == loc[p]
        i == dirlookup(l.dp, l.name)
    IN  /\ pc[p] = "unlink" /\ ilock(p)
        /\ \/ /\ ~Unlinkable(l.name) \/ i = 0
              /\ Locks(p, FALSE)
              /\ Fail(p, <<l.dp>>)
           \/ /\ Unlinkable(l.name) /\ i # 0
              /\ LocksAndGets(p, TRUE, i)
              /\ Go(p, "unlink2", [l EXCEPT !.ip = i])
        /\ UNCHANGED <<disk, fvars>> /\ Quiet

\* Lock the inode as well; a directory must be empty.
UnlinkInode(p) ==
    LET l == loc[p]
        isdir == Ino(l.ip).type = "DIR"
    IN  /\ pc[p] = "unlink2" /\ ilock(p)
        /\ IF Ino(l.ip).nlink < 1
           THEN Panic("unlink: nlink < 1")
           ELSE /\ Locks(p, TRUE)
                /\ \/ /\ isdir /\ ~isdirempty(l.ip)
                      /\ Fail(p, <<l.ip, l.dp>>)
                      /\ UNCHANGED disk
                   \/ /\ isdir => isdirempty(l.ip)
                      /\ disk' = Unlinked(l)
                      /\ Drop(p, <<l.dp, l.ip>>, "user", NoLoc)
                /\ UNCHANGED <<fvars, panicked>>
        /\ UNCHANGED <<calls, crashed, strayed>>

-----------------------------------------------------------------------------
(* chdir, and the calls on open files.                                     *)

Chdir(p) ==
    LET i == loc[p].ip IN
    /\ pc[p] = "chdir" /\ ilock(p)
    /\ Locks(p, FALSE)
    /\ \/ Ino(i).type # "DIR" /\ Fail(p, <<i>>) /\ UNCHANGED cwd
       \/ /\ Ino(i).type = "DIR"
          /\ cwd' = [cwd EXCEPT ![p] = i]
          /\ Drop(p, <<cwd[p]>>, "user", NoLoc)
    /\ UNCHANGED <<disk, ofile, file>> /\ Quiet

\* argfd(): the descriptor is that of an open file.
argfd(p, fd) == ofile[p][fd] # NoFile

filedup(f) == file' = [file EXCEPT ![f].ref = @ + 1]

\* sys_dup(), when there is a descriptor left.
Dup(p, fd) ==
    LET f == ofile[p][fd] IN
    /\ pc[p] = "user" /\ Makes("dup") /\ argfd(p, fd)
    /\ FreeFds(p) # {}
    /\ ofile' = [ofile EXCEPT ![p][Min(FreeFds(p))] = f]
    /\ filedup(f)
    /\ UNCHANGED <<ivars, pc, loc, cwd>> /\ Quiet

\* The last close drops the inode, in a transaction.
fileclose(p, f) ==
    \/ /\ file[f].ref > 1
       /\ file' = [file EXCEPT ![f].ref = @ - 1]
       /\ UNCHANGED <<pc, loc>>
    \/ /\ file[f].ref = 1
       /\ file' = [file EXCEPT ![f] = ClosedFile]
       /\ Drop(p, <<file[f].ip>>, "user", NoLoc)

\* sys_close()
Close(p, fd) ==
    /\ pc[p] = "user" /\ argfd(p, fd)
    /\ ofile' = [ofile EXCEPT ![p][fd] = NoFile]
    /\ fileclose(p, ofile[p][fd])
    /\ UNCHANGED <<ivars, cwd>> /\ Quiet

\* filewrite() of one block, at an offset anywhere up to the end: reads have
\* moved it there.  writei() refuses a file that is full.
filewrite(i) ==
    /\ ilocked[i] = Nobody
    /\ \E bn \in 0 .. Min({Ino(i).size, MAXFILE - 1}) : disk' \in writei(disk, i, bn)

\* sys_write()
Write(p, fd) ==
    LET f == file[ofile[p][fd]] IN
    /\ pc[p] = "user" /\ Makes("write") /\ argfd(p, fd)
    /\ f.writable /\ Ino(f.ip).type = "FILE"
    /\ filewrite(f.ip)
    /\ Return(p)
    /\ UNCHANGED <<iref, ivalid, ilocked, fvars>> /\ Quiet

-----------------------------------------------------------------------------
\* The machine stops and starts again with the disk of the last commit: what
\* calls have done since nothing was running is lost with the memory.
Crash ==
    /\ \A p \in Procs : pc[p] = "user"
    /\ crashed' = TRUE
    /\ iref' = RootRefs(Cardinality(Procs))
    /\ ivalid' = [i \in Inums |-> FALSE]
    /\ ilocked' = [i \in Inums |-> Nobody]
    /\ cwd' = [p \in Procs |-> ROOTINO]
    /\ ofile' = [p \in Procs |-> [fd \in Fds |-> NoFile]]
    /\ file' = [f \in Files |-> ClosedFile]
    /\ UNCHANGED <<disk, pc, loc, calls, strayed, panicked>>

Step(p) ==
    \/ ilockPanic(p)
    \/ WalkEmpty(p) \/ WalkElem(p)
    \/ iput(p) \/ iputFree(p) \/ iputEnd(p)
    \/ CreateFound(p) \/ CreateAlloc(p) \/ CreateInode(p)
    \/ OpenRefused(p) \/ OpenFile(p)
    \/ Link(p) \/ LinkDir(p) \/ LinkBad(p)
    \/ Unlink(p) \/ UnlinkInode(p)
    \/ Chdir(p)
    \/ \E s \in calls : Call(p, s)
    \/ \E fd \in Fds : Dup(p, fd) \/ Close(p, fd) \/ Write(p, fd)

Next == Crash \/ \E p \in Procs : Step(p)

Spec == Init /\ [][Next]_vars

-----------------------------------------------------------------------------
(* Properties.                                                             *)

\* The pointers that p's call holds: the inode or the directory it has
\* reached, the one link() is at, and those it is about to drop.
Pointers(p) == <<loc[p].ip, loc[p].dp, loc[p].old>> \o loc[p].drop
Held(p, i) == {k \in DOMAIN Pointers(p) : Pointers(p)[k] = i}

\* "ip->ref tracks the number of in-memory pointers to the entry" (fs.c): the
\* count is exact in every interleaving of the calls and on every error path,
\* so no inode is dropped twice or kept in the table for ever.
InodeRefsExact ==
    \A i \in Inums :
        iref[i] = Cardinality({p \in Procs : cwd[p] = i})
                + Cardinality({f \in Files : file[f].ref > 0 /\ file[f].ip = i})
                + Cardinality(UNION {{p} \X Held(p, i) : p \in Procs})

\* nlink is never less than the names of the inode plus the ".." of its
\* subdirectories, a directory has one name and its ".." leads to the
\* directory of that name: create(), sys_link() and sys_unlink() keep it so
\* in every interleaving and across a crash.  So iput() frees no inode that
\* has a name, and no name leads to somebody else's file.
LinksCounted ==
    strayed \/ \A i \in Inums :
        /\ Ino(i).nlink >= Cardinality(NamesOf(i)) + Cardinality(Subdirs(i))
        /\ \A c \in Subdirs(i) : Cardinality(NamesOf(c)) = 1 /\ Ino(c).parent = i

\* An inode without links is freed by whoever drops it last, however the
\* unlink and the last close meet: unless a crash came in between, none is
\* left allocated that nobody can reach.
Reclaimed ==
    \A i \in Inums :
        Ino(i).type # "free" /\ Ino(i).nlink = 0 /\ iref[i] = 0 => crashed

\* Every block is free or belongs to one inode's addrs[], also after writes
\* and directory entries that failed half way and after a crash.
BlocksExact ==
    disk.nfree + Cardinality(UNION {{i} \X Ino(i).addrs : i \in Inums}) = NBLOCKS

\* The assertions of fs.c and sysfile.c hold: iput() does not wait with
\* itable.lock held ("so this acquiresleep() won't block"), unlink meets no
\* inode without links, and ilock() none that is free.  Only ".." of a
\* removed directory can lead to such an inode.
NoFsPanic == strayed \/ panicked = ""

\* Processes that hold an inode's lock while they lock another never wait
\* for one another in a circle, nor for themselves.
NoLockCycle ==
    \A S \in SUBSET Procs \ {{}} : \E p \in S :
        \/ Wants(p) = 0
        \/ ilocked[Wants(p)] \notin S
=============================================================================
