------------------------------- MODULE Inode -------------------------------
(***************************************************************************)
(* Inodes and their blocks (kernel/fs.c): the disk inodes, the bitmap of   *)
(* free blocks, and the table of inodes in memory with its reference       *)
(* counts, valid flags and sleep locks.                                    *)
(*                                                                         *)
(* The disk is what the buffer cache and the log show to a transaction.    *)
(* A disk inode is its type (0 when free), its number of links, its size   *)
(* and the set of its addrs[] that are not 0; a directory also has its     *)
(* entries, and ".." as "parent".  Sizes are in blocks for files and in    *)
(* entries for directories.  Contents of files are left out, and free      *)
(* blocks are only counted.  An entry of the table is known by its inode   *)
(* number, and there are as many as are needed.  A valid copy in memory is *)
(* equal to the disk inode, because every change is followed by iupdate()  *)
(* under the same lock.                                                    *)
(***************************************************************************)
EXTENDS Integers, FiniteSets, FiniteSetsExt

CONSTANTS
    NINODES,        \* inodes on the disk, 1 is the root directory
    NBLOCKS,        \* data blocks on the disk
    NDIRECT,        \* direct blocks of an inode
    NINDIRECT,      \* entries of its indirect block
    DPB,            \* directory entries in a block
    Names           \* names of files, other than "." and ".."

ASSUME InodeAssumption ==
    /\ NINODES \in Nat \ {0} /\ NBLOCKS \in Nat \ {0}
    /\ NDIRECT \in Nat \ {0} /\ NINDIRECT \in Nat
    /\ DPB \in Nat \ 0..2

VARIABLES
    disk,       \* [inode : the disk inodes, nfree : free blocks]
    iref,       \* ip->ref of the table entry of each inode, 0 if it has none
    ivalid,     \* ip->valid
    ilocked     \* who holds ip->lock

ivars == <<disk, iref, ivalid, ilocked>>

ROOTINO == 1
Inums == 1..NINODES
Nobody == "nobody"

\* The index in addrs[] of the indirect block; the blocks it lists follow.
IND == NDIRECT
Addrs == 0 .. (NDIRECT + NINDIRECT)
MAXFILE == NDIRECT + NINDIRECT

NoEntries == [n \in Names |-> 0]
FreeInode == [type |-> "free", nlink |-> 0, size |-> 0, addrs |-> {},
              parent |-> 0, ents |-> NoEntries]

\* mkfs: an empty root directory, whose size is made that of whole blocks.
mkfs ==
    [inode |-> [i \in Inums |->
        IF i = ROOTINO
        THEN [FreeInode EXCEPT !.type = "DIR", !.nlink = 1, !.size = ((2 \div DPB) + 1) * DPB,
                               !.addrs = {0}, !.parent = ROOTINO]
        ELSE FreeInode],
     nfree |-> NBLOCKS - 1]

\* The table when n processes have just started in the root directory.
RootRefs(n) == [i \in Inums |-> IF i = ROOTINO THEN n ELSE 0]

Ino(i) == disk.inode[i]

-----------------------------------------------------------------------------
(* Blocks: d is a disk, i an inode of it.                                  *)

\* What bmap() allocates for the nth block: the indirect block before it
\* where there is none.
Needed(d, i, bn) ==
    (IF bn < NDIRECT THEN {bn} ELSE {IND, bn + 1}) \ d.inode[i].addrs

\* balloc() takes a block for each, until there is none.
Got(d, i, bn) ==
    LET need == Needed(d, i, bn) IN
    IF Cardinality(need) <= d.nfree THEN need
    ELSE IF d.nfree = 0 THEN {} ELSE {Min(need)}

Mapped(d, i, bn) == Needed(d, i, bn) \subseteq Got(d, i, bn)

bmap(d, i, bn) ==
    [inode |-> [d.inode EXCEPT ![i].addrs = @ \cup Got(d, i, bn)],
     nfree |-> d.nfree - Cardinality(Got(d, i, bn))]

\* bfree() of the blocks at the places in addrs[] that "gone" lists.
bfree(d, i, gone) ==
    [inode |-> [d.inode EXCEPT ![i].addrs = @ \ gone],
     nfree |-> d.nfree + Cardinality(gone)]

\* Fault: the indirect block itself is not freed.
itruncDirect(d, i) ==
    [bfree(d, i, d.inode[i].addrs \ {IND}) EXCEPT !.inode[i].addrs = {}, !.inode[i].size = 0]

itrunc(d, i) ==
    [bfree(d, i, d.inode[i].addrs) EXCEPT !.inode[i].size = 0]

\* writei() of the nth block of a file, which may be the one after the last:
\* the disks it may leave.  It stops without a block and when the copy from
\* the process fails, but keeps a block it has allocated.
writei(d, i, bn) ==
    LET b == bmap(d, i, bn) IN
    {b} \cup {[x EXCEPT !.inode[i].size = Max({@, bn + 1})] :
                  x \in {y \in {b} : Mapped(d, i, bn)}}

-----------------------------------------------------------------------------
(* Directories.                                                            *)

\* dirlookup()
dirlookup(i, n) ==
    CASE n = "."  -> i
      [] n = ".." -> Ino(i).parent
      [] OTHER    -> Ino(i).ents[n]

Entries(d, i) == {n \in Names : d.inode[i].ents[n] # 0}

isdirempty(i) == Entries(disk, i) = {}

\* The slot dirlink() writes: a free one, or one more at the end.
FreeSlot(d, i) ==
    LET used == 2 + Cardinality(Entries(d, i)) IN
    IF used < d.inode[i].size THEN 0 ELSE d.inode[i].size

\* dirlink() of an absent name fails when there is no block for the entry.
CanLink(d, i) == Mapped(d, i, FreeSlot(d, i) \div DPB)

dirlink(d, i, n, inum) ==
    LET b == bmap(d, i, FreeSlot(d, i) \div DPB) IN
    IF CanLink(d, i)
    THEN [b EXCEPT !.inode[i].ents[n] = inum,
                   !.inode[i].size = IF FreeSlot(d, i) = 0 THEN @ ELSE @ + 1]
    ELSE b

\* dirlink() of "." and ".." in a new directory, whose parent is "up".
CanInit(d, i) == Mapped(d, i, 0)
dirinit(d, i, up) ==
    [bmap(d, i, 0) EXCEPT !.inode[i].size = IF CanInit(d, i) THEN 2 ELSE 0,
                          !.inode[i].parent = IF CanInit(d, i) THEN up ELSE 0]

-----------------------------------------------------------------------------
(* The inode table.                                                        *)

\* ilock() of a free inode panics; a valid copy is not read again.
NoType(i) == ~ivalid[i] /\ Ino(i).type = "free"

\* ialloc() finds the first free inode.
FreeInodes(d) == {i \in Inums : d.inode[i].type = "free"}

\* Faults: the count is looked at after it is decremented; or not at all.
LastUseLate(i) == iref[i] = 0 /\ ivalid[i] /\ Ino(i).nlink = 0
LastUseAny(i) == ivalid[i] /\ Ino(i).nlink = 0

\* iput() must free the inode: no links and no other reference.
LastUse(i) == iref[i] = 1 /\ ivalid[i] /\ Ino(i).nlink = 0
=============================================================================
