------------------------------- MODULE Inodes -------------------------------
(***************************************************************************)
(* The in-core inodes of the System V file system (SVFS/sys/5_inode.c),    *)
(* the calls of 5_dir.c, 5_vfsops.c and 5_subr.c that get and release      *)
(* them, the allocation of inodes (5_alloc.c), and the cache of directory  *)
(* names that holds references to them (COMMON/os/vfs_dnlc.c).             *)
(*                                                                         *)
(* There is one directory, whose own inode is always in core, and what is  *)
(* in it are directories: the only ones whose names are cached.  A process *)
(* runs until it sleeps; a turn that calls several functions is several    *)
(* actions, and nobody else runs in between.  The blocks of some inodes    *)
(* cannot always be read; what is written gets to the disk.                *)
(***************************************************************************)
EXTENDS SleepQueue, Integers, FiniteSets, Sequences, SequencesExt

CONSTANTS Table,    \* the table of in-core inodes
          Inos,     \* the inode numbers of the file system
          Bad,      \* those whose block on the disk cannot always be read
          Names,    \* the names
          NcSize    \* the entries of the name cache (NC_SIZE)

ASSUME InodesAssumption == /\ Inos \subseteq Nat \ {0} /\ Bad \subseteq Inos /\ NcSize \in Nat
                           /\ IsFiniteSet(Table) /\ IsFiniteSet(Procs)

VARIABLES
    inode,     \* the in-core inodes
    chain,     \* the hash chains, as one: the last one inserted comes first
    ifreeq,    \* the free list, ifreeh to ifreet
    ncache,    \* the name cache: the entries that hold a name, the least recent first
    disk,      \* the inodes on the disk, through the buffer cache
    dir,       \* the directory: the inode number of a name, or 0
    dlock,     \* who has locked the directory
    spare,     \* s_inode: the free inodes the super block knows
    s_ilock,   \* the super block's list is being filled
    pc         \* what a process does

inoVars == <<inode, chain, ifreeq, ncache, disk, dir, dlock, spare, s_ilock, pc>>
tables  == <<inode, chain, ifreeq>>
onDisk  == <<disk, dir, spare, s_ilock>>

Nobody == "nobody"
Unused == [used |-> FALSE, nlink |-> 0]
Used == [used |-> TRUE, nlink |-> 1]     \* i_mode # 0, and the link of the name
Pipe == [used |-> TRUE, nlink |-> 0]

\* The number of an inode of another file system, which stays open
Foreign == -1

Pinod(i) == <<"inode", i>>

\* name: the name it works on, ino: the number it asks iget for, ip: the inode it has,
\* vic: the inode it releases, then: where it goes on after that
Idle == [at |-> "idle", call |-> "none", name |-> "none", ino |-> 0, ip |-> "none",
         vic |-> "none", then |-> "none"]

InoInit ==
    /\ \E others \in SUBSET Table :
          /\ inode = [i \in Table |->
                        IF i \in others
                        THEN [num |-> Foreign, locked |-> FALSE, want |-> FALSE, ref |-> TRUE,
                              dirty |-> FALSE, count |-> 1, d |-> Used]
                        ELSE [num |-> 0, locked |-> FALSE, want |-> FALSE, ref |-> FALSE,
                              dirty |-> FALSE, count |-> 0, d |-> Unused]]
          /\ ifreeq = SetToSeq(Table \ others)
    /\ chain = <<>>
    /\ ncache = <<>>
    /\ dir \in {f \in [Names -> Inos \cup {0}] : \A m, n \in Names : f[m] = f[n] => m = n \/ f[m] = 0}
    /\ disk = [n \in Inos \cup {0} |-> IF n # 0 /\ \E m \in Names : dir[m] = n THEN Used ELSE Unused]
    /\ dlock = Nobody /\ spare = {} /\ s_ilock = FALSE
    /\ pc = [p \in Procs |-> Idle]
    /\ wchan = [p \in Procs |-> NoChan]

-------------------------------------------------------------------------------
(* Helpers                                                                 *)

\* In the middle of a turn
Running == {"got", "purge", "enter", "entered", "rele", "inactive", "done"}
Turns(p) == Awake(p) /\ \A q \in Procs \ {p} : pc[q].at \notin Running

\* A call ends, and the process has the inode i, by a handle or not
Open(p, i) ==
    pc' = [pc EXCEPT ![p] = [Idle EXCEPT !.at = "open", !.ip = i,
                                         !.call = IF pc[p].call = "vget" THEN "vget" ELSE "none"]]

At(p, where) == pc[p].at = where /\ Turns(p)
Goto(p, where) == pc' = [pc EXCEPT ![p].at = where]

\* VN_RELE of i, and what comes after it
Release(p, i, then) == pc' = [pc EXCEPT ![p].at = "rele", ![p].vic = i, ![p].then = then]
Released(p) == pc' = [pc EXCEPT ![p].at = pc[p].then, ![p].vic = "none", ![p].then = "none"]
Releasing(p) == pc[p].at \in {"rele", "inactive", "trunc", "flush"}

\* IUNLOCK
Iunlocked(r) == [r EXCEPT !.locked = FALSE, !.want = FALSE]
WakesOn(i) == IF inode[i].want THEN {Pinod(i)} ELSE {}

\* The inode that the hash chain has for n
Found(n) == {i \in ToSet(chain) : inode[i].num = n /\
               \A j \in ToSet(SubSeq(chain, 1, SelectInSeq(chain, LAMBDA x : x = i) - 1)) :
                  inode[j].num # n}

\* An inode that goes to the end of the free list has no flag
Freed(r) == [r EXCEPT !.ref = FALSE, !.dirty = FALSE]

Cached(n) == {k \in DOMAIN ncache : ncache[k].name = n}
\* The entries that are off the lists while the inode of their last name is released
InHand == {p \in Procs : Releasing(p) /\ pc[p].then \in {"purge", "entered", "got"}}

-------------------------------------------------------------------------------
(* The calls                                                               *)

Start(p, c, n) ==
    /\ At(p, "idle") /\ (c = "lookup" => Cached(n) = {})
    /\ pc' = [pc EXCEPT ![p] = [Idle EXCEPT !.at = "dir", !.call = c, !.name = n]]
    /\ UNCHANGED <<tables, ncache, onDisk, dlock, wchan>>

\* dirlook finds the name in the cache
LookupCached(p, n) ==
    /\ At(p, "idle")
    /\ \E k \in Cached(n) :
          LET e == ncache[k] IN
          /\ ncache' = Append(RemoveAt(ncache, k), e)
          /\ inode' = [inode EXCEPT ![e.vp].count = @ + 1]
          /\ pc' = [pc EXCEPT ![p] = [Idle EXCEPT !.at = "ilock", !.call = "lookup", !.name = n,
                                                  !.ip = e.vp]]
    /\ UNCHANGED <<chain, ifreeq, onDisk, dlock, wchan>>

\* svfs_mkfifo
Mkfifo(p) ==
    /\ At(p, "idle")
    /\ pc' = [pc EXCEPT ![p] = [Idle EXCEPT !.at = "ialloc", !.call = "mkfifo"]]
    /\ UNCHANGED <<tables, ncache, onDisk, dlock, wchan>>

\* ilock, and the iunlock at the end of the call
Ilock(p) ==
    LET i == pc[p].ip IN
    /\ At(p, "ilock")
    /\ IF inode[i].locked
       THEN /\ inode' = [inode EXCEPT ![i].want = TRUE]
            /\ Sleep(p, Pinod(i), {})
            /\ UNCHANGED <<pc, dlock>>
       ELSE /\ Open(p, i)
            /\ dlock' = IF dlock = p THEN Nobody ELSE dlock
            /\ UNCHANGED <<inode, wchan>>
    /\ UNCHANGED <<chain, ifreeq, ncache, onDisk>>

\* The directory is locked and searched: dirlook, dircheckforname
Search(p) ==
    LET c == pc[p] IN
    /\ At(p, "dir") /\ dlock = Nobody
    /\ dlock' = p
    /\ pc' = [pc EXCEPT ![p].ino = dir[c.name],
                        ![p].at = CASE dir[c.name] # 0 -> "iget"
                                    [] dir[c.name] = 0 /\ c.call = "mkdir" -> "ialloc"
                                    [] OTHER -> "done"]
    /\ UNCHANGED <<tables, ncache, onDisk, wchan>>

\* svfs_vget: the inode of a file handle, whatever has become of the file
Vget(p, n) ==
    /\ At(p, "idle")
    /\ pc' = [pc EXCEPT ![p] = [Idle EXCEPT !.at = "iget", !.call = "vget", !.ino = n]]
    /\ UNCHANGED <<tables, ncache, onDisk, dlock, wchan>>

\* The end of a call
Done(p) ==
    /\ At(p, "done")
    /\ pc' = [pc EXCEPT ![p] = Idle]
    /\ dlock' = IF dlock = p THEN Nobody ELSE dlock
    /\ UNCHANGED <<tables, ncache, onDisk, wchan>>

\* An open directory is read, and closed
Read(p) ==
    /\ At(p, "open") /\ ~inode[pc[p].ip].locked
    /\ inode' = [inode EXCEPT ![pc[p].ip].dirty = TRUE]
    /\ UNCHANGED <<chain, ifreeq, ncache, onDisk, dlock, pc, wchan>>

Close(p) ==
    /\ At(p, "open")
    /\ Release(p, pc[p].ip, "done")
    /\ UNCHANGED <<tables, ncache, onDisk, dlock, wchan>>

-------------------------------------------------------------------------------
(* iget                                                                    *)

Miss(p) == Found(pc[p].ino) = {}

\* Slip: the process is not known to wait
IgetWaitUnmarked(p) ==
    /\ At(p, "iget")
    /\ \E i \in Found(pc[p].ino) :
          /\ inode[i].locked
          /\ Sleep(p, Pinod(i), {})
    /\ UNCHANGED <<inode, chain, ifreeq, ncache, onDisk, dlock, pc>>

\* It is in core and locked
IgetWait(p) ==
    /\ At(p, "iget")
    /\ \E i \in Found(pc[p].ino) :
          /\ inode[i].locked
          /\ inode' = [inode EXCEPT ![i].want = TRUE]
          /\ Sleep(p, Pinod(i), {})
    /\ UNCHANGED <<chain, ifreeq, ncache, onDisk, dlock, pc>>

\* Slip: an inode on the free list stays there
IgetHitFree(p) ==
    /\ At(p, "iget")
    /\ \E i \in Found(pc[p].ino) :
          /\ ~inode[i].locked
          /\ inode' = [inode EXCEPT ![i].locked = TRUE, ![i].ref = TRUE, ![i].count = @ + 1]
          /\ ifreeq' = ifreeq
          /\ pc' = [pc EXCEPT ![p].ip = i, ![p].at = "got"]
    /\ UNCHANGED <<chain, ncache, onDisk, dlock, wchan>>

\* It is in core
IgetHit(p) ==
    /\ At(p, "iget")
    /\ \E i \in Found(pc[p].ino) :
          /\ ~inode[i].locked
          /\ inode' = [inode EXCEPT ![i].locked = TRUE, ![i].ref = TRUE, ![i].count = @ + 1]
          /\ ifreeq' = IF inode[i].ref THEN ifreeq ELSE RemoveFirst(ifreeq, i)
          /\ pc' = [pc EXCEPT ![p].ip = i, ![p].at = "got"]
    /\ UNCHANGED <<chain, ncache, onDisk, dlock, wchan>>

\* It is not, and there is no free in-core inode: dnlc_purge
IgetPurge(p) ==
    /\ At(p, "iget") /\ Miss(p) /\ ifreeq = <<>>
    /\ Goto(p, "purge")
    /\ UNCHANGED <<tables, ncache, onDisk, dlock, wchan>>

\* dnlc_rm of the next name
Purge(p) ==
    /\ At(p, "purge")
    /\ \E k \in DOMAIN ncache :
          /\ ncache' = RemoveAt(ncache, k)
          /\ Release(p, ncache[k].vp, "purge")
    /\ UNCHANGED <<tables, onDisk, dlock, wchan>>

\* A free in-core inode is taken and the inode is read into it; after dnlc_purge the hash
\* chain is not searched again
IgetTake(p) ==
    /\ \/ At(p, "iget") /\ Miss(p)
       \/ At(p, "purge") /\ ncache = <<>>
    /\ ifreeq # <<>>
    /\ LET i == Head(ifreeq) IN
          /\ ifreeq' = Tail(ifreeq)
          /\ chain' = <<i>> \o RemoveFirst(chain, i)
          /\ inode' = [inode EXCEPT ![i].num = pc[p].ino, ![i].locked = TRUE, ![i].want = FALSE,
                                    ![i].ref = TRUE, ![i].dirty = FALSE]
          /\ pc' = [pc EXCEPT ![p].ip = i, ![p].at = "bread"]
    /\ UNCHANGED <<ncache, onDisk, dlock, wchan>>

\* ENFILE
IgetFull(p) ==
    /\ At(p, "purge") /\ ncache = <<>> /\ ifreeq = <<>>
    /\ Goto(p, "done")
    /\ UNCHANGED <<tables, ncache, onDisk, dlock, wchan>>

IgetRead(p) ==
    LET i == pc[p].ip IN
    /\ At(p, "bread")
    /\ inode' = [inode EXCEPT ![i].d = disk[inode[i].num], ![i].count = 1]
    /\ Goto(p, "got")
    /\ UNCHANGED <<chain, ifreeq, ncache, onDisk, dlock, wchan>>

\* The disk cannot read it: the inode leaves the hash chain and is inactive
IgetError(p) ==
    LET i == pc[p].ip IN
    /\ At(p, "bread") /\ inode[i].num \in Bad
    /\ inode' = [inode EXCEPT ![i] = [Iunlocked(@) EXCEPT !.num = 0]]
    /\ chain' = RemoveFirst(chain, i)
    /\ pc' = [pc EXCEPT ![p].at = "inactive", ![p].vic = i, ![p].then = "done"]
    /\ Wakeup(WakesOn(i))
    /\ UNCHANGED <<ifreeq, ncache, onDisk, dlock>>

-------------------------------------------------------------------------------
(* What is done with the inode, which is locked                            *)

Got(p, call) == At(p, "got") /\ pc[p].call = call

\* dirlook unlocks the directory and enters the name
GotLookup(p) ==
    /\ Got(p, "lookup")
    /\ dlock' = Nobody
    /\ Goto(p, "enter")
    /\ UNCHANGED <<tables, ncache, onDisk, wchan>>

\* svfs_vget unlocks it if the generation is that of the file handle.  A generation is
\* kept as a char: of the handles there are of earlier files, one may be right again for
\* whatever file has the inode now, and for an inode that is free.
GotHandle(p) ==
    LET i == pc[p].ip IN
    /\ Got(p, "vget")
    /\ inode' = [inode EXCEPT ![i] = Iunlocked(@)]
    /\ Open(p, i)
    /\ Wakeup(WakesOn(i))
    /\ UNCHANGED <<chain, ifreeq, ncache, onDisk, dlock>>

\* idrop, when it is not
Idrop(p) ==
    LET i == pc[p].ip
        r == [Iunlocked(inode[i]) EXCEPT !.count = @ - 1]
    IN  /\ Got(p, "vget")
        /\ inode' = [inode EXCEPT ![i] = IF r.count = 0 THEN Freed(r) ELSE r]
        /\ ifreeq' = IF r.count = 0 THEN Append(ifreeq, i) ELSE ifreeq
        /\ Goto(p, "done")
        /\ Wakeup(WakesOn(i))
        /\ UNCHANGED <<chain, ncache, onDisk, dlock>>

\* svfs_mkdir: the name is there, iput
GotExisting(p) ==
    LET i == pc[p].ip IN
    /\ Got(p, "mkdir") /\ pc[p].ino = dir[pc[p].name]
    /\ inode' = [inode EXCEPT ![i] = Iunlocked(@)]
    /\ dlock' = Nobody
    /\ Release(p, i, "done")
    /\ Wakeup(WakesOn(i))
    /\ UNCHANGED <<chain, ifreeq, ncache, onDisk>>

\* dirremove gives up: ENOTEMPTY, ETXTBSY
GotBusy(p) ==
    LET i == pc[p].ip IN
    /\ Got(p, "rmdir")
    /\ inode' = [inode EXCEPT ![i] = Iunlocked(@)]
    /\ Release(p, i, "done")
    /\ Wakeup(WakesOn(i))
    /\ UNCHANGED <<chain, ifreeq, ncache, onDisk, dlock>>

\* dnlc_remove of the name
GotCached(p) ==
    /\ Got(p, "rmdir")
    /\ \E k \in Cached(pc[p].name) :
          /\ ncache' = RemoveAt(ncache, k)
          /\ Release(p, ncache[k].vp, "got")
    /\ UNCHANGED <<tables, onDisk, dlock, wchan>>

\* Slip: the name stays in the cache
GotRemoveCached(p) ==
    /\ Got(p, "rmdir")
    /\ dir' = [dir EXCEPT ![pc[p].name] = 0]
    /\ Goto(p, "write")
    /\ UNCHANGED <<tables, ncache, disk, spare, s_ilock, dlock, wchan>>

\* It leaves the directory, which is written
GotRemove(p) ==
    /\ Got(p, "rmdir") /\ Cached(pc[p].name) = {}
    /\ dir' = [dir EXCEPT ![pc[p].name] = 0]
    /\ Goto(p, "write")
    /\ UNCHANGED <<tables, ncache, disk, spare, s_ilock, dlock, wchan>>

\* iupdat writes inode i, whose contents are d, or returns when it cannot read the block
Written(i, d, ok) ==
    /\ ok \/ inode[i].num \in Bad
    /\ disk' = IF ok THEN [disk EXCEPT ![inode[i].num] = d] ELSE disk

\* The link count goes down, itrunc writes the inode, iput, and the directory is unlocked
RemoveDone(p) ==
    LET i == pc[p].ip IN
    /\ At(p, "write")
    /\ \E ok \in BOOLEAN : Written(i, [inode[i].d EXCEPT !.nlink = 0], ok)
    /\ inode' = [inode EXCEPT ![i] = [Iunlocked(@) EXCEPT !.dirty = TRUE, !.d.nlink = 0]]
    /\ Release(p, i, "done")
    /\ Wakeup(WakesOn(i))
    /\ UNCHANGED <<chain, ifreeq, ncache, dir, spare, s_ilock, dlock>>

-------------------------------------------------------------------------------
(* ialloc and what dirmakeinode does with the inode                        *)

\* The next spare inode of the super block
Ialloc(p) ==
    /\ At(p, "ialloc") /\ ~s_ilock
    /\ \E n \in spare \ {0} :
          /\ spare' = spare \ {n}
          /\ pc' = [pc EXCEPT ![p].ino = n, ![p].at = "iget"]
    /\ UNCHANGED <<tables, ncache, disk, dir, dlock, s_ilock, wchan>>

\* There is none, or it is the number 0 of an inode that was not read: the i list is searched
IallocScan(p) ==
    /\ At(p, "ialloc") /\ ~s_ilock /\ (spare = {} \/ 0 \in spare)
    /\ s_ilock' = TRUE
    /\ Goto(p, "scan")
    /\ UNCHANGED <<tables, ncache, disk, dir, spare, dlock, wchan>>

\* From where the last search ended, and until there are NICINOD: ENOSPC if none was found
IallocScanned(p) ==
    /\ At(p, "scan")
    /\ s_ilock' = FALSE
    /\ spare' \in SUBSET {n \in Inos : ~disk[n].used}
    /\ Goto(p, IF spare' = {} THEN "done" ELSE "ialloc")
    /\ UNCHANGED <<tables, ncache, disk, dir, dlock, wchan>>

GotSpare(p) == Got(p, "mkfifo") \/ (Got(p, "mkdir") /\ dir[pc[p].name] = 0)

\* Slip: the spare inode is taken as it is
MakeUnchecked(p) ==
    LET i == pc[p].ip IN
    /\ GotSpare(p)
    /\ inode' = [inode EXCEPT ![i].d = IF pc[p].call = "mkfifo" THEN Pipe ELSE Used,
                              ![i].dirty = TRUE]
    /\ Goto(p, "make")
    /\ UNCHANGED <<chain, ifreeq, ncache, onDisk, dlock, wchan>>

\* It is free; it is written before anything points to it
Make(p) ==
    LET i == pc[p].ip IN
    /\ GotSpare(p) /\ ~inode[i].d.used
    /\ inode' = [inode EXCEPT ![i].d = IF pc[p].call = "mkfifo" THEN Pipe ELSE Used,
                              ![i].dirty = TRUE]
    /\ Goto(p, "make")
    /\ UNCHANGED <<chain, ifreeq, ncache, onDisk, dlock, wchan>>

\* It is not free after all: iupdat, iput, look some more
MakeAgain(p) ==
    /\ GotSpare(p) /\ inode[pc[p].ip].d.used
    /\ inode' = [inode EXCEPT ![pc[p].ip].dirty = TRUE]
    /\ Goto(p, "again")
    /\ UNCHANGED <<chain, ifreeq, ncache, onDisk, dlock, wchan>>

Again(p) ==
    LET i == pc[p].ip IN
    /\ At(p, "again")
    /\ \E ok \in BOOLEAN :
          /\ Written(i, inode[i].d, ok)
          /\ inode' = [inode EXCEPT ![i] = [Iunlocked(@) EXCEPT !.dirty = ~ok]]
    /\ Release(p, i, "ialloc")
    /\ Wakeup(WakesOn(i))
    /\ UNCHANGED <<chain, ifreeq, ncache, dir, spare, s_ilock, dlock>>

\* It is unlocked: nothing points to it yet.  dirmakedirect marks it.
Made(p) ==
    LET i == pc[p].ip IN
    /\ At(p, "make")
    /\ \E ok \in BOOLEAN :
          /\ Written(i, inode[i].d, ok)
          /\ inode' = [inode EXCEPT ![i] = [Iunlocked(@) EXCEPT
                                             !.dirty = ~ok \/ pc[p].call = "mkdir"]]
    /\ IF pc[p].call = "mkfifo" THEN Open(p, i) ELSE Goto(p, "addentry")
    /\ Wakeup(WakesOn(i))
    /\ UNCHANGED <<chain, ifreeq, ncache, dir, spare, s_ilock, dlock>>

\* diraddentry
AddEntry(p) ==
    /\ At(p, "addentry")
    /\ dir' = [dir EXCEPT ![pc[p].name] = inode[pc[p].ip].num]
    /\ Goto(p, "enter")
    /\ UNCHANGED <<tables, ncache, disk, spare, s_ilock, dlock, wchan>>

\* dirmakedirect or diraddentry fails, and the inode is unmade; irele panics if it is locked
AddEntryFails(p) ==
    LET i == pc[p].ip IN
    /\ At(p, "addentry") /\ ~inode[i].locked
    /\ inode' = [inode EXCEPT ![i].d.nlink = 0, ![i].dirty = TRUE]
    /\ Release(p, i, "done")
    /\ UNCHANGED <<chain, ifreeq, ncache, onDisk, dlock, wchan>>

-------------------------------------------------------------------------------
(* dnlc_enter: of a lookup, with the inode locked, or of diraddentry       *)

\* What comes after it
Entered(p, r) ==
    LET i == pc[p].ip IN
    IF pc[p].call = "lookup"
    THEN /\ inode' = [inode EXCEPT ![i] = Iunlocked(r)]
         /\ Open(p, i)
         /\ Wakeup(WakesOn(i))
    ELSE /\ inode' = [inode EXCEPT ![i] = r]
         /\ Goto(p, "ilock")
         /\ UNCHANGED wchan

\* The name is in the cache, or every entry is off the lists
EnterNot(p) ==
    /\ At(p, "enter")
    /\ Cached(pc[p].name) # {} \/ Cardinality(InHand) = NcSize
    /\ Entered(p, inode[pc[p].ip])
    /\ UNCHANGED <<chain, ifreeq, ncache, onDisk, dlock>>

\* The least recent entry is taken, and what it refers to is released
EnterOver(p) ==
    /\ At(p, "enter") /\ Cached(pc[p].name) = {}
    /\ ncache # <<>> /\ Len(ncache) + Cardinality(InHand) = NcSize
    /\ ncache' = Tail(ncache)
    /\ Release(p, Head(ncache).vp, "entered")
    /\ UNCHANGED <<tables, onDisk, dlock, wchan>>

\* It is entered
Enter(p) ==
    LET i == pc[p].ip IN
    /\ \/ /\ At(p, "enter") /\ Cached(pc[p].name) = {}
          /\ Len(ncache) + Cardinality(InHand) < NcSize
       \/ At(p, "entered")
    /\ ncache' = Append(ncache, [name |-> pc[p].name, vp |-> i])
    /\ Entered(p, [inode[i] EXCEPT !.count = @ + 1])
    /\ UNCHANGED <<chain, ifreeq, onDisk, dlock>>

-------------------------------------------------------------------------------
(* vn_rele and iinactive of the inode vic                                  *)

Rele(p) ==
    LET i == pc[p].vic IN
    /\ At(p, "rele")
    /\ inode' = [inode EXCEPT ![i].count = @ - 1]
    /\ IF inode[i].count = 1 THEN Goto(p, "inactive") ELSE Released(p)
    /\ UNCHANGED <<chain, ifreeq, ncache, onDisk, dlock, wchan>>

\* Nothing to write
Inactive(p) ==
    LET i == pc[p].vic IN
    /\ At(p, "inactive") /\ inode[i].d.nlink > 0 /\ ~inode[i].dirty
    /\ inode' = [inode EXCEPT ![i] = Freed(@)]
    /\ ifreeq' = Append(ifreeq, i)
    /\ Released(p)
    /\ UNCHANGED <<chain, ncache, onDisk, dlock, wchan>>

\* The file is truncated and freed if no name is left, and the inode is written
InactiveBusy(p) ==
    LET i == pc[p].vic IN
    /\ At(p, "inactive") /\ (inode[i].d.nlink = 0 \/ inode[i].dirty)
    /\ inode' = [inode EXCEPT ![i].locked = TRUE, ![i].dirty = TRUE]
    /\ Goto(p, IF inode[i].d.nlink = 0 THEN "trunc" ELSE "flush")
    /\ UNCHANGED <<chain, ifreeq, ncache, onDisk, dlock, wchan>>

\* ifree, which forgets the inode while the list is filled and when it is full
Ifree(i) == \/ ~s_ilock /\ spare' = spare \cup {inode[i].num}
            \/ UNCHANGED spare

\* itrunc has written the inode
Truncated(p) ==
    LET i == pc[p].vic IN
    /\ At(p, "trunc")
    /\ \E ok \in BOOLEAN : Written(i, inode[i].d, ok)
    /\ inode' = [inode EXCEPT ![i].d = Unused]
    /\ Ifree(i)
    /\ Goto(p, "flush")
    /\ UNCHANGED <<chain, ifreeq, ncache, dir, s_ilock, dlock, wchan>>

Flushed(p) ==
    LET i == pc[p].vic IN
    /\ At(p, "flush")
    /\ \E ok \in BOOLEAN : Written(i, inode[i].d, ok)
    /\ inode' = [inode EXCEPT ![i] = Freed(Iunlocked(@))]
    /\ ifreeq' = Append(ifreeq, i)
    /\ Released(p)
    /\ Wakeup(WakesOn(i))
    /\ UNCHANGED <<chain, ncache, dir, spare, s_ilock, dlock>>

-------------------------------------------------------------------------------
(* update: one process at a time writes the inodes that are dirty          *)

Update(p, i) ==
    /\ At(p, "idle") /\ \A q \in Procs : pc[q].call # "sync"
    /\ ~inode[i].locked /\ inode[i].ref /\ inode[i].dirty
    /\ inode' = [inode EXCEPT ![i].locked = TRUE, ![i].count = @ + 1]
    /\ pc' = [pc EXCEPT ![p] = [Idle EXCEPT !.at = "update", !.call = "sync", !.ip = i]]
    /\ UNCHANGED <<chain, ifreeq, ncache, onDisk, dlock, wchan>>

Updated(p) ==
    LET i == pc[p].ip IN
    /\ At(p, "update")
    /\ \E ok \in BOOLEAN :
          /\ Written(i, inode[i].d, ok)
          /\ inode' = [inode EXCEPT ![i] = [Iunlocked(@) EXCEPT !.dirty = ~ok]]
    /\ Release(p, i, "done")
    /\ Wakeup(WakesOn(i))
    /\ UNCHANGED <<chain, ifreeq, ncache, dir, spare, s_ilock, dlock>>

-------------------------------------------------------------------------------
InoTurn(p) ==
    \/ Ilock(p) \/ Search(p) \/ Done(p) \/ Read(p) \/ Close(p)
    \/ IgetWait(p) \/ IgetHit(p) \/ IgetPurge(p) \/ Purge(p) \/ IgetTake(p) \/ IgetFull(p)
    \/ IgetRead(p) \/ IgetError(p)
    \/ GotLookup(p) \/ GotHandle(p) \/ Idrop(p) \/ GotExisting(p)
    \/ GotBusy(p) \/ GotCached(p) \/ GotRemove(p) \/ RemoveDone(p)
    \/ Ialloc(p) \/ IallocScan(p) \/ IallocScanned(p) \/ Make(p) \/ MakeAgain(p) \/ Again(p)
    \/ Made(p) \/ AddEntry(p) \/ AddEntryFails(p) \/ EnterNot(p) \/ EnterOver(p) \/ Enter(p)
    \/ Rele(p) \/ Inactive(p) \/ InactiveBusy(p) \/ Truncated(p) \/ Flushed(p) \/ Updated(p)

\* A process begins the call c
InoCall(p, c) ==
    \/ c = "lookup" /\ \E n \in Names : LookupCached(p, n)
    \/ c \in {"lookup", "mkdir", "rmdir"} /\ \E n \in Names : Start(p, c, n)
    \/ c = "mkfifo" /\ Mkfifo(p)
    \/ c = "vget" /\ \E n \in Inos : Vget(p, n)
    \/ c = "sync" /\ \E i \in Table : Update(p, i)

InoNext == \E p \in Procs :
    InoTurn(p) \/ \E c \in {"lookup", "mkdir", "rmdir", "mkfifo", "vget", "sync"} : InoCall(p, c)

InoSpec == InoInit /\ [][InoNext]_<<inoVars, wchan>>

-------------------------------------------------------------------------------
(* Properties                                                              *)

\* v_count is the number of the references there are: those of processes that have the
\* inode or are about to release it, and those of the name cache.  An inode is on the free
\* list, once, exactly when it is not referenced.
Holds(p, i) ==
    \/ pc[p].ip = i /\ pc[p].at \in {"got", "write", "make", "again", "addentry", "enter",
                                     "entered", "ilock", "open", "update"}
    \/ pc[p].ip = i /\ Releasing(p) /\ pc[p].then \in {"entered", "got"}
RefsExact ==
    \A i \in Table :
        /\ inode[i].count = Cardinality({p \in Procs : Holds(p, i)})
                       + Cardinality({p \in Procs : pc[p].at = "rele" /\ pc[p].vic = i})
                       + Cardinality({k \in DOMAIN ncache : ncache[k].vp = i})
                       + IF inode[i].num = Foreign THEN 1 ELSE 0
        /\ Cardinality({k \in DOMAIN ifreeq : ifreeq[k] = i}) = IF inode[i].ref THEN 0 ELSE 1
        /\ inode[i].count > 0 \/ inode[i].locked => inode[i].ref

\* ILOCKED is the lock of one process, although iinactive and update set it unasked, and
\* a process sleeps on an inode only while it is locked and its owner knows.
Locks(p, i) ==
    \/ pc[p].ip = i /\ pc[p].at \in {"bread", "got", "write", "make", "again", "update"}
    \/ pc[p].ip = i /\ pc[p].call = "lookup" /\ pc[p].at \in {"enter", "entered"}
    \/ pc[p].ip = i /\ Releasing(p) /\ (pc[p].then = "got" \/ (pc[p].then = "entered" /\ pc[p].call = "lookup"))
    \/ pc[p].vic = i /\ pc[p].at \in {"trunc", "flush"}
LockOwned ==
    \A i \in Table :
        /\ Cardinality({p \in Procs : Locks(p, i)}) = IF inode[i].locked THEN 1 ELSE 0
        /\ \A p \in Procs : wchan[p] = Pinod(i) => inode[i].locked /\ inode[i].want

\* A name in the cache is in the directory, and its inode is the one the directory says
NamesFresh == \A k \in DOMAIN ncache : inode[ncache[k].vp].num = dir[ncache[k].name]

\* The inode n as it is: in core, unless it is being read in
Content(n) ==
    LET inCore == {i \in Found(n) : \A p \in Procs : ~(pc[p].ip = i /\ pc[p].at = "bread")}
    IN  IF inCore = {} THEN disk[n] ELSE inode[CHOOSE i \in inCore : TRUE].d

\* An inode whose block can be read is not freed or handed out again while it has a name or
\* a process that came by a name, or made a pipe, has it open: not by the spare inodes of the
\* super block, which may be out of date, nor by removals, calls that fail, names that are in
\* the cache, writes of other inodes that get lost, or handles of earlier files.
FilesLive ==
    /\ \A m \in Names : dir[m] \in Inos \ Bad => /\ Content(dir[m]) = Used
                                               /\ \A n \in Names \ {m} : dir[n] # dir[m]
    /\ \A p \in Procs : pc[p].at = "open" /\ pc[p].call # "vget" =>
          inode[pc[p].ip].num \in Bad \/ inode[pc[p].ip].d.used

\* "If it is in core, honor the locking protocol.  If it is not in core, read it in":
\* an inode is in core once.
InCoreOnce == \A i, j \in ToSet(chain) : inode[i].num = inode[j].num => i = j
=============================================================================
