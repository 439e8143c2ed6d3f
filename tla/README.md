# A verification project for the A/UX 2 kernel

This directory holds TLA+ models of parts of the kernel in `src/`, the TLC
configurations that check them, and proofs about them that TLAPS checks.

    tlc -config bufcache.cfg MCBufCache       # one run
    tlapm BufCacheProofs.tla                  # its proofs

`PROJECT.json` lists the components, the runs, for each property a mutant of the
code that breaks it, the source lines of every definition, the findings, the
hazards and the theorems.

## The system

The kernel descends from System V release 2 with paging, 4.3BSD networking and
Sun's VFS, NFS and RPC. It runs on one processor and is not preemptive: a process
in the kernel keeps the processor until it calls `sleep` or returns to user mode.
Interrupts come at any time unless `spl6` masks them. Nearly everything that is
hard in this code follows from these two facts: any call that may sleep (to
allocate memory, to wait for a buffer, to copy from user space) lets every other
process run, and an interrupt may come between a test and the `spl6` that follows.

### Components, their state, their operations

| component | state | operations | hard behaviour | what makes it correct |
| --- | --- | --- | --- | --- |
| Buffer cache (`vfs_bio.c`, `bio.c`) | buffer headers with flags, hash chains, free lists EMPTY/AGE/LRU, `bufmap`, `basyncnt` | bread, breada, getblk, geteblk, bwrite, bawrite, bdwrite, brelse, bflush, blkflush, bdwait, binval, binvalfree; biodone at interrupt level | waiters on buffers and on free lists, write-behind, resizing of overlapping blocks, I/O errors | one valid buffer for a block, one owner for a buffer, no lost wakeup, no lost delayed write, reads return the latest contents |
| Gather I/O (`io/vio.c`) | `struct vio` with several buffers for one request | vbwrite, vbreada, viodone | `getmem` may sleep between the search and the taking of buffers | each request ends once, is counted once |
| NFS client (`NFS/sys`) | `async_bufhead`, rnodes with size, attributes and errors | nfs_strategy, do_bio, async_daemon, biodinvalfree, vnode operations | daemons, retransmission, attributes that arrive late | a delayed write reaches the server; counts balance |
| Record locks (`flock.c`) | a sorted list of locks for each file, the table of sleeping locks | setflck, getflck, flckadj, blocked, deadflck | splitting and merging of ranges, waiting, deadlock detection, table full | no conflicting locks, sleepers are woken, EDEADLK only for a cycle |
| Messages (`msg.c`) | queues, headers, message map, lock bit in a queue | msgget, msgsnd, msgrcv, msgctl | waits for space, for a header, for a type; copies that sleep; removal while asleep | conservation of headers and bytes, FIFO by type, no lost wakeup |
| Semaphores (`sem.c`) | semaphore sets with waiter counts, undo lists | semget, semop, semctl, semexit | all or nothing for several semaphores, a global `semtmp` used across sleeps, undo at exit | atomicity, counters of waiters, undo restores |
| Sleep and scheduling (`slp.c`, `swtch.c`, `sched.c`) | hash of sleep queues, run queue, process state | sleep, wakeup, wakeup_one, unsleep, setrun, swtch | signals while asleep, swapping | a process is on exactly one queue |
| Processes (`fork.c`, `exit.c`, `sig.c`) | process table, zombies, pending signals | newproc, exit, wait, psignal, issig | races of exit and wait, of signals and sleep | every zombie is reaped once, no signal is lost |
| Regions and paging (`region.c`, `page.c`, `getpages.c`, `fault.c`) | regions, page frames, free list, swap use counts | allocreg, dupreg, attachreg, growreg, freereg, getpages, vfault, pfault | locks of regions across sleeps, copy on write | use counts match; a frame has one use |
| Callouts (`clock.c`) | a list sorted by delta | timeout, untimeout, timein | interrupts | a function is called once, at its time, unless cancelled |
| Resource maps (`malloc.c`), heap | free segments | malloc, mfree, kmem_alloc | waiting for memory | no overlap, coalescing, conservation |
| System V file system (`SVFS`) | inode cache, free lists on disk, FIFOs | iget, iput, iinactive, iupdat, itrunc, bmap, openp, closep | inode locks across I/O, waits of readers and writers | one inode in core for a file, counts, link counts |
| VFS (`vfs_*.c`) | vnodes, mounts, name cache | lookuppn, mount, dnlc_enter, dnlc_lookup, dnlc_purge | stale entries | a cached name is the file's name |
| Streams (`stream.c`, `streamio.c`) | queues with high and low water marks | putq, getq, canput, qenable, strread, strwrite, stropen, strclose | back-pressure, sleeping for data | flow control does not get stuck, order is kept |
| RPC (`RPC/sys`) | a table of client handles, reply buffers | clntkudp_callit, ckuwakeup, svckudp | retransmission, late replies | a call returns its own reply; buffers are freed once |
| NFS server | duplicate cache | rfs_dispatch and the procedures | duplicate requests | idempotence of non-idempotent calls |
| SCSI (`io/scsi*.c`) | request queues, bus state | scsireq, scsicancel, interrupts | cancel racing completion | a request is answered once |
| Networking (`NET`, `NETinet`) | mbufs, sockets, protocol blocks | 4.3BSD | 4.3BSD | not taken up: published elsewhere |
| Drivers, toolbox, debugger, assembly, configuration | hardware registers, tables | | | left aside |

How they interact: system calls go through VFS to a file system (SVFS, NFS,
devices), which calls the buffer cache; the cache calls the device or NFS through
`VOP_STRATEGY` and hears of the end of a request through `biodone`, at interrupt
level for a disk, in a process for NFS. NFS calls RPC, RPC calls UDP. All of them
wait with `sleep` and are woken with `wakeup` on the same channel, and several
allocate memory in ways that may sleep.

## What is modelled, in which modules

| modules | of the system | composed by |
| --- | --- | --- |
| `BufCache`, `MCBufCache`, `BufCacheProofs`, `BufCacheData` | the buffer cache, gather I/O, the layer of NFS under it | |
| `FiniteSums` | lemmas: induction over numbers and finite sets, sums over finite sets | extended by the proofs |
| `RecordLocks` (abstract), `Flock`, `MCFlock`, `FlockProofs` | record locks | `Flock` implements `RecordLocks` |
| `SleepQueue` | sleep, wakeup, unsleep | extended by `Msg`, `Sem`, `Inodes`, `Rpc`, `Streams` |
| `ResourceMap` | malloc and mfree of a resource map | extended by `Msg` |
| `TypedQueues` (abstract), `Msg`, proofs in `IpcProofs` | message queues | `Msg` implements `TypedQueues` |
| `Sem`, proofs in `IpcProofs` | semaphores | |
| `Inodes`, `MCInodes`, `InodesProofs` | in-core inodes, allocation of inodes, name cache | |
| `MCKernel` | `Msg`, `Sem` and `Inodes` for TLC | one behaviour uses one of them |
| `Rpc`, `RpcProofs` | an NFS call from clget to the duplicate cache and back | |
| `Streams`, `MCStreams`, `StreamsProofs` | writes and ioctls on their way down a terminal's stream | |
| `Callout`, proved about in `StreamsProofs` | the list of timeouts | |
| `MCRpcStreams` | `Rpc`, `Streams` and `Callout` for TLC | one behaviour uses one of them |

What could come next, in this order: FIFOs (`5_pipe.c`) above the inodes; signals; the
NFS client's sizes and attributes above `Rpc`; the read side of streams, with open, close
and hangup; the SCSI queue; regions and page frames with fork, exit and wait. Of the
proofs: cached names (`NamesFresh`) as long as an inode is in core once, and the list of
locks (`ListsInOrder`).

## The buffer cache

### Modules

- `BufCache.tla`: the cache and what is under it.
- `MCBufCache.tla`: the sets of blocks that the runs use, and the symmetry.
- `BufCacheProofs.tla`: the theorems about types, wakeups, memory and who has a buffer;
  `BufCacheData.tla`, which extends it, about the block that it holds and its contents.

`flags`, `bcount`, `bufsize`, `onq`, `blk` are the fields of a buffer; `mem` counts
the units of `bufmap`; `freewanted` is B_WANTED in `bfreelist[0]`. `pend` is what
has been given to `VOP_STRATEGY`, `ahead` which earlier requests a request waits
for, `biodq` the NFS queue `async_bufhead`. `pc`, `call`, `wchan` and `cpu` are the
processes: where they are, their local variables, what they sleep on, and which one
has the processor. `fresh` and `lost` are history: for each unit of the block
space, where its latest contents are, and which contents a device error lost.

An action is a stretch of code between two points at which something else may
happen: a `sleep`, or a place where interrupts are on and an interrupt makes a
difference. `cpu = p` keeps other processes out between two actions of `p`.
`Has`, `Incore`, `Overlapping`, `Scan` are the searches; `Brelse`, `Strategy`,
`Notavail`, `Resize`, `BiodoneAsync` the functions that several actions call.

What is abstracted:

- one vnode; a buffer of another vnode would only be another buffer to reclaim;
- the order of free lists and of hash chains, and hash chains altogether: the
  searches look at all the buffers of the vnode (`BUFHASH` is in a header that is
  not in the repository; blocks that overlap must hash alike for `brealloc`);
- the addresses in `bufmap`: memory is a number of units;
- the gathering of writes takes any run of neighbours, not the longest;
- `bflush` takes one buffer at a time and not up to 40: it looks at the flags
  again before it writes;
- the window in `getblk` between the test of the identity and `spl6` is two
  actions, other windows of the kind change nothing;
- callers set B_NOCACHE in clean buffers only; `u.u_error`, counters and traces
  are left out; `VN_RELE` in `brelvp` is taken not to sleep;
- a driver keeps overlapping requests in order and ends the others in any order: that
  is assumed of `disksort` (`ahead`) and checked nowhere;
- an NFS request ends when a process has the processor. `Strategy` keeps it with the
  caller: in the code `nfs_strategy` runs `do_bio` in the caller when there is no daemon
  (`nfs_vnodeops.c:1544`, `1561`), which sleeps until the answer comes, also within
  `getnewbuf`, `allocbuf`, `bflush` and the read-ahead of `breada`. What others do to
  the cache meanwhile is left out, of NFS files only. `SleepersWake`, `GetblkReturns`
  and the rest of the runs and theorems with `Nfs` are to be read with this; of
  `UniqueMapping` nothing is said for NFS files;
- `binvalfree` is called for NFS files only, which is where its callers are;
  `binval` is called when no buffer is busy or dirty, as its comment requires.

### Properties

| property | says |
| --- | --- |
| `TypeOK` | types |
| `NoLostWakeup` | who sleeps for a buffer has left B_WANTED in a busy one; who sleeps for any buffer has left B_WANTED in the head and the lists are empty |
| `BdwaitWoken` | who sleeps in `bdwait` has left `basynwait`, and writes are under way |
| `BiowaitPending` | who sleeps in `biowait` waits for a synchronous request that has not ended |
| `Exclusive` | busy = on no free list = held by exactly one process, or by the device |
| `UniqueMapping` | valid buffers do not overlap |
| `DataSafe` | the latest contents are on disk, or in a buffer that will get there |
| `ReadsLatest` | what `bread` returns is the latest contents |
| `AsyncCount` | `basyncnt` is the number of asynchronous writes under way (not so for NFS, see below) |
| `GetblkReturns` | what `getblk` returns is a busy buffer of the block that was asked for |
| `MemoryConserved` | units of memory are neither lost nor duplicated |
| `NoDupBiodone` | no request ends twice |
| `SleepersWake` | (liveness) whoever sleeps for a buffer is woken |

### Runs and bounds

Two processes and two buffers suffice: one process holds or waits, the other one or
an interrupt interferes, and the second buffer is what read-ahead takes beside a read
or what is gathered with a write; `bufcache_twice` needs a third one, to be waited for
in `allocbuf`. The blocks are two neighbours of one unit and one that covers both
(`MCBlocks`), which is every way two extents can overlap that the code distinguishes;
for NFS there are only the two neighbours (`MCTwo`), because all blocks of a file have
one size. `Mem` is enough (5 or 6 units) where shortage is not the point, 3 where it
is. Symmetry in processes and buffers is used in the safety runs and not in the
liveness run. `MinAsync` is the only bound in a guard: `nfsinval` is not called when
`basyncnt` is negative already. Deadlock is checked but in `bufcache` and
`bufcache_twice`, where two processes that hold a buffer each may wait for each other's
(a hazard at `bio.c:71`).

| run | shows |
| --- | --- |
| `bufcache` | reads, read-ahead, delayed and other writes, gather writes, `geteblk`, flushes and `binval` of overlapping blocks of a device that may report errors (1.2 million states) |
| `bufcache_nfs` | an NFS file, and dropping what is cached of it (0.3 million states) |
| `bufcache_tight` | shortage of memory, and liveness |
| `bufcache_twice`, `bufcache_nfslock` | the disagreements below |

Fairness (`LiveSpec`): a request that has been given to a device ends (WF of
`IODone`): disks answer or report an error. A process that again and again can have
the processor gets it (SF of `Step`): `swtch` takes the best priority, and a process
that has waited in the kernel has a priority above those that come from user mode.
Calls of operations are not fair: nobody has to use the cache. `SleepersWake` leaves
`bdwait` out: it waits for a moment without a write under way, which processes that
write all the time can put off for ever.

### Disagreements found

Two runs are expected to find a violation; the findings quote the comment that the
property states.

- `bufcache_twice`: a block in two valid buffers. `allocbuf` sleeps while the new
  buffer has `b_bcount` 0, which `brealloc` skips (`vfs_bio.c:449`).
- `bufcache_nfslock`: a delayed write of an NFS file is dropped by `binvalfree`
  (`vfs_bio.c:711`, `nfs_vnodeops.c:1542`).

Three more were met with other configurations of the same module, and are listed as
hazards; the runs above keep away from them:

- `GetblkReturns` with `IOErrors = TRUE` and `Nfs = FALSE`: an asynchronous write fails between
  `getblk`'s test of the identity and its `spl6` (`vfs_bio.c:337-340`), and `getblk`
  returns a buffer of no block;
- `NoDupBiodone` with `GetmemSleeps = TRUE`: `getmem` in `vbwrite` sleeps between the
  search for neighbours and their `notavail` (`io/vio.c:251`), another process takes
  one of them, and a request is pending with B_DONE set ("dup biodone");
- `AsyncCount` with `nfsinval` and `breada`: `biodinvalfree` resets B_READ of a
  read-ahead (`nfs_vnodeops.c:1693-1726`), `biodone` takes it for a write, `basyncnt`
  becomes negative and `bdwait` does not return.

### What is proved

For every set of processes, finite set of buffers, set of blocks, amount of memory
and configuration that the `ASSUME`s of `BufCache` allow:

- `TypeCorrect`: `Spec => [](TypeOK /\ Located)`, and `TypeInvariant`, its first
  half. Types are not inductive by themselves: `call[p].bp` is used as a buffer, so
  the proof needs `Located`, which says at which program points `bp`, `ep` and
  `first` are buffers and which operation is under way.
- `NoLostWakeupHolds`: `Spec => []NoLostWakeup`. The inductive invariant `WaitInv`
  adds `OffQueue` (a busy buffer is on no free list that the waiters look at) to
  the types and places. Each action that releases a buffer goes through the lemmas
  `BrelseWaits` and `BiodoneWaits` (they wake whoever they must), each one that
  goes to sleep through `FallsAsleep`, the others through `Quiet`.
- `MemoryConservedHolds`: `Spec => []MemoryConserved`. It is inductive with `TypeOK` and
  `Located`. What it needs is a fact about sums: when one buffer gets another size, the
  sum changes by as much. `FiniteSums` proves that of the library's `SumFunctionOnSet`,
  which is defined by recursion over the subsets (see there how, without the library's
  induction theorems): that the recursion has one solution (`SumsExist`, `SumsUnique`),
  that the order of the additions does not matter (`SumRemove`), and `SumChange`.
- `OwnersKept`: `Spec => []OwnInv`. That a busy buffer has one owner
  is not inductive: what an action does to the flags of a buffer depends on the place
  it is called from. `OwnInv` says for each place what is known there of the flags and
  the request of each buffer the process has (`BpKept`, `EpKept`, `FirstKept`), which of
  them differ (`Places`), that `Holds` of two processes have nothing in common, and that
  a busy buffer is in one of them or an asynchronous request (`Owned`). From it follow
  `ExclusiveHolds`, `NoDupBiodoneHolds` and `BiowaitPendingHolds`. `Undisturbed` says
  once what a step has to leave alone for the other processes to keep all this.
- `AsyncCountHolds`, `BdwaitWokenHolds`: `CountInv` counts the requests under way that
  are asynchronous writes, and those in `getmem`, which are counted already.
- `GetblkReturnsHolds` (`BufCacheData`): from the search of the hash chain on, the
  buffer a process works on is the one of the block it wants (`BlkKept`).
- `UniqueMappingHolds`, of a device: a buffer gets its block before it gets its size, and only what
  `brealloc` has found says that nothing overlaps what it will be. `UniqInv` adds that
  from the end of `brealloc` until the size is set this is still true, because the
  process keeps the processor: what it writes in `allocbuf` is asynchronous (`Clear`).
- `DataSafeHolds`, `ReadsLatestHolds`: `DataInv` says where the latest
  contents of each unit are. A buffer that is done or dirty is `Full`: it has the latest
  contents of all that it maps; a unit whose contents are not on the disk is in a buffer
  that is `Dirty`, that is a delayed write or about to be written. Each action either
  leaves the contents alone (`QuietStep`), releases a buffer (`BrelseData`), or moves
  contents to or from the disk (`TransferData`).

The hypotheses are those the code needs, and TLC shows what happens without them.

- `Vio => ~GetmemSleeps` (`OwnersKept` and all that follows it): where `getmem` sleeps,
  `vbwrite` goes on with neighbours that others have taken meanwhile (`io/vio.c:251`).
- `~Nfs` for the counts: `biodinvalfree` spoils `basyncnt`. `~Nfs` for the contents:
  `binvalfree` drops delayed writes, which is what `bufcache_nfslock` shows. `~Nfs` for
  `UniqueMapping`: what keeps the processor with a process in `allocbuf` is that a driver
  does not sleep, and `nfs_strategy` may.
- `Nfs \/ ~IOErrors` for `getblk`: the window between the search and `spl6`.
- `[]NoSleepInAllocbuf` for `UniqueMapping` and the contents: no process sleeps for a
  free buffer in `allocbuf`; `bufcache_twice` is what happens when one does. It is a
  hypothesis about the behaviour and not about the constants, because no number of
  buffers or units excludes it.

Other assumptions are those of the constants only. The proofs have one lemma for each
action and conjunct that it can disturb. Only `SleepersWake`, which is about fairness, is
model-checked alone. Each inductive invariant was tried with TLC before it was proved,
also with three buffers.

## Record locks

### Modules

- `RecordLocks.tla`: what `fcntl` promises: for each byte of a file a process has no
  lock, a read lock or a write lock, and a write lock excludes all others.
- `Flock.tla`: `flock.c`.
- `MCFlock.tla`: the values of its constants, and the symmetry.
- `FlockProofs.tla`: the theorems.

`chain[f]` is the list `fl_flck` of a file, a sequence of records with the identity
`id` they have in the table; what is in no list and belongs to no sleeper is the free
list (`Free`). `fids` and `refcnt` are the table of files, `wakeflg` the records
whose flag is set, `want`, `sf`, `blkpid` and `wchan` the processes: what they ask
for, their record in `sleeplcks`, the owner of the lock they were stopped by, and the
record they sleep on.

`setflck` sleeps in one place, and the kernel is not preemptive, so an action is one
turn of its loop (`Turn`), from the call (`SetLock`) or from the wakeup (`Retry`) to
the sleep or the return. `Unlock` is F_UNLCK and the release of all locks of a file
at a close; `Signal` takes a process off the sleep queue, `Interrupted` is the return
with EINTR, which a runnable process may make whenever it has got a signal. Between
its wakeup and its turn a process still has its record in `sleeplcks`, with the old
`blkpid`, as in the code.

`Adjust` is `flckadj`: a fold of `AdjStep` over the list, from the record that
`blocked` found. The thirteen regions of `regflck` fall into what the cases of the
code do with the record: nothing (`stop`, `insrt`), `held`, `Join` (same type),
`Sever` and `Shorten` (another type, or an unlock). `Blocked` keeps both loops of
`blocked`, with their places to stop.

What is abstracted: which record of the free list is taken; `l_whence` and lengths
(a span is `lo <= x < hi`, positions stand for offsets up to MAXEND, `End`);
`getflck`, which changes nothing; the tests of the vnode (remote, not a regular
file) and of the flags of descriptors (`vno_lockrelease`), which only skip the call;
F_SETLK, which is F_SETLKW without the sleep.

### Properties, runs and bounds

| property | says |
| --- | --- |
| `ListsInOrder` | a list is sorted, the locks of one process in it are apart or of different types |
| `AdjustExact` | in every reachable state, every lock and unlock that could come next does exactly what it was asked; with ENOSPC it can only lose the caller's own locks inside the span |
| `SleeperBlocked` | a sleeper sleeps on a lock that is still in its way, and the lock's flag is set |
| `NoWaitCycle` | the waits in `sleeplcks` form no circle |
| `RecordsOnce` | a record of the table is in one place |
| `FidsCounted` | a file has an entry as long as it has locks or sleepers, who are counted |
| `Implements` | refinement of `RecordLocks`: no two conflicting locks, nobody's locks but the caller's change |
| `WaitEnds` | (liveness) a process does not wait for ever for a lock that nobody is in the way of |

`flock` has two processes, one of which asks for read locks too, and four positions:
the fewest for which a span can cut one lock and sever the next. Three records are
the fewest for that piece; it is also where ENOSPC occurs in the middle of `flckadj`
(75 000 states). `flock_files` has three processes, for three sleepers on one lock
and for circles, files of one position, entries for two of three files, and four
records (65 000 states up to symmetry). Circles of three processes need six records
and are covered by the theorem only. No variable is unbounded.

Fairness (`LiveSpec` of `flock`): a process that is runnable runs in the end. It is
stated as `[]<>~Runnable(p)`, since every turn makes a process stop being runnable;
nobody has to ask for or give up a lock.

### Disagreement found

`flock_shared` is expected to violate `NoConflict` (no two locks on a position unless
both are read locks). A lock that is cut leaves a piece behind the span, and
`flckadj` looks for its place in the list by the start of the span, not of the piece
(`flock.c:357-364`, `382-389`). When another process has a read lock that starts in
between, the list is no longer sorted; `blocked` stops at the first lock that starts
behind a request (line 492) and misses that read lock. It takes two processes with
overlapping read locks and three positions: p1 read-locks [0,1), p2 read-locks [0,3),
p2 unlocks [0,2), p2 write-locks [0,1). The run `flock` stays away from it with one
process that reads, `flock_files` with files of one position.

Two more peculiarities break no promise and are hazards only: a woken process can be
the reason of an EDEADLK until it runs, and ENOSPC loses locks that were cut before.

### What is proved

`WaitsEndSomewhere`: `Spec => []NoWaitCycle` for any number of processes, files,
positions and records, so that `deadflck` always ends. `NoWaitCycle` with the domains
of two functions is inductive (`CycleInv`). A return from `setflck` takes the process
out of every circle (`ReturnOpens`). For a process that goes to sleep (`BlockOpens`),
`deadflck` has found a set of processes that its walk cannot leave and that the
process is not in; where this set meets a circle through the process there would have
been a circle before.

`EntriesCounted`: `Spec => []FidsCounted`, for the same. `FidsInv` adds that what a
process waits for is a lock of a file, and that the waiters are finitely many. A turn of
`setflck` starts with the references of the others (`Others`): a process that asks has
none yet (`FirstTurn`), one that was woken up has given its own back (`NextTurn`). Then it
returns (`ReturnCounts`) or sleeps and keeps one (`BlockCounts`), whatever `flckadj` has
made of the list.

`RecordsOnceHolds` and `SleepersBlocked`: `Spec => []RecordsOnce` and
`Spec => []SleeperBlocked`, for the same. They rest on `flckadj`, whose walk is a fold:
`Loop` unrolls it into its turns, by induction, for a walk of any length. `Acc` is what
every turn keeps, whatever the list looks like, sorted or not: no record is in the list
twice, the records of the list and the free ones are those of before, and a lock that is
not as it was is one that somebody was woken up for. It is shown for `delflck` (`Removed`,
`DeleteKeeps`), for `insflck` at the place its walk ends (`Inserted`, `TakenKeeps`), for
each case of `AdjStep`, and for the new lock (`PutLockKeeps`). `TableInv` adds to the two
properties only the types and that a process that sleeps has asked for something. What a
turn of `setflck` takes from the table is in no list and is no sleeper's (`FreeIs`), and
`blocked` only ever finds a lock that is in the way (`BlockedIs`).

`ListsInOrder`, `AdjustExact` and `Implements` are model-checked only. They do not hold
for all values of the constants: with overlapping read locks `Sever` puts the piece behind
the span where the span belongs, which is what `flock_shared` shows.

## Message queues, semaphores, inodes: the run `kernel`

`MCKernel` puts three independent components into one run: the variable `part` says
which of them the three processes of a behaviour use, and `jobs` what each of them
does with it. They share only sleep and wakeup (`SleepQueue`): `wchan[p]` is the
channel `p` sleeps on, `Wakeup(C)` makes runnable all who sleep on a channel in `C`.
A signal ends a sleep (`Unsleep`), and may come to a process that was woken up and
has not run yet. All the actions are turns of a process from one sleep to the next,
because the kernel is not preemptive and no interrupt touches this data.

### Message queues (`Msg`)

`que` is `msgque` with the messages of a queue in `chain` and its mode bits, `msgfp`
counts the free headers, `map` is the set of free segments of `msgmap`, `call`, `at`
and `held` are the processes. `msgqlock` is in every action that needs the lock
(`CanLock`, `WaitForLock`, `Gone`); `SndTake` and `RcvTake` start a copy, which sleeps
with the queue locked and ends in `SndDone`, `RcvDone` or a fault. IPC_RMID waits for
the lock; IPC_SET sleeps in `copyin` without it and then changes whatever queue the
entry has become. msgctl frees the messages of a queue one by one with `Mfree`, whose
map overflows where it has fewer entries than there are headers.

| property | says |
| --- | --- |
| `NoLostWakeup` | nobody sleeps for a lock, a message, room, a header or segments that are there |
| `PoolConserved` | each header and each segment is free or belongs to one message; `msg_cbytes` is the sum |
| `ReceivesAtomically` | refinement of `TypedQueues`: a receive takes the right message at one instant, from the queue it asked for |

Left out: permissions, `msgmax`, IPC_STAT, times and pids. Sizes are in segments.

### Semaphores (`Sem`)

`sema` has the values and the counts `semncnt` and `semzcnt` of each semaphore, `undo`
the undo structure of each process. `Loop` is the loop of `semop`, a fold of `Step`;
when it stops early, `Semundo` takes back what was done. `Semaoe` is the adjustment of
an undo entry with all its ways to fail. The copies of semop, SETALL and IPC_SET may
sleep, and go on with an entry that was removed or made again meanwhile; IPC_SET of a
removed set makes it allocated again, and semop goes on with one for the super-user,
whom `ipcaccess` lets pass. `SemExit` is `semexit`.

| property | says |
| --- | --- |
| `SemTypeOK` | values stay in 0 .. semvmx and adjustments within semaem, undo entries fit |
| `SemopWaits` | nobody sleeps in `semop` uncounted, or while the operation it stopped at can be done, although the counts are not the numbers of the sleepers |
| `SemopAllOrNothing` | (action) semop does all its operations with their undo entries, or none |

A process that waits for a semaphore to become 0 after it has lowered it in the same
call (`[-1, 0]`) is counted in `semzcnt` and woken up at 0, where its list cannot be done;
that it is not woken up at 1, where it could, is what the code does, and why `SemopWaits`
says of an operation that waits for 0 only that the value is not 0, or that an operation
before it raises the value.

Left out: the map of semaphores (each set has its own), a copy that crosses a page
(`semtmp` is shared: a hazard), the commands that only read.

### In-core inodes and the name cache (`Inodes`)

`inode`, `chain` and `ifreeq` are the table, its hash chains and the free list,
`ncache` the name cache, `disk` and `dir` what is on the disk through the buffer cache,
`spare` and `s_ilock` the free inodes the super block knows. `pc[p]` says where `p` is:
a turn that calls several functions is several actions, and `Turns` lets nobody else
run in between. `iget` is `IgetWait`, `IgetHit`, `IgetPurge`, `IgetTake`, `IgetFull`,
`IgetRead` and `IgetError`; `iput` and `VN_RELE` are `Rele`, `Inactive`, `InactiveBusy`,
`Truncated` and `Flushed`. Users of them are lookup, mkdir, rmdir, mkfifo, the file
handles of the NFS server (`Vget`: any inode number, at any time) and `update`.

`Bad` are the inodes whose block on the disk cannot always be read. For one of these
`iget` may fail (`IgetError`), and `iupdat` may return without a word and leave the inode
dirty (`Written`, `5_inode.c:402`); its callers do not know. So mkdir may enter the name
of an inode that is free on the disk, although `dirmakeinode` says "Make sure inode goes
to disk before directory data and entries pointing to it" (`5_dir.c:967`), and when the
inode has left the core it may be handed out again. `GotHandle` accepts any handle for
any inode, a free one too: the generation is kept as a char and comes round after 256
files, so that some handle of an earlier file is right again (`Idrop` is when it is not).
`GotBusy` are the errors of rmdir (ENOTEMPTY, ETXTBSY), `AddEntryFails` those of the
directory's own blocks, after which the new inode is given up; `irele` panics when
another process has that inode locked, and there is no step then. `GotBusy` may happen to
any directory, since what is in them is not part of the model.

| property | says |
| --- | --- |
| `RefsExact` | `v_count` is the number of references there are; on the free list = not referenced |
| `LockOwned` | ILOCKED is the lock of one process, and who sleeps for it will be woken |
| `NamesFresh` | a cached name is in the directory with the same inode |
| `FilesLive` | no inode whose block can be read is freed or handed out again while it has a name or is open, whatever is lost of other inodes |
| `InCoreOnce` | an inode is in core once (`inode_purge` violates it) |

There is one directory whose own inode is always in core and what is in it are
directories, since only their names are cached. Inodes of other file systems
(`Foreign`) stay open and make the table short. Left out: file blocks and sizes,
rename, link, "..", mounts, quotas, `dnlc_purge_vp`; writes that fail after the block
was read. `FilesLive` says nothing of an inode in `Bad`, for the reason above, nor of who
came to an inode by a file handle, which holds it but does not make it stay in use.
Without either exception TLC finds it violated.

### Bounds

Three processes use one queue. With two
headers, three segments and messages of 0, 1 and 3 segments every resource runs out and
the free segments come in two pieces; the map has as many entries as there are headers,
and with one less `PoolConserved` is violated. Two message types and a negative
type make the choice of a message matter. For semaphores, values up to 1, two lists of
operations that get in each other's way and two undo structures for three processes
reach every failure of `semaoe`. Two in-core inodes, two numbers, two names and one
entry of the name cache: the table and the cache are full most of the time, which is
what `dnlc_purge` and `dnlc_enter` are about. One of the two numbers is in `Bad`; one write
of an inode gets lost in a behaviour (`MaxLost`) in which inodes are allocated by two
processes or written back by one, none in the others. `jobs` keeps the state space small:
two processes send and receive while the third limits or removes the queue, or receives;
one makes and removes directories while another makes pipes, writes inodes back, looks
names up or serves handles. `SemMaxSeq` and
`MaxSeq` are small, so that the sequence numbers of entries wrap within a run, which
in the code takes thousands of removals; a call that is still under way then takes the
new queue for its own, in the model as in the code. The inode part stops when an inode
is in core twice, because everything else goes wrong after that. 900 000 states.

### Disagreement found

`inode_purge`: `iget` finds the free list empty and calls `dnlc_purge`
(`5_inode.c:190`), which may sleep in `iinactive`; another process reads the same
inode in, and the first one takes a free in-core inode without looking at the hash
chain again. The inode is in core twice, each with a lock of its own.

### What is proved

`MessagesNoLostWakeup` (`IpcProofs`): `MsgSpec => []NoLostWakeup` for every number of
processes, queues, headers, segments and every size. The inductive invariant `MsgInv`
adds to it what a waker relies on: the channels of sleepers are those of their places
(`Channels`), and a queue that is free is unlocked and wants nobody (`FreeUnlocked`),
so that a process that finds a queue removed has been woken. There is a lemma for each
action; those that free something use that `Wakeup` wakes all who wait for what was
freed (`WaitsAll`), those that change nothing another process waits for use
`OthersWait`. What `mfree` computes for a list of messages is a fold and stays opaque:
the proof needs only that the waiters are woken when the map has changed.

`MessagesReceiveAtomically` (`IpcProofs`): `MsgSpec => ReceivesAtomically`, that is,
`Msg` implements `TypedQueues` for every number of processes, queues and messages. The
initial states map to initial states, and with `MsgInv` and `CopyInv` every step maps to
a step or a stutter: `msgget` to `Open`, the end of `msgsnd` to `Put`, the call of
`msgrcv` to `Ask`, the end of its copy to `Take`, its failures and signals to `GiveUp`,
IPC_RMID to `Discard`. `CopyInv` is what the lock of a queue is for: a process that copies
owns the lock of a queue that is still the one it asked for, it alone copies there
(`OneCopies`), and the message it holds is still the one its type picks (`IsChosen`).
`StepKeeps` shows once that a step which leaves locked queues alone keeps all this;
`RcvDoneStep` then needs that the first message equal to the chosen one is the chosen one,
and `PicksSelects` that the loop of `msgrcv` (the candidates in order, a lower type
wins) selects what `TypedQueues` says. `Discard` needs `MaxSeq > 0`: the next queue of an
entry must have another sequence number.

`RefsExactHolds` and `LockOwnedHolds` (`InodesProofs`): `InoSpec => []RefsExact` and
`InoSpec => []LockOwned` for every number of processes, in-core inodes, inode numbers, names
and entries of the name cache. They hold without the restriction of the run `kernel`:
an inode that is in core twice spoils neither the counts nor the locks, only what they
are for. The inductive invariant `InoInv` says what is true of a process at each place of
a call (`Places`: which inodes it refers to, which locks it has and what it has put in
order before), that one process is in the middle of a turn (`OneRuns`), that `v_count` is
the number of references of processes and of cached names (`Counted`), when an inode is
free (`FreeOnce`, `InUse`), and that a locked inode has one owner and everyone who waits
for it a mark (`OneOwner`, `Owned`, `Waited`). `Keeps` says once what a step
of a process has to show for all of it (`KeepsInv`), and each action has a lemma that
shows it. Counting references is counting processes, and occurrences in a sequence: the
lemmas `CountChange` of `FiniteSums` and those on `Occurs` compare the cardinalities before
and after.

`SemTypeOKHolds`, `SemopWaitsHolds` and `SemopAllOrNothingHolds` (`IpcProofs`):
`SemSpec => []SemTypeOK`, `SemSpec => []SemopWaits` and `SemSpec => SemopAllOrNothing`
for every number of processes, sets and semaphores, every limit and every list of
operations; `SemAssumption` says that these lists are sequences of operations, that
SETVAL and SETALL are given values in range, which `semctl` checks, and no more.

- The loop of `semop` and that of `semundo` are folds. `LoopExists`, `Turns`, `RanTurns`
  and `BackTurns` take a fold apart into a function of the turns, so that what holds after
  every turn can be shown by induction over their number. `TurnOK` says it of `semop`:
  as many operations are done as turns were made, until the loop ends (`StepIs`, `TurnsOK`).
- `semundo` calls `semaoe` for every operation it takes back and does not look at what it
  returns. `Restored` is why it need not: an adjustment that was made can be taken back,
  since the entry is there or has left its place free, the structure is held, and the old
  sum was in range. Turn by turn `UndoneOK` goes back along the states of the loop, to the
  values and entries it began with (`SemundoOK`); with `SumsOK`, which adds up what the
  operations have done when there was no need to go back, this is `LoopIs` and hence
  `SemopAllOrNothing`.
- `SemInv` is what makes `SemTypeOK` and `SemopWaits` inductive: the call of a process fits
  where it is in it, a process that sleeps does so on the channel of the semaphore it
  stopped at, and it has got what `SemopWaits` says (`ProcOK`). What others must do for a
  sleeper is the relation `Watched` between a set before and after a step and the channels
  that are woken up: of a semaphore that is counted, either the channel is woken up, or it
  is still counted, and its value is not greater (`semncnt`), or is 0 only if it was
  (`semzcnt`). It is transitive while wakeups accumulate (`WatchedTwice`), so that it holds
  for a loop as a whole, also for one that is taken back: `semundo` wakes up nobody, and
  nobody need be, as the values are those before the call. Each action has a lemma that it is
  `Watched`, of which `ProcKept` and `InvKept` make the rest. What a signal does to the counts
  (`SemInterruptKept`) and what `semexit` does to all sets at once (`ExitOK`) are two cases
  among these.

`PoolConservedHolds` (`IpcProofs`): `MsgSpec => []PoolConserved` for every number of
processes, queues, headers and segments and every size, if `MapSize >= Hdrs` and
`MapSize > 0`. The invariant `PoolInv` says of the messages there are, by their places,
that their texts are apart, that each segment is in one of them or free (`Pool`), and that
`msg_cbytes` is the sum of a queue's sizes. `PoolFreed` is why the map does not
overflow. A free piece begins at the first segment or behind a text. If a text
touches no piece, none begins behind it, nor behind what is in front of it; so there are
fewer pieces than texts, and there are no more texts than headers. IPC_RMID frees the
messages of a queue with a fold, and `msg_cbytes` is one: they are taken apart turn by
turn (`LoopTurn`), like the loops of `semop`.

Model-checked only: `NamesFresh` and `FilesLive`, which hold only as long as an inode is in
core once, so that no theorem about `InoSpec` can state them.

## An NFS call, a terminal's stream, the clock: the run `rpc_streams`

`MCRpcStreams` puts three components that share only sleep and wakeup into one run; `part`
says which of them a behaviour is about. It has 970 000 states.

## An NFS call: `Rpc`

A client takes a handle (`Start`: `clget`), and `clntkudp_callit` waits for the buffer
of the handle, sends, waits for a reply or for the timer, and tries again with the same
transaction id; then `rfscall` gives up or calls again with a new id. An `nfsd` takes a
request off its socket (`Recv`), calls the file system (`Served`) and replies, when the
datagram of its last reply is freed (`SendNow`). Two kinds of calls stand for what the
server does about retransmissions: `rfs_write` asks the duplicate cache first,
`rfs_remove` when the file system says ENOENT.

Datagrams are not copied. `out` are those that the driver has not sent yet; they, and
over the loopback interface those in sockets, refer (`ref`) to the buffer of the sender,
and what they say is what the buffer holds when they are read (`XidOf`, `Says`). `net`
is the wire, which reorders and loses datagrams (one that is never delivered is lost).

| property | says |
| --- | --- |
| `BuffersOwned` | a buffer is busy exactly while a datagram refers to it, and is not written meanwhile |
| `RightReply` | what a client accepts is what the server did for this call |
| `DoneOnce` | while the duplicate cache remembers a request, a write is not done again and a removal not answered with ENOENT |
| `KludgeWorks` | (liveness) client and server do not wait for each other's buffers for ever |

The bounds: on the loopback interface two clients, one server and three transaction
ids, on the wire one client, two ids and calls of both kinds; two tries for each; a
socket of two requests and a cache of two entries, so that both overflow. `Crowded` are the routes on which a send may fail. Fairness: a process that
can run does so in the end, the timers go off; nobody has to call, and no datagram has
to arrive. One server: with several, a retransmission may be served while its
original still is, which misses the cache, as in the code. Everything of one call is
one datagram (a request in fragments is complete or does not arrive). Left out: the
contents, credentials and XDR; the errors of `rfs_write` (`nfs_server.c:582-596`: a write
that fails, or whose second VOP_GETATTR does, is answered with the error and not put into
the duplicate cache, so that a retransmission writes again); ids do not wrap; `CKU_BUSY`, which `ch_inuse` makes
needless; the waiting in `clget`, which is a client that has not started.

### What is proved

`RightReplies` (`RpcProofs`): `RpcSpec => []RightReply` for any number of clients,
nfsds, handles, tries and transaction ids, any sizes of the queues and of the cache.
That the ids agree says nothing by itself, since a handle goes from client to client
with the late replies in its socket. `ReplyInv` adds three things. A client in a call
has a handle that is in use and that no other client has (`HasHandle`, `HandlesApart`).
While it waits for replies, the buffer, against which `clntkudp_callit` compares the id
of a reply, holds the id of its call (`SentItsCall`); between `Start` and `Send` it may
hold that of an earlier one, and no reply is looked at then. And whatever a buffer of an
nfsd, the driver, the wire or a socket says was done by some nfsd (`AllHonest`), also
after the buffer was written again. There is a lemma for each kind of turn; `ClientKeeps`
is what the turns of a client share.

`BuffersAreOwned`: `RpcSpec => []BuffersOwned`, for the same. `BuffersOwned` counts the
datagrams that refer to a buffer as a set, and equal ones as one; the invariant counts
places. `OneCall` and `OneReply` say that at most one place in the driver's queue, the sockets and
the hands of the nfsds refers to a buffer; `CallHeld` and `ReplyHeld` that the buffer is
busy exactly while one does, and what it says; `SendersWait` that an nfsd that waits
for its buffer still sleeps on it while it is busy, so that nothing but `buffree` lets it
write; `Ways` that over the loopback interface nothing waits for a driver and on the
wire no socket refers to a buffer, so that the places are not mixed up. A turn of a client
that reads `n` replies frees `n` at once (`Reads`, `TurnReads`), which is the longest part.

`NeverDoneTwice`: `RpcSpec => []DoneOnce` if there is one nfsd (`OneNfsd`), and
`RemovedOnce`: the part about removals, `NoEnoent`, for any number of them. With two
nfsds `DoneOnce` is false of writes, for the reason above. The invariant `OnceInv`: every
request under way has the id of a call, which needs `BufferInv`, since the driver sends
what the buffer says (`MailNumbered`); an entry that was saved is as many places from the
end of the cache as were saved since, while there are so many places (`CacheKeeps`, with
`SinceGrows` on how the number of them grows); and what the nfsd found in the cache when
it took a write is so until it has done it (`StillDup`).

TLC checks the parts of `BufferInv` and `OnceInv` on the instance of `rpc_streams` as
well. `KludgeWorks` is model-checked only: it is about fairness.

## The way down a terminal's stream: `Streams`

`write` and `ioctl` enter at the stream head, the line discipline and the display each have
a queue with a service procedure, and the display's interrupts and its break timer come in
from below. `sd` is the part of `struct stdata` that has to do with this; `wq` are the two
write queues with QFULL (`full`), QWANTR and QWANTW; `runq` is the list of queues that
`qenable` makes, `serving` is `queuerun`: which queue it serves, and how far the procedure
is. `tty` is the output that is held back (`t_xm`), TTSTOP and TIMEOUT. `timers` counts
the entries of `str2time`, `str3time` and `ttx_brktimer` in the callouts. `task[p]` is a
process with its ioctl. `owed` and `last` are history: which messages were sent and
neither handled nor flushed, and the last one that was handled.

A process runs from one sleep to the next, except that `putnext` ends in `runqueues`: the
service procedures it has enabled run before it goes on (`WriteDone`, `IoctlSent`), and
interrupts come between any two of their calls of `getq`, `canput`, `putnext` and `putbq`,
each of which is one action (`LineGet` .. `DispIoctl`). The clock calls no timer while
queues run (`TimersRun`), as `clock()` looks at `queueflag`. Keyboard interrupts are
`KeyStop`, `KeyStart` and `KeyIntr`, which flushes both queues. Control of the ioctls is
IOCWAIT: `IoctlBegin` takes it or sleeps, `IoctlAgain` tries again, `IoctlNotBegun` and
`IoctlGivenUp` are signals and timers that went off.

| property | says |
| --- | --- |
| `InOrder` | what is sent reaches the display in the order in which it was sent, whatever is put back, flushed or held; only data that an interrupt character flushes is lost |
| `NoStall` | a queue with messages is enabled, or waits for the queue below it, for the start character or for the end of a break |
| `AckIsOwners` | one process has control of the ioctls; it takes the answer to its own ioctl and no late one; who waits for control is woken when it is free |
| `TimersOwned` | who waits for an answer has a timer, and no timer is left behind by one who no longer waits |
| `WritersWoken` | nobody sleeps for room that is there (`stream_writers` violates it) |

The bounds: a queue is full with one message (`HiWat`), so that every queue is full, empty
and full again within four messages (`MaxMsgs`); two writers and an ioctl that waits for
the output, a writer with two processes that do ioctls, or three of these (`Jobs`; three
messages in the last two). Ioctls are TCSETA and TCGETA, which are answered at once,
TCSETAW, which waits for the output, and TCSBRK, which also makes a break.

What is abstracted: a message is one block, marks count messages and not bytes; output
processing of the line discipline; `allocb` does not fail. Left out: reading, open, close,
push, hangup and errors of a stream, select, getmsg and putmsg, multiplexing. One
peculiarity breaks none of the properties: `untimeout(str2time, stp)` (`streamio.c:1313`)
takes the first entry of the stream, so that a process which gets control while another
goes on waiting may leave the other one without a timer or with a late one. `AckIsOwners`
says that it is woken nevertheless, when the ioctl ends.

### What is proved

`StreamsProofs.tla` proves all four properties that hold, for every set of processes and of
ioctls, every high-water mark and every number of messages. It assumes `HiWatAssumption`
(a mark that is not 0) and nothing else.

- `NoStallHolds`. `NoStall` does not carry itself: that a queue with messages is enabled
  rests on QWANTR of a queue found empty, and that the line discipline is woken rests on
  QWANTW of the display's queue *while it has messages*. `QueueInv` says so: `StallInv`
  for the flags, `ServiceKept` for what a service procedure has in hand at each step (the
  window between `canput` and `putbq`, in which the queue below must not be emptied
  unnoticed), and the types. Each step of a process is one of four kinds for the queues
  (`ProcessKinds`); each service procedure and interrupt is a case.
- `InOrderHolds`. `OrderInv` follows the messages from place to place (`Places`: held by
  the output, in the display's hands, its queue, in the line discipline's hands, its
  queue): each queue is in order, and so are any two places. A step moves one message to
  the next place or back (`OrderMoves`), outputs the first (`OrderHandled`), drops some
  (`OrderDrops`) or adds the last (`OrderAdds`); `OrderSays` puts the places together.
  An interrupt character filters both queues in the loop of `flushq`. `NotDataKeeps`, that
  the loop keeps the order and only drops data, is by induction over its turns: the
  library's theorem that finite sets are well-founded needs no operator as a parameter,
  and gives a least turn that goes wrong (`LeastNat`, `InductionTo`).
- `AckIsOwnersHolds` and `TimersOwnedHolds`, from `IoctlInv`: `SleepsFor` says from the
  channel of a process what it does, and that one asleep for an answer has STR3TIME set,
  without which `str3time` would wake nobody; `TimerOf` gives the timer its owner, and
  counts the timers for control against the processes that wait.

### Disagreement found

`stream_writers`: two writers sleep for room, a signal ends the sleep of one, and this one
resets WSLEEP (`streamio.c:2168`). When there is room, `strwsrv` finds WSLEEP reset and
wakes nobody: the other writer sleeps although the queues are empty.

## Callouts: `Callout`

`calltodo` is the table of `clock.c`: overdue entries in front, then differences.
`CalloutTimeout`, `CalloutUntimeout`, `Clock` (the part of the interrupt that counts down) and
`Timein`, which calls one function, are the operations; `left` in an entry is history: the
ticks it still has. `TimesExact` says that the sum of the differences up to an entry is
what it has left, whatever was put in or taken out before it and however late `timein` is.
Two functions, times of up to three ticks, four entries, and entries up to two ticks late
reach every place of an insertion or removal: in front of, among and behind overdue entries
and entries of the same tick. A full table makes `timeout` panic; here the caller does not
call. The number of ticks that an entry is late is the only unbounded number.

`TimesExactHolds` (in `StreamsProofs`, beside the timers of ioctls) proves it for any times,
any length of the table and entries that are late by any number of ticks. The inductive
invariant `CalloutInv` adds that no entry behind one that is still to come is overdue
(`DueFirst`): otherwise `clock`, which counts down only the first of those to come, and
`untimeout`, which gives the ticks of an entry to the next one, would move the others. The sum
is a fold of the library; `UntilStep` says once what one more entry adds to it (from
`SumRemove` of `FiniteSums`), and `UntilSame` that a stretch of two lists with the same ticks
keeps its distance, by induction over the stretch. What is before, at and behind the place
of a change are then three stretches.

## Not modelled

Of 144 000 lines of implementation this project models the parts whose state several
processes or interrupts share and whose rules can be stated without the hardware:
the components above, about 5 000 lines of source. The rest is left out for these
reasons.

- Drivers, video, sound, Macintosh toolbox, debugger, assembly, boot code and tables
  (about half of the lines): their behaviour is the hardware's, or they are data.
- TCP/IP, sockets and mbufs are 4.3BSD's, for which models are published; only what
  RPC relies on is here.
- Of streams and terminals, what goes up: reading, the line discipline's input, open and
  close, and the drivers of serial lines.
- Regions, paging, fork, exec and exit depend on the MMU and on structures in headers
  that the repository does not hold.
- The NFS client's vnode operations and XDR: mostly conversions.

`PROJECT.json` gives the reason for each component.
