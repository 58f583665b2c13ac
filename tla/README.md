# Verification of node-ext2fs

TLA+ specifications of node-ext2fs, the WebAssembly binding of libext2fs that
offers node's `fs` interface on an ext2/3/4 image: models of its parts, TLC
configurations that check them on small instances, and TLAPS proofs of what
matters most for instances of any size. Paths are relative to the repository.

## The system

| part | code | state | operations |
|---|---|---|---|
| operation queue | `lib/queue.js`, `lib/util.js` `ccallThrowAsync`, `lib/binding.js` | `running`, `queue`, the C call under way | `addOperation`, `run` |
| hooks | `lib/util.js` `withHooks`, `usePath(s)`, `useBuffer`, `useObject`, `getIdManager` | the global `hookId`, `objIds`, `memAddrs`, the free ids, C memory | start and end of an operation, each `use...` |
| mounts and open files | `lib/ext2fs.js`, `src/pre.js`, `lib/fs.js` `open`, `close`, `closeAllFileDescriptors`, `checkFd`, `FileHandle.close` | `openFiles`, the object ids, C's filesystems and files | mount, umount, open, close, use |
| namespace calls | `src/glue.c`: open with O_CREAT, mkdir, link, symlink, unlink, rmdir, rename | inode table, inode bitmap, directory entries | one per call |
| trim | `src/glue.c` `node_ext2fs_trim` | `start`, `blk`, the requests made | one pass over the block bitmap |
| open files | `src/glue.c` open, read, write, chmod, chown, close; `lib/fs.js` read, write, fchmod, fchown | position, inode copy and buffer of an `ext2_file_t`; the inode table | open, read, write, append, chmod, chown, close |
| attributes and times | `src/glue.c` chmod, chown, `update_*time`, the stat getters, readlink, readdir; `lib/fs.js` fstat, stat, lstat | the inode table, the inode copy of an `ext2_file_t`, C's heap | one per call; stat is an open, a getter, ten getters and a close |
| streams | `lib/fs.js` ReadStream, WriteStream | the shared read `pool`; `fd`, `destroyed`, `_isClosed` of each stream | open, `_read`, `_write`, `_writev`, destroy, close |
| block I/O | `src/glue.c` blk_read ..., io_manager; `lib/disk.js` | the block size of each channel; the disk object | read, write, flush, discard, zeroout, set_blksize |
| error translation | `src/glue.c` `__translate_error`, `lib/wasi.js`, the codes of `src/ext2fs.h` | none | one per error that a call returns |
| libext2fs | `deps/` (a submodule, empty here) | | external: modelled by how the code uses it |
| build | `Makefile`, `config/`, the prototypes of `src/ext2fs.h` | none | not modelled |

### How the parts interact

An operation of the program (`fs.rename(...)`) is wrapped by `withHooks`: it
takes an id, asks C for memory and copies its paths there, calls the binding and
frees the memory in the end. Every one of those C calls, `malloc` and `free`
included, goes through the one queue of the module, because the C code is
compiled with Asyncify, which can keep a single C stack suspended. A C call
suspends whenever it reads or writes a block: `blk_read` finds the disk object
under its id in `objects` (`src/pre.js`) and awaits the user's `disk.read`. So
the JavaScript side is full of interleavings, the C side has none, and the
errors of the disk enter in the middle of C functions.

### What is hard

- *Interleaving.* JavaScript state read before an `await` and used after it:
  `hookId`, `openFiles`, `pool.used`.
- *Stale copies.* Each open file has its own copy of the inode and of a block.
- *Ordering and liveness.* An operation added while `run()` ends; an operation
  that waits behind the call that waits for it.
- *Partial failure.* The calls of `glue.c` make several writes and stop at the
  first error; JavaScript rejects halfway through `umount`.
- *Long sequences of legal calls* that leave wrong link counts, two entries of
  one name, or directories that are not a tree.
- *Pointer and id reuse.* Descriptors are pointers and malloc hands them out
  again; disk ids and hook ids are pooled.
- *Boundaries.* The last block of a trim; offsets and counts of C that JavaScript
  reads as signed; times after 2038.

PROJECT.json lists each at its line, with the properties that cover it.

### What makes each part correct

- queue: one C call at a time, in the order of arrival, none forgotten;
- hooks: an operation frees exactly its own memory, after its C call;
- mounts: `openFiles` and C agree on what is open; every file is closed once and
  before its filesystem; a mounted filesystem reads and writes its own disk;
- namespace: exact link counts, unique names, a directory tree, no name that
  leads to a free inode, and nothing changed by a call that throws;
- open files: a read returns the bytes that were last written there, and no write
  undoes what another descriptor or path did;
- trim: discards only free blocks, in maximal runs, and all of them;
- attributes: a stat is one look at the inode, times are those of the last call
  that set them, and no way out of a call leaves memory that is not accounted for;
- streams: the bytes that were pushed arrive in order, and every descriptor is
  closed, once;
- block I/O: each filesystem reads and writes its own units of the disk, and an
  error of libext2fs reaches the program, and one of the disk in the calls that do
  not translate it (in the others it does not, which is finding 1).

## The modules

| module | models | extends or instantiates |
|---|---|---|
| `SerialServer` | what the queue promises: a first-come first-served server | |
| `OpQueue` | `lib/queue.js` and `ccallThrowAsync` | refines `SerialServer` |
| `OpQueueProofs` | proofs about `OpQueue` | `OpQueue` |
| `Hooks` | the hooks of `lib/util.js`, one microtask per step | its own queue, as in `OpQueue` |
| `HooksProofs` | proofs about `Hooks` | `Hooks` |
| `Mounts` | `lib/ext2fs.js`, `src/pre.js`, descriptors of `lib/fs.js` | the line of `SerialServer` |
| `MountsProofs` | proofs about `Mounts`: disks and ids, then open files | `Mounts` |
| `Namespace` | the naming calls of `src/glue.c` | atomic calls, by `OneCallAtATime` |
| `NamespaceProofs` | proofs about `Namespace` | `Namespace` |
| `PosixFiles` | what node's `fs` promises of open files | |
| `Handles` | an `ext2_file_t` and the calls on it | refines `PosixFiles`; atomic, by `OneCallAtATime` |
| `HandlesProofs` | proofs about `Handles` | `Handles` |
| `Trim` | `node_ext2fs_trim` | atomic, by `OneCallAtATime` |
| `Errors` | error codes, `__translate_error`, `ERRNO_TO_CODE` | |
| `BlockDevice` | what an io_manager promises libext2fs | |
| `DiskIO` | the io_manager, `DiskWrapper`, the way of an error | `Errors`; refines `BlockDevice` |
| `DiskIOProofs` | proofs about `DiskIO`, then `Trim` | `DiskIO`, `Trim` |
| `Inodes` | attributes, times, stat, readlink and readdir | atomic calls, by `OneCallAtATime` |
| `InodesProofs` | proofs about `Inodes` | `Inodes` |
| `Streams` | `ReadStream` and `WriteStream`, joined in pipes | calls answered in order, by `ImplementsServer` |
| `StreamsProofs` | proofs about `Streams` | `Streams` |
| `MC...` | constants for TLC | the module of that name |

Operators with the word *Slip* in their comment are variants of a definition
that a small mistake in the code would give. No specification uses them; they
are there to test that the properties tell them from the code.

### OpQueue

`running` and `queue` are the variables of `queue.js`. `stage[c]` says where the
operation of caller `c` is: queued, taken by `run()`, returned from C, or settled
with its continuation still to run. One action is one piece of JavaScript
without an `await` in it: `AddOperation` (with the `run()` it calls when nothing
is running), `CallReturns`, `Settle` (resolve or reject, then `run()` in the
`finally`), `Continue` (the end of `ccallThrowAsync`). `Inner` names the callers
whose operation is awaited by the disk object of another one, which happens when
an image is a file of another mounted image.

### Hooks

Who files memory under which id depends on the order of microtasks, so `Hooks`
models the job queue of JavaScript: `jobs` is first in first out, a job runs to
the next `await`, and the number of awaits between a C call and the code that
waits for it is that of the source (`run`, `ccallThrowAsync`, `useBuffer`,
`usePath`, the body, `finally`, the rest of `finally`). The program may start an
operation between any two jobs, and the disk may answer between any two: a job
of the program or of the disk can be anywhere in the queue. The whole heap is
the record `js`, and the JavaScript functions are operators from one heap to
the next, called by each other as in the code. `Plans` lists what the bodies
of the hooked functions of `lib/fs.js` await.

### Mounts

The C queue is the sequence `line` of `SerialServer`. `Serve` is what C does for
the oldest call; its continuation joins `answered` and runs later, in order
(`Resume`); users and umounts act between the two. `Serve` frees and allocates
the pointers that are descriptors, so a freed one comes back with the next open.
`misuse` records a close or read of freed memory. What `useBuffer` and `usePath`
do is one more trip through the queue between `checkFd` and the binding.

What the program does: each user has one descriptor and awaits what it calls;
`umount` is called when no user of that disk awaits anything, as
`withMountedDisk` does after its `fn`; descriptors may be left open then, and be
used after the umount; after an umount that rejects they are given up. Calling
`umount` twice at once, or with operations in flight, is outside the model.

`openFiles` is one Map per mount (`lib/fs.js:248`, `:259`). A descriptor that outlives
its umount is looked up in the Map of the mount it came from, which
`closeAllFileDescriptors` has emptied, so `checkFd` fails whatever malloc does with the
pointer. `Reusers` are users that hand it to the `fs` object of the next mount instead:
there it passes when the pointer is a descriptor again. The run has none (see the
findings). `cLeft` are disks whose `mount` failed behind `ext2fs_open`
(`src/glue.c:318`), which leaves the filesystem open in C while its id goes back to
the pool; `OwnIds` and `OwnDisk` hold beside them, as nothing in C uses such a
filesystem again.

### Namespace

`fs` is a record of the inode table (mode, link count), the inode bitmap and the
directories; `ents[d][n]` is the *sequence* of entries that directory `d` has
under the name `n`, because nothing in ext2 itself keeps it at one. A call of
`glue.c` is an operator from a filesystem to the set of its outcomes, one for
each place where a disk access may fail, with the state left by the writes made so
far, and with the sign of the result (`ret`): `binding.js` throws negative
ones only. A full disk needs no disk error: an inode or a block cannot be allocated, or
`ext2fs_expand_dir` finds no room for a new entry, and the call goes on as after any
other error (`DiskFull`, with `ret` "full"; it is thrown). `Then` is the
`if (ret) goto out` of the source.

`Habits` lists what the passing runs leave out, and the section on findings says
what each breaks. They are calls that a POSIX system refuses or that the glue handles
differently (link over an existing name, under a file, of a directory or into a
missing directory; rename through a symbolic link or of a directory into itself;
create over a dangling link, or of a file by an open that wants a directory), and
what a full or failing disk makes of a call that does not undo what it has done: a
link that finds no room for its name (`linkWhenFull`), a rename that finds none
after it has removed its target (`renameOverWhenFull`; whether libext2fs, having just
removed an entry there, can still fail so is not in the repository), and a disk error
between the writes of `ext2fs_mkdir` (`mkdirCutShort`). Without the last, `ext2fs_mkdir`
is all or nothing, an assumption about libext2fs.

### Handles

`table` and `data` are what the disk holds of each file, `file[u]` is the
`ext2_file_t` of a user: a copy of the inode, a position, and a buffer of one
block that may be dirty. A call is an operator on a record `w` of that file, its
row of the table and its data: `ReadInode` copies the row, `WriteInode` writes
the copy back, and which of the two a function of `glue.c` calls, and when, is
what the module is about. What libext2fs does on the file (`FileRead`,
`FileWrite`, `SetSize`, `Flush`) is external: its source is not here, but
`src/ext2fs.h` declares the structure and `glue.c` reaches into it. Block
allocation is left to it too, so a file keeps its blocks. Directory entries,
and what creates and frees an inode, are in `Namespace`: here `Link`, `Unlink`
and `Open` do what those calls do to the inode.

A flush may fail wherever there is one: at the end of a write, at a close, and when
the position leaves a dirty block in the middle of a read or write (`Stuck`), which ends
the call with an error and what it has done so far (`ReadRejects`, `WriteRejects`).

Two variables are history. `offset[u]` is where the descriptor of node would stand,
`answer` the bytes that the last call returned. In `PosixFiles` a file is a sequence
of bytes and a read answers with a slice of it; the mapping takes the bytes of
dirty buffers before those of the disk, and `answer` as it is, so that a read from a
stale or wrong buffer is not a step of `PosixFiles`.

`Habits` says what the program may do with a file that one task has open for
writing, or with a descriptor. The passing run has a program that opens a file
for writing when nobody else has it open, changes the attributes of an open file
only when no other task writes it, and uses a descriptor either always or never
with positions.

### Trim

`Iterate` is one iteration of the C loop, `DiscardFails` the early return. The
bitmap is arbitrary at the start and changes arbitrarily between two trims.
`blk` and `start` wrap at `IntWord`, and `TrimAssumption` states what the code
needs: the block count is not the largest unsigned int.

### DiskIO

Several filesystems are partitions of one disk object. `asked` is the request of
libext2fs under way and `access` the access of the disk that JavaScript awaits
for it; `AccessOf` is the arithmetic of `blk_read`, in words of the build, with
the block size that the channel has at that moment (libext2fs sets it to 1 KiB
while it reads or writes a superblock) and the offset of the partition.
`DiskAnswers` is one resolved access, `DiskRejects` one that fails with any part
of it done; a zeroout is two accesses. `BlockDevice` is an array of units for
each filesystem, where a request that fails may have been done in part; it
steps once for each access. `LibReturns` and `FlushEnds` are the end of a C
call: its error is negated, or goes through `__translate_error`, whose `switch`
is the table in `Errors`.

`DiskIOAssumption` says what the arithmetic needs: block numbers below 2^31 and
blocks smaller than 32 KiB, for both are read as signed. Without it, blocks of
32 KiB or 64 KiB give negative offsets.

### Inodes

`row` is the inode table, `file[t]` the copy in the `ext2_file_t` of a task. A
time on the disk is a signed low word and two bits of the extra word; 2^31 is
the constant `Half`, and `Instants` has times before it, where the low word is
negative, and where it has wrapped. Users open the file, chmod, chown, read and
write through the copy; calls by path (link, rename, entries of a directory)
write both words of a time. A stater is a `stat()`: open, `stat_i_ctime`, the
getters of the `Promise.all`, close. `stamped` and `seen` are history: which call
set a time last, and the row at the open. `heap` counts the files and buffers
that C has; `left` counts the files nobody will close: that of a `readdir`, of an
open whose truncation fails, of a stat that throws.

### Streams

A pipe is a ReadStream and a WriteStream. `pools` are the pools that
`allocNewPool` has made, the last being the current one; a chunk is a slice of
a pool, as in the code, so that a pool filled twice changes bytes on their way.
`stream` has the fields `fd`, `destroyed`, `_isClosed` and whether a close waits
for 'open'. Calls wait for C in `queue`, and each action that answers one
includes the JavaScript that goes on then. A read or write is two of them,
`malloc` and the call. What a read returns after its stream was destroyed is
dropped, as node's `push` does. `Readable`, `Writable` and their `pipe` belong to node:
modelled from how the two classes use them, with `autoDestroy`, its default.

`Habits` are `overlap` (two `_read` under way at once) and `destroyEarly` (a
stream is destroyed while its read or write waits for memory).

## The runs

| run | instance | states | shows |
|---|---|---|---|
| `opqueue` | 4 callers, the disk of c1 awaits c2 | 4 248 | the safety of the queue, its refinement of `SerialServer`, that every call is answered unless a disk awaits the queue, and that such an inner call never starts |
| `hooks` | a `link`, a `read`, an `fchmod` | 26 890 | own memory, no misuse, no `HookError`, no leak, every operation ends |
| `mounts` | 2 disks, 2 users of one, 2 pointers, stale descriptors, errors in mount, open, read, umount | 101 125 | files used while open and closed once, before their filesystem, `openFiles` exact, own disks, every umount ends |
| `handles` | 2 users, 1 file of up to 3 bytes, blocks of 2 | 259 853 | a file is one sequence of bytes for all, which every read returns, appends and truncations included; no update is lost; gaps are zeros; whichever flush fails |
| `inodes` | 2 users and a stat of a file, a directory or a link, 3 instants, 3 allocations | 362 030 | a stat is one look; times are right; what memory is left, and by whom |
| `streams` | 2 pipes of 2 and 1 bytes on pools of 1 and 2, one stream in trouble | 319 897 | bytes in order, no descriptor used or closed after its close, all closed in the end |
| `diskio` | 2 partitions of 4 and 2 units, blocks of 2 and 1, 4-bit words | 249 312 | each filesystem has its own device; every error reaches the program but the EIO of a disk in a call that translates it |
| `trim` | blocks 1 to 6, words below 10 | 9 008 | only free blocks, all of them, the loop ends |
| `namespace` | 4 inodes, 2 names, paths of 1 or 2 names, a disk that may be full but for a link or a rename over a target | 54 190 | exact counts, unique names, a tree, a throw changes nothing |
| `namespace_faults` | 3 inodes, two disk errors | 46 122 | counts never too low, no name of a free inode |
| `handles_append` | two descriptors opened to append | violation | finding 2 |
| `namespace_disk_errors` | one disk error in rename | violation | finding 1 |

### Bounds

- *Callers.* Four: one active, one behind it, one added while `run()` ends, and
  the nested one. The proofs need no bound.
- *Operations of Hooks.* One with two buffers, one with one, one with none, each
  made once; ids are reused when one ends before another starts. Two buffers of
  one operation are the most that the code asks for.
- *Pointers.* As many as users, so that a freed pointer is always reused.
- *Disks.* Two, so that ids are pooled, reused and could be confused. The loop
  mount - umount is not bounded. The proof of `OwnDisk` needs no bound.
- *Inodes.* The root and three (two with disk errors): a directory in a
  directory with a file in it, or three names of one file; numbers are reused.
  Paths of one or two names and one link target are enough for a link to a
  directory, moves between directories and over existing names. `MaxWalk` bounds
  a path walk at 6 steps, where a loop of symbolic links is reported; no path of
  the instance takes that many otherwise.
- *MaxFaults.* Two, so that the error path of an error is taken too.
- *Bytes of a file.* Three, in blocks of two, at most two by one call: writes
  inside a block, across two, past the end with a gap, and a last block that is
  not full. Two values of a byte, one of them zero. One file: descriptors of two
  files share nothing here. Two names, so that a link and an unlink go unnoticed
  or not.
- *Instants.* One below `Half`, one where the low word is negative, one where it
  has wrapped once. `HeapSize` is three: what is left behind fills it, and calls
  without memory are refused. The proofs need no bound.
- *Units of a disk.* Two partitions behind a unit of neither, in the order
  opposite to their block sizes; every request of blocks within them, with a
  superblock between. Data are patterns of two values whose neighbours differ,
  so that a shift by one unit shows. The proofs need no bound.
- *Bytes of a pipe.* Two, read one at a time, and one, read into a pool with room
  for two: a pool that is used up, one that is shared by the two streams, and
  one with a rest. `MaxBuffered` chunks wait for their write, so that `_write`
  and `_writev` both happen; `MaxTroubled` is one stream that fails or is
  destroyed.
- *Blocks of a trim.* Six: runs at both ends, adjacent to each other's
  borders, empty and full; all 64 bitmaps, before each of any number of trims.

### Fairness

`OpQueue`: `Settle` and `Continue` are microtasks, which JavaScript runs when
the stack is empty; `CallReturns` is fair because C functions end and a disk
answers, if only with an error, except when it awaits the queue, where the
action is disabled. `Hooks` and `Mounts` assume the same of jobs and C calls.
`Trim`: the C loop is sequential code. `Streams`: every call of C is answered
(`EveryCallAnswered` of `OpQueue`), node's streams go on when they can, and the
answer may be an error each time. Nobody is obliged to call anything.
Deadlock checking is off where the program may stop: in `opqueue`, where the
nested call hangs, in `hooks`, where all operations end, in `streams`, where all
pipes are closed, and in `handles`, where a bound may stop it.

## Proofs

TLAPS proves, for all values of the constants that meet the assumptions:

| theorem | says | assumes |
|---|---|---|
| `OpQueueProofs!TypeCorrect` | `TypeOK` | `InnerAssumption` |
| `OpQueueProofs!MutualExclusion` | `OneCallAtATime` | |
| `OpQueueProofs!NobodyForgotten` | `RunningIsTrue`, `NoLostWakeup`, `QueueHoldsWaiting` | |
| `OpQueueProofs!NestedMountHangs` | `InnerNeverStarts` | |
| `OpQueueProofs!QueueIsServer` | `OpQueue` implements `SerialServer` | |
| `DiskIOProofs!TrimTypeCorrect` | `TrimTypeOK` | `TrimAssumption` |
| `DiskIOProofs!NeverDiscardsUsed` | `OnlyFreeDiscarded` | |
| `DiskIOProofs!RequestsAreMaximal` | `MaximalRuns` | |
| `DiskIOProofs!TrimIsComplete` | `CompleteWhenDone`, `NoHoleWhenFailed` | |
| `HooksProofs!HooksTypeCorrect` | `TypeOK` | `HooksAssumption`, `Alone` |
| `HooksProofs!HooksFreeTheirOwn` | `OwnMemory` | and `Alone` |
| `HooksProofs!MemoryIsUsedWell` | `NoMisuse` | and `Alone` |
| `HooksProofs!HooksFindTheirId` | `NoHookErrors` | and `Alone` |
| `HooksProofs!AllIsGivenBack` | `NothingLeaks` | and `Alone` |
| `MountsProofs!DisksKeptApart` | `OwnDisk` | `MountsAssumption` |
| `MountsProofs!IdsNotShared` | `OwnIds` | |
| `MountsProofs!TypeCorrect` | `TypeOK` | `MountsAssumption` |
| `MountsProofs!NoFreedMemoryUsed` | `NoMisuse` | and `Tracked` |
| `MountsProofs!OpenFilesAreC` | `OpenFilesExact` | and `Tracked` |
| `MountsProofs!NoFileOutlives` | `FilesEndWithFs` | and `Tracked` |
| `NamespaceProofs!TypeCorrect` | `TypeOK` | `NamespaceAssumption`, `Sober` |
| `NamespaceProofs!NamesDiffer` | `UniqueNames` | and `Sober` |
| `NamespaceProofs!NamesAlive` | `NoDanglingName` | and `Sober` |
| `NamespaceProofs!NothingFreedEarly` | `LinkCountsEnough` | and `Sober` |
| `NamespaceProofs!CountsExact` | `LinkCountsExact` | and `Sober`, no `linkWhenFull`, no `FaultyCalls` |
| `NamespaceProofs!CountsExactUntilFault` | `LinkCountsExact` while `faults = 0` | and `Sober`, no `linkWhenFull` |
| `NamespaceProofs!ThrowIsNothing` | `ThrowsUnchanged` | and `Sober`, no `linkWhenFull`, no `FaultyCalls` |
| `NamespaceProofs!AllHavePaths` | `Tree` | and `Sober`, no `FaultyCalls`, no `renameInside`, no `linkWhenFull` |
| `NamespaceProofs!DotdotIsParent` | the ".." part of `Tree` | and `Sober` |
| `HandlesProofs!TypeCorrect` | `TypeOK` | `HandlesAssumption`, no `Habits` |
| `HandlesProofs!AsPosix` | `Handles` implements `PosixFiles` | and no `Habits` |
| `DiskIOProofs!ErrorsAreReported` | `Reported`: all errors but those of finding 1 | `DiskIOAssumption` |
| `DiskIOProofs!IoImplementsDevice` | `DiskIO` implements `BlockDevice` | |
| `InodesProofs!TypeCorrect` | `TypeOK` | `InodesAssumption` |
| `InodesProofs!StatSeesOneInode` | `StatIsSnapshot` | |
| `InodesProofs!TimesDecode` | `TimesRight` | |
| `InodesProofs!MemoryAccounted` | `HeapAccounted` | |
| `StreamsProofs!ClosedNotUsed` | `NoMisuse` | `StreamsAssumption`, no `destroyEarly` |
| `StreamsProofs!BytesArriveInOrder` | `BytesInOrder` | and no `overlap` |

*The queue.* `OneCallAtATime` is not inductive: `Settle` takes the next operation
whatever else is active, so the invariant has to know that the settled one was
the only one, that `running` is exact, and that the queue holds the waiting
operations once each. `IInv` is the conjunction of the safety properties
with `AnswerMatchesStage` (a caller is pending exactly while its operation is not
idle). Each action goes through one lemma about `run()`. For the refinement, `Line`
puts the active operation before the queue and `Told` gives a settled caller its
answer before its continuation runs; `AddOperation` is then a `Request`, `Settle`
is `Serve`, and the other actions stutter. `NestedMountHangs` adds the
invariant `InnerWaits`: while a disk awaits an inner operation the outer one is
executing and cannot return.

*The trim.* `LoopInvariant` is what holds at the head of the C loop: the blocks
from `start` to `blk - 1` are free, `start - 1` is not, and the free blocks
below `start` are exactly covered by the requests, each a maximal run. The last
iteration, `blk = Count`, is why the invariant says where `start` is when
`blk` has passed `Count`.

*Errors.* What JavaScript throws depends on the sign of a result alone, so the
invariant follows the error that `__translate_error` holds while it flushes, and
lemmas about the table say that every code has a negative errno.

*Hooks.* `Alone` says that no operation is a rename, a readdir or a readlink. These
read the global id after an await, and for them the properties are false of the
code (see the findings); the instance of the run `hooks` meets it, and any number of
operations of the other kinds may overlap. The state is a heap with two
sequences in it, the queue and the jobs, and almost all the invariant has to say
is what these hold. `Rep` says it through two functions that the program does
not keep: `st` gives the stage of each C call (not made, queued, in C, in one of
the jobs that follow, over) and `os` the part of its body that each operation
has come to. The queue and the jobs hold each call and each operation once,
where its stage or part says, and the rest follows: which pointers are
allocated and under which id they are filed, what a `Promise.all` still waits for,
which id an operation has, and that the ids given out are those in use
and those free, each once. `Inv` is that some `st` and `os` exist, and each
job takes one call or one operation one stage on. `OwnMemory` holds because an id
belongs to one running operation and because `useBuffer` keeps the id that it has
read before its await; `hookId` itself is only ever said to be the operation's
own while its code runs. Between the two useBuffers of a `usePaths`,
where `run()` may enter the first malloc before the second is asked for, the
invariant has a part of its own, `half`.

*Mounts.* `OwnDisk` needs two things. C uses an id between mount and umount,
JavaScript holds it from `setObject` to `deleteObject`, and the first span is
inside the second because a disk has at most one call on its way (`OneCall`), of
the kind that its phase says (`CallsMatch`, `FsInv`, `HeldInv`). And no other disk
gets the id meanwhile: the ids given out are those in use and those in the pool,
each once (`IdInv`). That a fresh id is within `Ids` is a count: a disk that
mounts has none, and the others have at most one each, so that the pool is empty
only while fewer ids than disks have been given out.

*Open files.* `Tracked` says that closes are awaited (no `FileHandle.close`), that no
stale descriptor is handed to another mount (no `Reusers`) and that
neither a close nor the truncate of an open fails: without it the three properties
are false of the code, and hazards say why. The instance of the run `mounts` meets
it; reads, opens, mounts and umounts may fail. `FInv` relates what C has to what
JavaScript has through the answers that JavaScript has not seen: a file of C is in
the Map with no close of it answered, or an open of it is (`FilesAgree`). malloc
may give a pointer out again while the answer to its close is still unseen, so
that it is in the Map of one disk as closed and answered as open for another; then
the close comes first (`ClosedFirst`), and no pointer is answered as open twice
(`OpenedOnce`). The rest says whose calls these are: each user and disk has one on
its way, of the kind its state is named for, and a closing disk's is for the
first of its Map (`SuitsInv`); users of a disk that is not mounted await nothing
and a disk that is unmounting has an empty Map (`PhaseInv`); C has the filesystem
of a mounted disk (`CInv`); and users hold different files (`Holders`). Each lemma
`Files...` is one action.

*Namespace.* `Sober` leaves out eight of the eleven `Habits` (each of those eight
breaks a property, see the findings) and disk errors in `open` and `rename`, as the
runs do. A link into a missing directory is covered, a rename of a directory into
itself but for `Tree`, and a link that fails on a full disk but for exact counts,
`Tree` and `ThrowsUnchanged`; these are false then, and say so among their
assumptions. The operators of the module work on any filesystem `f`, so the
invariant is one of `f` too: `Good(f)` says that a slot of a directory has at most
one inode, which is in use (`Slots`), that a directory has one name, where its ".."
leads (`OneParent`), and that counts are enough (`Enough`). Counts are only asked of
inodes with a name: an error of `rmdir` may leave a directory without one whose
count is too low. `Fine` is what every call owes: an outcome is `Good`, and one
without a disk error keeps `Exact` counts and has changed nothing if it fails, but
for the full disk of a link.
How a change of one name changes the two cardinalities in `Need` is said once for
a name more, a name less and a name moved (`NewName`, `NameMore`, `NameLess`,
`NameMoved`); the calls are reduced to these, one outcome at a time.

A call walks several paths, and rename the old one again after it has removed the
target and moved the directory. Walks are recursive functions; what is needed of
them is that two walks in step stay related, by the least number theorem over the
steps (`Induct`): the walk to a path and the one to its directory end with the
entry of the last name (`LastName`), following the last link changes nothing when
the walk ends in a directory (`FollowSame`), and a walk that passes no link finds
the same directory after rename has changed one that it does not pass (`SameDir`).

That every inode in use has a path from the root (`AllHavePaths`) is said without
paths: any set of inodes in use, without the root, has one that is named from
outside of the set (`Rooted`). This is inductive where reachability itself is awkward,
because one lemma (`RootedStill`) serves every call: it takes the one inode whose names
change and a set with everything below it, alone for a file or a directory without
entries and its subtree for a directory that rename moves, and asks that the
inode be freed or named from outside of that set. The caller's side of it is
that the new parent is not in the subtree (`OutsideMayMove`), as `Inside` says. An
unlink with a name left relies on the counts: a count above one means another name.
Disk errors leave inodes in use without a name, so there the property is false.
That is where `renameThroughLink` is needed: with a link on the way the second
lookup may end elsewhere.

*Handles.* The library's induction theorems take an operator, which the backends
cannot instantiate, but a set of numbers that has 0 and with k also k + 1 has
all of them (`UpTo`), by the least number theorem; so the loops over the bytes
of a read and of a write are sequences of worlds (`Reading`, `Writing`) of which
every one is `ReadOf` or `Wrote` what it should. `Seen(w, k)` is the byte that a
call finds at k, in the buffer or on the disk: moves between the two change no
byte that is seen (`Same`), which is why a flush may come at any time or fail,
at a block change as well. What a read has `got` is the bytes seen, hence the
slice that `PosixFiles` answers with. `HInv` needs three things beyond the
types. A clean buffer agrees with the disk (`Agrees`): a reader's stays true
because nobody writes meanwhile. The copy of the inode has the size of the
table, and a writer's copy is the row (`Good`): so what `WriteInode` writes back
undoes nothing. And what lies beyond the size is zero, so that an extension
shows zeros. `Alone`, that who writes is alone, is where the `Habits` come in:
with any of them the theorem is false of the code, and the findings say how. A
call on an open descriptor (`Commits`) and a step that closes one or changes
names (`Settles`) are then steps of `PosixFiles`.

*Block I/O.* The invariant is about the request under way: its access begins at
the partition's offset plus the units meant and ends inside the partition
(`Located`), with the data meant (`Carries`). Block numbers below half a word and
block sizes below half a short are what `Signed` leaves alone, -1 stays -1, and
whole blocks end within the filesystem because n = `Size` div `BlockSize`
blocks do. Setting units of the access then sets units of one device (`PutIsDo`),
and none of another, since partitions are apart. A zeroout under way is `Work`, a
flush is the read of nothing, and an answer that has been used is forgotten.

*Inodes.* `IInv` adds to the properties what each time on the disk is the time of
(`TimeInv`: the low word always, the extra word if the last call set it, and no
extra word before 2038), that no copy has a negative time before 2038
(`SignInv`, from which a stat cannot throw then), and what a stat has collected
from the copy it opened, which nobody else can reach (`StatInv`).
`EncodeDecode` is the arithmetic of the two words: division and remainder by 2^32
around a signed low word, for every instant up to the year 2446. `HeapAccounted`
is a cardinality: each action adds or removes one open file, or leaves one.

*Streams.* Whether a call finds its file depends on the order of the calls in the
queue, so the invariant speaks of that order: `Closes` says that a close waits for C
exactly while a stream is destroyed with its descriptor open, `Reads` and `Writes`
that a read or write which is to touch the file comes before that close, and that a
malloc of `_writev` comes behind it, so that the write behind the malloc finds no
flags. `Moves` is what a step does to the queue: it answers the first call, adds one
at the end, or both. For `ClosedNotUsed` streams may read at once (`overlap`), since
that spoils bytes and not files.

`BytesArriveInOrder` adds `BInv`. One stream reads at a time, into the free end
of the current pool (`ReadsToEnd`); the slices in `chunks`, `waiting` and
`batch` are of parts that are used (`Holds`), and a step makes pools longer or
fuller but changes no used byte (`Grow`), so that a slice keeps its bytes
(`PieceKept`) whichever stream reads, and a chunk that comes too late for its
stream (`Pushed`) adds none. The three lists of a pipe in a row (`AllSlices`)
only move on: `Pass` and `Write` leave the row as it is, `WriteGetsMemory` takes
its first slice and `ReadReturns` appends one, which holds the next bytes of the
source (`ReadFills`). What joining the slices does to the bytes follows from the
recursion inside `FlattenSeq` (`FlattenAppend`, `FlattenHead`), by the least
number theorem over its steps (`UpTo`).

Only model-checked: liveness (`EveryCallAnswered`, `EveryOpEnds`, `UmountEnds`,
`TrimEnds`, `StreamsClose`), which with ENABLED is beyond the prover. Every
safety property of the passing runs is proved.

## Findings

1. A disk error in most calls is returned as +29 (`src/glue.c:1507`), which
   JavaScript takes for a success (`DiskErrorsThrow`).
2. Two descriptors that append to one file overwrite each other: each seeks to
   the end that its own copy of the inode gives. The trace opens two, writes
   through one and then through the other (`AppendsAtEnd`).

Calls and orders that the passing runs leave out, with the property that TLC
finds violated when a cfg allows them. Of `Namespace`:

- `renameThroughLink`: `rename()` of a file whose directory is named through a
  symbolic link links the new name, then fails to unlink the old one:
  `unlink_file_by_name` (`src/glue.c:1004`) cuts the slash off and does not follow
  the link. The file keeps two names and a count of one (`ThrowsUnchanged`);
- `linkNowhere`: `link()` into a missing directory resolves and does nothing
  (`LinkReturnsLinked`, `src/glue.c:782` assigns `err` and returns `ret`);
- `linkOver`: a second entry of the same name (`UniqueNames`);
- `linkUnderFile`: a raised count stays behind the error (`LinkCountsExact`);
- `linkDir`: a directory with two parents (`Tree`);
- `renameInside`: a directory below itself, cut off the root (`Tree`);
- `createOverLink`: an entry beside the dangling link (`UniqueNames`);
- `createDirectory`: an open with O_CREAT and O_DIRECTORY creates a file, and then
  throws because it is none (`ThrowsUnchanged`, `src/glue.c:416`);
- `linkWhenFull`: `link()` writes the raised count before it looks for room
  (`src/glue.c:805`, `:813`). On a full disk it throws with the count too high, and
  unlinking the last name does not free the inode (`ThrowsUnchanged`,
  `LinkCountsExact`, `Tree`);
- `renameOverWhenFull`: the target is gone when no room is found for the new name
  (`ThrowsUnchanged`, `src/glue.c:636`);
- `mkdirCutShort`: a name that leads to a free inode (`NoDanglingName`), if libext2fs
  stops between its writes.

Of `Handles` (all `ImplementsPosix`):

- `mixPositions`: a read or write with a position moves the descriptor, which
  node's do not (`lib/fs.js:258` has a TODO about it);
- `changeWhileWritten`: a write that extends the file writes back the mode and
  the link count of its copy. After a lost link, unlinking one name frees the
  inode that the other still leads to;
- `readWhileWritten`: a reader gets the old bytes of the block in its buffer,
  zeros for what was appended to it;
- `unlinkOpen`: the inode is freed and may be another file's when the descriptor
  is used again;
- `twoWriters`: all of that.

Of `Streams`:

- `overlap`: `_read` advances `pool.used` after its await, so that two streams that
  read at once fill the same bytes of the pool (`BytesInOrder`, eleven steps);
- `destroyEarly`: a stream destroyed while its read awaits `malloc` queues its
  close first, and the read reaches C with a freed file (`NoMisuse`, ten steps).

Of `Hooks`, with `ReaddirChmod` for the operations: `readdir()`, `readlink()` and
the second path of `rename()` read the global `hookId` after an `await`; an
operation that ends in between leaves another id there, or none (`NoHookErrors`;
for rename also `OwnMemory`, and `NothingLeaks` for both).

Of `Mounts`, with `HandleOfU1` for the handles: `FileHandle.close()` returns
nothing to await, so the `umount` of `withMountedDisk` may close the descriptor
again (`NoMisuse`). With `close` or `truncate` among the faulty calls: a close
that rejects leaves in `openFiles` a descriptor that C has freed (`NoMisuse`),
and an open that fails to truncate never frees its file (`FilesEndWithFs`). With
`ReuserU1` for the reusers: a stale descriptor passes `checkFd` of the next
mount and reaches C after its file is closed again (`NoMisuse`). A mount that
fails behind `ext2fs_open` leaks its filesystem (`cLeft`, `src/glue.c:318`),
which breaks no property here.

Seen in the code while modelling, and not modelled:

- the `start` option breaks both streams: a ReadStream assigns a `const`
  (`lib/fs.js:836`) and would advance `pos` twice (855, 859), a WriteStream calls
  back before it advances `pos` (966, 974), and `writev` adds its running total
  to the position (421);
- a stream whose open fails waits for an 'open' that never comes, and emits no
  'close' (`lib/fs.js:893`); after 'finish', `autoDestroy` emits 'close' while the
  descriptor is still being closed (895);
- a write through a descriptor opened without O_CREAT (`r+`) stamps no time
  (`src/glue.c:478`), and chmod and chown do not stamp the ctime;
- `fstat` on a descriptor that another task uses may mix two states of the inode
  (`lib/fs.js:510`);
- `malloc` returning 0 is not looked at (`src/glue.c:296`), nor how much
  `disk.read` has read (108);
- the errnos 116 and 138 have no name in `lib/wasi.js`: the code is 'UNKNOWN';
- `update_atime` and `ext2_file_type` are called by nobody.

## Not modelled, and why

- `readFile`, `writeFile` and `appendFile` are sequences of the calls of `Handles`;
  `readv` hands its position to `read` as an offset into the buffer and `write`
  forgets its offset (`lib/fs.js:324`, `:349`), which no interleaving is needed
  to see.
- Streams with the options `start` and `end`, for the reasons above.
- Disk errors of reads and writes of an open file but those of a flush: what
  libext2fs leaves behind then is not in the repository.
- Crashes. Only `rename` flushes, and libext2fs decides the order in which the
  other writes reach the disk; its source is not part of the repository.
- The journal, extents, nanoseconds, permissions: kept by libext2fs or without
  influence on the control of the glue.
- Listings: `readdir` passes on what `ext2fs_dir_iterate` finds, but for `.` and
  `..`; the order is that of libext2fs.
- Encodings and the wording of errors.

## Plan

Written, in order of importance: `OpQueue` (everything else rests on its mutual
exclusion), `Trim`, `Namespace`, `Hooks`, `Mounts`, `Handles`, `DiskIO`, `Inodes`,
`Streams`. Next: the composition of `Hooks` with two operations of `Mounts`, so that
a buffer and the descriptor it is for are followed together.
