------------------------------- MODULE Inodes -------------------------------
(***************************************************************************)
(* Attributes, times, link targets and listings: chmod, chown, the stat_   *)
(* getters, update_xtime, update_ctime, update_mtime, readlink and readdir *)
(* of src/glue.c, with fstat, stat and lstat of lib/fs.js.                 *)
(*                                                                         *)
(* A C call is one step (OneCallAtATime of OpQueue).  fstat is two: it     *)
(* awaits the ctime, and then calls the other getters in one go, which the *)
(* queue serves without a call of anybody else between.  stat() is an open,*)
(* an fstat and a close.                                                   *)
(*                                                                         *)
(* The module follows one inode: the row of the table, and the copy of it  *)
(* in each ext2_file_t.  What a write that extends a file makes of a row   *)
(* newer than its copy is in Handles.  Of errors of the disk, the ways out *)
(* of a call that has allocated memory are here.                           *)
(*                                                                         *)
(* A time on the disk is a low word, which C reads as signed, and, in a    *)
(* large inode, two more bits of an extra word.  Instants are counted in a *)
(* unit of which the low word holds 2 * Half.                              *)
(***************************************************************************)
EXTENDS Integers, FiniteSets

CONSTANTS Users,     \* tasks that open the file and work on the descriptor
          Staters,   \* tasks that call stat() or lstat() on its path
          Kinds,     \* what the inode may be: a subset of Formats
          Instants,  \* the times at which something happens
          Half,      \* 2^31: the first instant that a signed word cannot hold
          Perms, Ids,
          IdMod,     \* 2^16: the ids that an inode tells apart
          Large,     \* the inode has room for the extra words
          HeapSize,  \* files and buffers that C can allocate
          None

\* LINUX_S_IFREG, LINUX_S_IFDIR, LINUX_S_IFLNK.
Formats == {"file", "dir", "link"}
EpochMask == 4
Times == {"atime", "ctime", "mtime"}

\* struct ext2_inode_large, as far as the calls below change it.
Row == [kind : Kinds, perm : Perms, uid : 0 .. IdMod - 1,
        low : [Times -> -Half .. Half - 1], extra : [Times -> 0 .. EpochMask - 1]]

ASSUME InodesAssumption ==
    /\ Half \in Nat \ {0} /\ IdMod \in Nat \ {0} /\ HeapSize \in Nat
    /\ Instants # {} /\ Instants \subseteq 0 .. (2 * EpochMask - 1) * Half - 1
    /\ Ids \subseteq Nat /\ Perms # {} /\ Large \in BOOLEAN
    /\ Kinds # {} /\ Kinds \subseteq Formats
    /\ IsFiniteSet(Users) /\ IsFiniteSet(Staters) /\ Users \cap Staters = {}
    /\ None \notin Row

Tasks == Users \cup Staters

VARIABLES row,      \* the inode in the inode table
          file,     \* the copy in the ext2_file_t of each task
          stage,    \* where the stat of each task is
          result,   \* what its getters have returned
          heap,     \* allocations of C: files and buffers
          now,      \* the clock
          stamped,  \* history: when each time was last set, and with which words
          seen,     \* history: the row at the open of a stat
          left      \* history: files that nobody will close

vars == <<row, file, stage, result, heap, now, stamped, seen, left>>

-----------------------------------------------------------------------------
(* Times *)

\* Slip: the low word is read as unsigned.
LowWordUnsigned(t) == t % (2 * Half)
\* The low word, as C reads it into an int.
LowWord(t) == LET r == t % (2 * Half) IN IF r >= Half THEN r - 2 * Half ELSE r

\* ext4_encode_extra_time, without the nanoseconds.
EncodeExtra(t) == ((t - LowWord(t)) \div (2 * Half)) % EpochMask
\* ext4_decode_extra_time: what a kernel makes of the two words.
Decode(low, extra) == low + extra * 2 * Half

\* EXT4_INODE_SET_XTIME, for each time of xs, if the extra words fit.
SetXtime(r, xs) ==
    [r EXCEPT !.low   = [x \in Times |-> IF x \in xs THEN LowWord(now) ELSE @[x]],
              !.extra = [x \in Times |-> IF x \in xs /\ Large THEN EncodeExtra(now) ELSE @[x]]]
\* An assignment to i_atime, i_ctime or i_mtime, which is the low word.
SetLow(r, xs) ==
    [r EXCEPT !.low = [x \in Times |-> IF x \in xs THEN LowWord(now) ELSE @[x]]]

Stamp(xs, full) ==
    stamped' = [x \in Times |-> IF x \in xs THEN [at |-> now, full |-> full] ELSE stamped[x]]

-----------------------------------------------------------------------------
(* Files *)

\* create_file, or ext2fs_mkdir: an inode of zeros, its low words set.
Init == /\ now \in Instants
        /\ \E kind \in Kinds, p \in Perms :
             row = SetLow([kind |-> kind, perm |-> p, uid |-> 0,
                           low |-> [x \in Times |-> 0], extra |-> [x \in Times |-> 0]], Times)
        /\ stamped = [x \in Times |-> [at |-> now, full |-> FALSE]]
        /\ file = [u \in Tasks |-> None]
        /\ stage = [u \in Tasks |-> "idle"]
        /\ result = [u \in Tasks |-> None]
        /\ seen = [u \in Tasks |-> None]
        /\ heap = [files |-> 0, buffers |-> 0]
        /\ left = 0

IsOpen(u) == file[u] # None
MayAllocate == heap.files + heap.buffers < HeapSize
Stats == <<stage, result, seen>>

\* ext2fs_file_open; without memory it fails, and nothing has changed.
FileOpen(u) ==
    /\ ~IsOpen(u) /\ MayAllocate
    /\ file' = [file EXCEPT ![u] = row]
    /\ heap' = [heap EXCEPT !.files = @ + 1]
\* ext2fs_file_close: the file is freed even when its flush fails.
FileClose(u) ==
    /\ IsOpen(u)
    /\ file' = [file EXCEPT ![u] = None]
    /\ heap' = [heap EXCEPT !.files = @ - 1]

Open(u) == FileOpen(u) /\ UNCHANGED <<row, Stats, now, stamped, left>>
Close(u) == FileClose(u) /\ UNCHANGED <<row, Stats, now, stamped, left>>

\* open with O_TRUNC returns the error of the truncation, and not the file.
OpenTruncFails ==
    /\ row.kind = "file" /\ MayAllocate
    /\ heap' = [heap EXCEPT !.files = @ + 1]
    /\ left' = left + 1
    /\ UNCHANGED <<row, file, Stats, now, stamped>>

\* Slip: the copy of the ext2_file_t is changed, however old it is.
ReadInodeCached(u) == file[u]
\* ext2fs_read_inode into the ext2_file_t.
ReadInode(u) == row
\* A change of the copy, and ext2fs_write_inode.
WriteInode(u, new) ==
    /\ IsOpen(u)
    /\ row' = new
    /\ file' = [file EXCEPT ![u] = new]
    /\ UNCHANGED <<Stats, heap, now, left>>

Chmod(u, p) ==
    /\ WriteInode(u, [ReadInode(u) EXCEPT !.perm = p])
    /\ UNCHANGED stamped
\* The lower 16 bits of an id.
Chown(u, id) ==
    /\ WriteInode(u, [ReadInode(u) EXCEPT !.uid = id % IdMod])
    /\ UNCHANGED stamped

\* After a read, but with O_NOATIME; after a write through an ext2_file_t of O_CREAT.
UpdateXtime(u, xs) ==
    /\ WriteInode(u, SetLow(ReadInode(u), xs))
    /\ Stamp(xs, FALSE)
Read(u) == UpdateXtime(u, {"atime"})
Write(u) == UpdateXtime(u, {"ctime", "mtime"})

\* The calls by path write the whole of a large inode.
UpdateFull(xs) ==
    /\ row' = SetXtime(row, xs)
    /\ Stamp(xs, TRUE)
    /\ UNCHANGED <<file, Stats, heap, now, left>>
\* link, unlink and rename of one of its names.
UpdateCtime == UpdateFull({"ctime"})
\* A directory gains or loses an entry.
UpdateMtime == row.kind = "dir" /\ UpdateFull({"mtime", "ctime"})

Tick == /\ \E t \in Instants : t > now /\ now' = t
        /\ UNCHANGED <<row, file, Stats, heap, stamped, left>>

-----------------------------------------------------------------------------
(* stat and lstat *)

StatOpen(s) ==
    /\ stage[s] \in {"idle", "threw"}
    /\ FileOpen(s)
    /\ stage' = [stage EXCEPT ![s] = "opened"]
    /\ seen' = [seen EXCEPT ![s] = row]
    /\ UNCHANGED <<row, result, now, stamped, left>>

\* Slip: a getter reads the inode table.
CopyReadAgain(s) == row
\* file->inode, which the getters of C return.
CopyOf(s) == file[s]

\* ccallThrowAsync takes a negative time for an error.  fstat rejects, and stat
\* does not close what it has opened.
GetterThrows(s) ==
    /\ file' = [file EXCEPT ![s] = None]
    /\ stage' = [stage EXCEPT ![s] = "threw"]
    /\ result' = [result EXCEPT ![s] = None]
    /\ seen' = [seen EXCEPT ![s] = None]
    /\ left' = left + 1
    /\ UNCHANGED <<row, heap, now, stamped>>

Got(s, next, value) ==
    /\ stage' = [stage EXCEPT ![s] = next]
    /\ result' = [result EXCEPT ![s] = value]
    /\ UNCHANGED <<row, file, heap, now, stamped, seen, left>>

\* await binding.stat_i_ctime(fd).
StatCtime(s) ==
    /\ stage[s] = "opened"
    /\ LET c == CopyOf(s)
       IN IF c.low["ctime"] < 0 THEN GetterThrows(s)
          ELSE Got(s, "ctime", [ctime |-> c.low["ctime"]])

\* The Promise.all of fstat: the queue serves these getters one after another.
StatRest(s) ==
    /\ stage[s] = "ctime"
    /\ LET c == CopyOf(s)
       IN IF c.low["mtime"] < 0 \/ c.low["atime"] < 0 THEN GetterThrows(s)
          ELSE Got(s, "rest", [ctime |-> result[s].ctime, mtime |-> c.low["mtime"],
                               atime |-> c.low["atime"], kind |-> c.kind,
                               perm |-> c.perm, uid |-> c.uid])

StatClose(s) ==
    /\ stage[s] = "rest"
    /\ FileClose(s)
    /\ stage' = [stage EXCEPT ![s] = "idle"]
    /\ result' = [result EXCEPT ![s] = None]
    /\ seen' = [seen EXCEPT ![s] = None]
    /\ UNCHANGED <<row, now, stamped, left>>

-----------------------------------------------------------------------------
(* readdir and readlink *)

\* The file that readdir opens stays open, whether the path is a directory or not.
Readdir ==
    /\ MayAllocate
    /\ heap' = [heap EXCEPT !.files = @ + 1]
    /\ left' = left + 1
    /\ UNCHANGED <<row, file, Stats, now, stamped>>

\* A target is in i_block, in the inode's inline data, or in a block of its own.
Storages == {"fast", "inline", "block"}
BuffersFor(storage) == IF storage = "fast" THEN 0 ELSE 1
\* Slip: a target that cannot be read leaves its buffer.
FreedIfRead(storage, isRead) == IF isRead THEN BuffersFor(storage) ELSE 0
\* The ext2fs_free_mem of readlink, before each return.
Freed(storage, isRead) == BuffersFor(storage)

\* ext2fs_inline_data_get or the read of the block may fail.
Readlink(storage, isRead) ==
    /\ row.kind = "link"
    /\ IF storage = "fast" THEN isRead ELSE MayAllocate
    /\ heap' = [heap EXCEPT !.buffers = @ + BuffersFor(storage) - Freed(storage, isRead)]
    /\ UNCHANGED <<row, file, Stats, now, stamped, left>>

-----------------------------------------------------------------------------
Next == \/ \E u \in Users :
             \/ Open(u) \/ Close(u) \/ Read(u) \/ Write(u)
             \/ \E p \in Perms : Chmod(u, p)
             \/ \E id \in Ids : Chown(u, id)
        \/ \E s \in Staters : StatOpen(s) \/ StatCtime(s) \/ StatRest(s) \/ StatClose(s)
        \/ UpdateCtime \/ UpdateMtime \/ Tick
        \/ OpenTruncFails \/ Readdir
        \/ \E storage \in Storages, isRead \in BOOLEAN : Readlink(storage, isRead)

Spec == Init /\ [][Next]_vars

-----------------------------------------------------------------------------
(* Properties *)

\* The state has its type: every word of an inode is one that its field can
\* hold, and C has no more than its heap.
TypeOK ==
    /\ row \in Row
    /\ file \in [Tasks -> Row \cup {None}] /\ seen \in [Tasks -> Row \cup {None}]
    /\ stage \in [Tasks -> {"idle", "opened", "ctime", "rest", "threw"}]
    /\ DOMAIN result = Tasks
    /\ now \in Instants
    /\ stamped \in [Times -> [at : Instants, full : BOOLEAN]]
    /\ heap \in [files : Nat, buffers : Nat] /\ left \in Nat
    /\ heap.files + heap.buffers <= HeapSize

\* stat() is one look at the file, although it awaits six or more calls between
\* which others change it: what it resolves to is the inode as it was at the
\* open.  And it throws at nothing before 2038.
StatIsSnapshot ==
    \A s \in Staters :
       /\ stage[s] = "rest" =>
            LET r == seen[s]
            IN result[s] = [ctime |-> r.low["ctime"], mtime |-> r.low["mtime"],
                            atime |-> r.low["atime"], kind |-> r.kind,
                            perm |-> r.perm, uid |-> r.uid]
       /\ stage[s] = "threw" => now >= Half

\* The times of a file are those of the last calls that set them, whoever else
\* held a copy of the inode: a kernel reads the instant, if the call set both
\* words or the year is before 2038.  (A call through an ext2_file_t leaves the
\* extra word of an earlier time, so that later years come out wrong.)
TimesRight ==
    \A x \in Times :
       (stamped[x].full /\ Large) \/ now < Half =>
          Decode(row.low[x], row.extra[x]) = stamped[x].at

\* C's memory is that of open files, plus what a readdir, an open that fails to
\* truncate and a stat that throws have left: no other way out of a call, failed
\* or not, leaves an ext2_file_t or a buffer, or frees one twice.
HeapAccounted ==
    /\ heap.files = Cardinality({t \in Tasks : IsOpen(t)}) + left
    /\ heap.buffers = 0
=============================================================================
