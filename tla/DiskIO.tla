------------------------------- MODULE DiskIO -------------------------------
(***************************************************************************)
(* The io_manager of src/glue.c (js_open_entry to js_zeroout_entry), the   *)
(* JavaScript it awaits (blk_read, blk_write, discard, flush), the         *)
(* DiskWrapper of lib/disk.js, and the way of an error back to the program *)
(* (__translate_error or -ret, then ccallThrowAsync).                      *)
(*                                                                         *)
(* Several filesystems are partitions of one disk object.  The C calls on  *)
(* them come one at a time (OneCallAtATime of OpQueue), each with any      *)
(* number of requests, which the disk answers or rejects.                  *)
(*                                                                         *)
(* A unit is 1 KiB: the size of the superblock and of the smallest block.  *)
(* The channel keeps the block size that libext2fs set last: one unit      *)
(* while it reads or writes a superblock, the filesystem's own otherwise.  *)
(***************************************************************************)
EXTENDS Errors, Sequences

CONSTANTS Mounts,
          Size,       \* [Mounts -> Nat]: units of the filesystem
          BlockSize,  \* [Mounts -> Nat]: units of a block, 1 to 64
          Offset,     \* [Mounts -> Nat]: where the partition starts
          DiskSize,   \* units of the disk object
          Word,       \* 2^w for an unsigned long of w bits
          Short,      \* 2^s for a short of s bits, in units
          Values, Zero,
          Codes,      \* what libext2fs itself may fail with
          None

\* The entries of js_io_manager that reach the disk.
Ops == {"read", "write", "discard", "zeroout", "flush"}

\* A block number is below 2^31 and a block smaller than 32 KiB, and the disk
\* is as long as its partitions say.  None is no request.
DiskIOAssumption ==
    /\ Word \in Nat \ {0} /\ Short \in Nat \ {0} /\ DiskSize \in Nat
    /\ Size \in [Mounts -> Nat] /\ BlockSize \in [Mounts -> Nat \ {0}]
    /\ Offset \in [Mounts -> Nat]
    /\ \A m \in Mounts : /\ Size[m] >= 2 /\ 2 * Size[m] < Word
                         /\ 2 * BlockSize[m] < Short
                         /\ Offset[m] + Size[m] <= DiskSize
    /\ \A m, n \in Mounts : m # n => \/ Offset[m] + Size[m] <= Offset[n]
                                     \/ Offset[n] + Size[n] <= Offset[m]
    /\ Zero \in Values
    /\ Codes \subseteq Ext2Codes
    /\ None # "discard"
    /\ None \notin [by : Mounts, op : Ops, block : Nat, count : Int, data : Seq(Values)]
    /\ None \notin [by : Mounts, from : Nat, len : Nat, data : Seq(Values)]
ASSUME DiskIOAssumption

VARIABLES disk,     \* the units of the disk object
          channel,  \* block_size of each channel, None when there is none
          asked,    \* the request of libext2fs
          access,   \* the access that JavaScript awaits for it
          told,     \* its answer
          call,     \* the C call under way
          failed,   \* a request of this call has failed
          outcome   \* of the last call: the error of libext2fs, what JavaScript threw

vars == <<disk, channel, asked, access, told, call, failed, outcome>>

Calls == {"mount", "umount", "raw", "translated"}
NoCall == [by |-> None, kind |-> None, stage |-> "idle", err |-> 0]

-----------------------------------------------------------------------------
(* blk_read, blk_write and discard: numbers of C become numbers of JavaScript *)

\* An integer of C kept in as many bits as w says, as JavaScript sees it.
Signed(x, w) == LET r == x % w IN IF 2 * r >= w THEN r - w ELSE r

\* Slip: the count is always one of blocks.
SizeInBlocks(count, bs) == count * bs
\* const size; a negative count is one of bytes, here of units.
SizeOf(count, bs) == IF count < 0 THEN -count ELSE count * bs

\* DiskWrapper.
Wrapped(m, offset) == offset + Offset[m]

\* The units of the disk object that request r comes to.
AccessOf(r) ==
    LET bs == Signed(channel[r.by], Short)
    IN [at  |-> Wrapped(r.by, Signed(r.block, Word) * bs),
        len |-> SizeOf(Signed(r.count, Word), bs)]

\* disk.write, or a part of it: the units of done are set.
Put(a, data, done) ==
    disk' = [u \in DOMAIN disk |-> IF u \in done THEN data[u - a.at + 1] ELSE disk[u]]
SpanOf(a) == a.at .. a.at + a.len - 1

Zeros(n) == [i \in 1 .. n |-> Zero]

-----------------------------------------------------------------------------
Init == /\ disk \in [0 .. DiskSize - 1 -> Values]
        /\ channel = [m \in Mounts |-> None]
        /\ asked = None /\ access = None /\ told = None
        /\ call = NoCall
        /\ failed = FALSE
        /\ outcome = [err |-> 0, kind |-> None, threw |-> 0]

\* js_open_entry, called by ext2fs_open: the memory is zeroed.
JsOpenEntry(m) == channel' = [channel EXCEPT ![m] = 0]
\* js_close_entry.
JsCloseEntry(m) == channel' = [channel EXCEPT ![m] = None]

\* A C call starts, on a filesystem that is mounted, or that it mounts.
Start(m, kind) ==
    /\ call.stage = "idle"
    /\ (channel[m] = None) <=> (kind = "mount")
    /\ call' = [by |-> m, kind |-> kind, stage |-> "running", err |-> 0]
    /\ IF kind = "mount" THEN JsOpenEntry(m) ELSE UNCHANGED channel
    /\ outcome' = [err |-> 0, kind |-> None, threw |-> 0]
    /\ UNCHANGED <<disk, asked, access, told, failed>>

\* What libext2fs may do now.  While it flushes, its errors go nowhere.
Running == call.stage \in {"running", "flushing"} /\ asked = None

\* set_blksize: to one unit for a superblock, and back.
SetBlksize(size) ==
    /\ Running /\ size \in {1, BlockSize[call.by]}
    /\ channel' = [channel EXCEPT ![call.by] = size]
    /\ UNCHANGED <<disk, asked, access, told, call, failed, outcome>>

\* The first access of a request: js_read_blk64_entry, js_write_blk64_entry,
\* js_discard_entry, js_zeroout_entry, js_flush_entry.
FirstAccess(op) == IF op = "zeroout" THEN "write" ELSE op

Ask(op, block, count, data) ==
    /\ Running
    /\ asked' = [by |-> call.by, op |-> op, block |-> block, count |-> count, data |-> data]
    /\ access' = FirstAccess(op)
    /\ told' = None
    /\ UNCHANGED <<disk, channel, call, failed, outcome>>

\* What is written: units that differ from their neighbours.
Pattern(n) == {[i \in 1 .. n |-> IF i % 2 = 1 THEN v ELSE w] : v, w \in Values}

\* The superblock is one unit, at unit 1.
AskSuper ==
    /\ channel[call.by] = 1
    /\ \/ Ask("read", 1, -1, << >>)
       \/ \E data \in Pattern(1) : Ask("write", 1, -1, data)

Blocks(m) == Size[m] \div BlockSize[m]
AskBlocks ==
    /\ channel[call.by] = BlockSize[call.by]
    /\ \E first, n \in 0 .. Blocks(call.by) :
         /\ n >= 1 /\ first + n <= Blocks(call.by)
         /\ LET len == n * BlockSize[call.by]
            IN \/ Ask("read", first, n, << >>)
               \/ \E data \in Pattern(len) : Ask("write", first, n, data)
               \/ Ask("discard", first, n, Zeros(len))
               \/ Ask("zeroout", first, n, Zeros(len))

AskFlush == Ask("flush", 0, 0, << >>)

\* What follows an access that succeeded: zeroout discards what it has written.
NextAccess(op, done) == IF op = "zeroout" /\ done = "write" THEN "discard" ELSE None

\* The promise of the disk object is resolved.
DiskAnswers ==
    /\ asked # None
    /\ LET a == AccessOf(asked)
           next == NextAccess(asked.op, access)
       IN /\ CASE access = "write"   -> Put(a, asked.data, SpanOf(a))
               [] access = "discard" -> Put(a, Zeros(a.len), SpanOf(a))
               [] OTHER              -> UNCHANGED disk
          /\ access' = next
          /\ IF next # None THEN UNCHANGED <<asked, told>>
             ELSE /\ asked' = None
                  /\ told' = [ok |-> TRUE,
                              data |-> IF access = "read" THEN [i \in 1 .. a.len |-> disk[a.at + i - 1]]
                                       ELSE << >>]
    /\ UNCHANGED <<channel, call, failed, outcome>>

\* It is rejected, with the access done in part: the entry returns EIO.
DiskRejects ==
    /\ asked # None
    /\ LET a == AccessOf(asked)
       IN CASE access = "write"   -> \E done \in SUBSET SpanOf(a) : Put(a, asked.data, done)
            [] access = "discard" -> \E done \in SUBSET SpanOf(a) : Put(a, Zeros(a.len), done)
            [] OTHER              -> UNCHANGED disk
    /\ asked' = None /\ access' = None
    /\ told' = [ok |-> FALSE, data |-> << >>]
    /\ failed' = TRUE
    /\ UNCHANGED <<channel, call, outcome>>

-----------------------------------------------------------------------------
\* Slip: every result is resolved.
ThrownNever(result) == 0
\* ccallThrow: the errno that JavaScript throws, 0 for none.
Thrown(result) == IF result < 0 THEN -result ELSE 0

Settle(err, result) ==
    /\ outcome' = [err |-> err, kind |-> call.kind, threw |-> Thrown(result)]
    /\ call' = NoCall

\* The channel ends with a mount that fails and a umount that succeeds.  (A mount
\* that fails in ext2fs_read_bitmaps leaves its channel behind, and nobody has it.)
Ends(err) == call.kind = (IF err = 0 THEN "umount" ELSE "mount")

\* libext2fs comes to an end: with a success, an error of its own, or the EIO
\* of a request.  The glue returns -ret, or what __translate_error makes of it,
\* which marks the superblock dirty and flushes if the error may mean damage.
LibReturns(err) ==
    /\ Running /\ call.stage = "running"
    /\ err # EIO \/ failed
    /\ Ends(err) \/ channel[call.by] = BlockSize[call.by]
    /\ IF Ends(err) THEN JsCloseEntry(call.by) ELSE UNCHANGED channel
    /\ IF call.kind # "translated" \/ err = 0 THEN Settle(err, -err)
       ELSE IF IsErr(err) THEN /\ call' = [call EXCEPT !.stage = "flushing", !.err = err]
                               /\ UNCHANGED outcome
       ELSE Settle(err, TranslateError(err))
    /\ told' = None /\ failed' = FALSE
    /\ UNCHANGED <<disk, asked, access>>

\* ext2fs_flush is over, however it went.
FlushEnds ==
    /\ Running /\ call.stage = "flushing"
    /\ channel[call.by] = BlockSize[call.by]
    /\ Settle(call.err, TranslateError(call.err))
    /\ told' = None /\ failed' = FALSE
    /\ UNCHANGED <<disk, channel, asked, access>>

Next == \/ \E m \in Mounts, kind \in Calls : Start(m, kind)
        \/ \E size \in {1} \cup {BlockSize[m] : m \in Mounts} : SetBlksize(size)
        \/ Running /\ (AskSuper \/ AskBlocks \/ AskFlush)
        \/ DiskAnswers
        \/ DiskRejects
        \/ \E err \in Codes \cup {0, EIO} : LibReturns(err)
        \/ FlushEnds

Spec == Init /\ [][Next]_vars

-----------------------------------------------------------------------------
(* Properties *)

\* The units of each filesystem, and the request as libext2fs means it: block
\* numbers count blocks of the filesystem, but for the superblock.
Device == INSTANCE BlockDevice
    WITH units <- [m \in Mounts |-> [u \in 0 .. Size[m] - 1 |-> disk[Offset[m] + u]]],
         asked <- IF asked = None THEN None
                  ELSE [by   |-> asked.by,
                        from |-> IF asked.count < 0 THEN 1 ELSE asked.block * BlockSize[asked.by],
                        len  |-> IF asked.count < 0 THEN 1 ELSE asked.count * BlockSize[asked.by],
                        data |-> asked.data]

\* Every filesystem has a device of its own: whatever the block size of the
\* moment, the kind of request, the partition, and the accesses that fail half
\* done, the io_manager reads and writes the units that were meant, and no unit
\* of the other partition.
ImplementsDevice == Device!Spec

\* An error of libext2fs reaches the program: it throws, by an errno of node
\* when the error was translated (two have no name there), and as EIO when the
\* disk failed and the result was not translated.
Reported ==
    /\ outcome.err = 0 => outcome.threw = 0
    /\ outcome.err \in Ext2Codes => outcome.threw # 0
    /\ outcome.err \in Ext2Codes /\ outcome.kind = "translated"
         => outcome.threw \in ERRNO_TO_CODE \cup {ENODATA, EOPNOTSUPP}
    /\ outcome.err = EIO /\ outcome.kind # "translated" => outcome.threw = EIO
=============================================================================
