---------------------------- MODULE DiskIOProofs ----------------------------
(***************************************************************************)
(* For every disk, partition, block size and word size, and whatever codes *)
(* libext2fs may fail with: its errors reach the program, those of a disk  *)
(* do in calls that do not translate them, and every filesystem has a      *)
(* device of its own.                                                      *)
(*                                                                         *)
(* Errors.  The outcome of a call is settled at once or after a flush, and *)
(* what the flush must not lose is the code of the error (CodeKept).       *)
(*                                                                         *)
(* Devices.  The invariant of a request under way (RequestInv) is that its *)
(* access comes to the units meant, inside the partition of its filesystem *)
(* (Located), with the data meant (Carries).  Then what is set on the disk *)
(* is set on that device (PutIsDo), and on no other (Apart).               *)
(*                                                                         *)
(* Trim.  For a filesystem of any size and any block bitmap, a trim never  *)
(* discards a block in use, and one that succeeds has discarded every free *)
(* block in maximal runs (LoopInvariant).                                  *)
(***************************************************************************)
EXTENDS DiskIO, Trim, TLAPS

\* A call that flushes has an error of libext2fs to translate.
CodeKept == call.stage = "flushing" => call.err \in Ext2Codes /\ call.kind = "translated"

IInv == CodeKept /\ Reported

\* Below EXT2_ET_BASE __translate_error changes nothing, and above it the result
\* is a negative errno, which all but two have a name in lib/wasi.js.
LEMMA TranslatedIsNegative ==
    ASSUME NEW err \in Ext2Codes
    PROVE  /\ TranslateError(err) \in Int /\ TranslateError(err) < 0
           /\ -TranslateError(err) \in ERRNO_TO_CODE \cup {ENODATA, EOPNOTSUPP}
  <1>1. err \in Int /\ ~(err < EXT2_ET_BASE)
    BY DEF Ext2Codes, EXT2_ET_BASE
  <1>2. Switch(err) \in {-ENOMEM, -EINVAL, -ENOTDIR, -ENOENT, -ENOSPC, -EMLINK, -EFBIG, -EEXIST,
                         -EBUSY, -ENODATA, -EFAULT, -EOPNOTSUPP, -EIO}
    BY DEF Switch
  <1>3. Switch(err) \in Int /\ Switch(err) < 0
    BY <1>2 DEF ENOMEM, EINVAL, ENOTDIR, ENOENT, ENOSPC, EMLINK, EFBIG, EEXIST, EBUSY, ENODATA,
                EFAULT, EOPNOTSUPP, EIO
  <1>4. -Switch(err) \in ERRNO_TO_CODE \cup {ENODATA, EOPNOTSUPP}
    BY <1>2 DEF ERRNO_TO_CODE, ENOMEM, EINVAL, ENOTDIR, ENOENT, ENOSPC, EMLINK, EFBIG, EEXIST,
                EBUSY, ENODATA, EFAULT, EOPNOTSUPP, EIO
  <1> QED
    BY <1>1, <1>3, <1>4 DEF TranslateError

\* What is settled for an error of libext2fs is reported.
LEMMA SettledIsReported ==
    ASSUME NEW err \in Ext2Codes \cup {0, EIO}, NEW result,
           Settle(err, result),
           \/ result = -err /\ (call.kind # "translated" \/ err = 0)
           \/ result = TranslateError(err) /\ call.kind = "translated" /\ err # 0
    PROVE  IInv'
  <1>1. err \in Ext2Codes \/ err = 0 \/ err = EIO
    OBVIOUS
  <1>2. CodeKept'
    BY DEF Settle, NoCall, CodeKept
  <1>3. outcome'.err = err /\ outcome'.kind = call.kind /\ outcome'.threw = Thrown(result)
    BY DEF Settle
  <1>4. CASE err = 0
    BY <1>2, <1>3, <1>4 DEF IInv, Reported, Thrown, Ext2Codes, EXT2_ET_BASE, EIO
  <1>5. CASE err = EIO
    BY <1>2, <1>3, <1>5 DEF IInv, Reported, Thrown, Ext2Codes, EXT2_ET_BASE, EIO
  <1>6. CASE err \in Ext2Codes
    <2>1. CASE result = TranslateError(err)
      BY <1>2, <1>3, <1>6, <2>1, TranslatedIsNegative
         DEF IInv, Reported, Thrown, Ext2Codes, EXT2_ET_BASE, EIO
    <2>2. CASE result = -err /\ call.kind # "translated"
      BY <1>2, <1>3, <1>6, <2>2 DEF IInv, Reported, Thrown, Ext2Codes, EXT2_ET_BASE, EIO
    <2> QED
      BY <1>6, <2>1, <2>2 DEF Ext2Codes, EXT2_ET_BASE
  <1> QED
    BY <1>1, <1>4, <1>5, <1>6

\* The invariant holds at first, and every step keeps it.
LEMMA InitIInv == Init => IInv
  BY DEF Init, IInv, CodeKept, Reported, NoCall, Ext2Codes, EXT2_ET_BASE, EIO

LEMMA NextIInv == IInv /\ [Next]_vars => IInv'
  <1> SUFFICES ASSUME IInv, [Next]_vars PROVE IInv'
    OBVIOUS
  <1>1. CASE UNCHANGED <<call, outcome>>
    BY <1>1 DEF IInv, CodeKept, Reported
  <1>2. ASSUME NEW m \in Mounts, NEW kind \in Calls, Start(m, kind) PROVE IInv'
    BY <1>2 DEF Start, IInv, CodeKept, Reported, Ext2Codes, EXT2_ET_BASE, EIO
  <1>3. ASSUME NEW size, SetBlksize(size) PROVE UNCHANGED <<call, outcome>>
    BY <1>3 DEF SetBlksize
  <1>4. ASSUME AskSuper \/ AskBlocks \/ AskFlush PROVE UNCHANGED <<call, outcome>>
    BY <1>4 DEF AskSuper, AskBlocks, AskFlush, Ask
  <1>5. ASSUME DiskAnswers \/ DiskRejects PROVE UNCHANGED <<call, outcome>>
    BY <1>5 DEF DiskAnswers, DiskRejects
  <1>6. ASSUME NEW err \in Codes \cup {0, EIO}, LibReturns(err) PROVE IInv'
    <2> err \in Ext2Codes \cup {0, EIO}
      BY DiskIOAssumption DEF DiskIOAssumption
    <2>1. CASE call.kind # "translated" \/ err = 0
      <3>1. Settle(err, -err)
        BY <1>6, <2>1 DEF LibReturns
      <3> QED
        BY <2>1, <3>1, SettledIsReported
    <2>2. CASE call.kind = "translated" /\ err # 0 /\ ~IsErr(err)
      <3>1. Settle(err, TranslateError(err))
        BY <1>6, <2>2 DEF LibReturns
      <3> QED
        BY <2>2, <3>1, SettledIsReported
    <2>3. CASE call.kind = "translated" /\ err # 0 /\ IsErr(err)
      <3>1. /\ call' = [call EXCEPT !.stage = "flushing", !.err = err]
            /\ UNCHANGED outcome
        BY <1>6, <2>3 DEF LibReturns
      <3>2. err \in Ext2Codes
        BY <2>3 DEF IsErr
      <3> QED
        BY <2>3, <3>1, <3>2 DEF IInv, CodeKept, Reported
    <2> QED
      BY <2>1, <2>2, <2>3
  <1>7. ASSUME FlushEnds PROVE IInv'
    <2>1. call.stage = "flushing" /\ Settle(call.err, TranslateError(call.err))
      BY <1>7 DEF FlushEnds
    <2>2. call.err \in Ext2Codes /\ call.kind = "translated"
      BY <2>1 DEF IInv, CodeKept
    <2>3. call.err # 0
      BY <2>2 DEF Ext2Codes, EXT2_ET_BASE
    <2> QED
      BY <2>1, <2>2, <2>3, SettledIsReported
  <1> QED
    BY <1>1, <1>2, <1>3, <1>4, <1>5, <1>6, <1>7 DEF Next, vars

\* Every error of libext2fs makes the call throw, by an errno of node if it was
\* translated, and an error of the disk does if it was not.
THEOREM ErrorsAreReported == Spec => []Reported
  <1>1. IInv => Reported
    BY DEF IInv
  <1> QED
    BY InitIInv, NextIInv, <1>1, PTL DEF Spec

-----------------------------------------------------------------------------
(* One device per filesystem *)

\* What the assumption says of the constants.
LEMMA Constants ==
    /\ Word \in Nat \ {0} /\ Short \in Nat \ {0} /\ DiskSize \in Nat
    /\ Size \in [Mounts -> Nat] /\ BlockSize \in [Mounts -> Nat \ {0}] /\ Offset \in [Mounts -> Nat]
    /\ \A m \in Mounts : /\ Size[m] >= 2 /\ 2 * Size[m] < Word /\ 2 * BlockSize[m] < Short
                         /\ Offset[m] + Size[m] <= DiskSize
    /\ \A m, n \in Mounts : m # n => \/ Offset[m] + Size[m] <= Offset[n]
                                     \/ Offset[n] + Size[n] <= Offset[m]
    /\ Zero \in Values
  BY DiskIOAssumption DEF DiskIOAssumption

\* Numbers below half of a word are not changed, and -1 comes out as -1.
LEMMA ModSmall == ASSUME NEW w \in Nat \ {0}, NEW x \in 0 .. w - 1 PROVE x % w = x
  BY SMT
LEMMA ModMinusOne == ASSUME NEW w \in Nat \ {0} PROVE (-1) % w = w - 1
  BY SMT
LEMMA SignedSmall ==
    ASSUME NEW w \in Nat \ {0}, NEW x \in Nat, 2 * x < w
    PROVE  Signed(x, w) = x
  <1>1. x % w = x
    BY ModSmall
  <1> QED
    BY <1>1 DEF Signed
LEMMA SignedMinusOne ==
    ASSUME NEW w \in Nat, w > 2 PROVE Signed(-1, w) = -1
  <1>1. (-1) % w = w - 1
    BY ModMinusOne, w \in Nat \ {0}
  <1> QED
    BY <1>1 DEF Signed

\* Blocks that are below the number of blocks are within the units.
LEMMA Times == ASSUME NEW a \in Nat, NEW b \in Nat \ {0} PROVE a * b \in Nat /\ a * b >= a
  BY SMT
LEMMA TimesMore ==
    ASSUME NEW a \in Nat, NEW c \in Nat, NEW b \in Nat, a <= c PROVE a * b <= c * b
  BY SMT
LEMMA Distributes ==
    ASSUME NEW a \in Nat, NEW c \in Nat, NEW b \in Nat PROVE (a + c) * b = a * b + c * b
  BY SMT
LEMMA DivBelow ==
    ASSUME NEW s \in Nat, NEW b \in Nat \ {0} PROVE s \div b \in Nat /\ (s \div b) * b <= s
  BY SMT
LEMMA BlocksFit ==
    ASSUME NEW s \in Nat, NEW b \in Nat \ {0}, NEW first \in Nat, NEW n \in Nat,
           first + n <= s \div b
    PROVE  /\ first * b \in Nat /\ n * b \in Nat /\ first * b + n * b <= s
           /\ first <= s /\ n <= s
  <1>1. s \div b \in Nat /\ (s \div b) * b <= s
    BY DivBelow
  <1>2. first * b \in Nat /\ first * b >= first /\ n * b \in Nat /\ n * b >= n
    BY Times
  <1>3. (first + n) * b <= (s \div b) * b
    BY <1>1, TimesMore
  <1>4. (first + n) * b = first * b + n * b
    BY Distributes
  <1>5. (s \div b) * b \in Nat
    BY <1>1, Times
  <1> QED
    BY <1>1, <1>2, <1>3, <1>4, <1>5

\* The units that the request r of libext2fs is about, in its filesystem.
From(r) == IF r.count < 0 THEN 1 ELSE r.block * BlockSize[r.by]
Length(r) == IF r.count < 0 THEN 1 ELSE r.count * BlockSize[r.by]

\* The access comes to those units of the partition, and stays in it.
Located(r) ==
    /\ r.by \in Mounts /\ From(r) \in Nat /\ Length(r) \in Nat
    /\ From(r) + Length(r) <= Size[r.by]
    /\ r.op # "flush" => AccessOf(r) = [at |-> Offset[r.by] + From(r), len |-> Length(r)]

\* The data are those of the request, and what is awaited is a part of it.
Carries(r) ==
    /\ \/ /\ r.op \in {"read", "flush"} /\ r.data = << >> /\ access = r.op
       \/ /\ r.op \in {"write", "discard", "zeroout"} /\ r.data # << >>
          /\ r.data \in [1 .. Length(r) -> Values]
          /\ r.op # "write" => r.data = Zeros(Length(r))
          /\ \/ access = "write" /\ r.op \in {"write", "zeroout"}
             \/ access = "discard" /\ r.op \in {"discard", "zeroout"}
    /\ r.op = "flush" => Length(r) = 0

RequestInv == asked # None => Located(asked) /\ Carries(asked)
DiskInv == /\ disk \in [0 .. DiskSize - 1 -> Values]
           /\ DOMAIN call = {"by", "kind", "stage", "err"}
           /\ call.stage \in {"running", "flushing"} => call.by \in Mounts
           /\ asked # None => call.stage # "idle"
DInv == RequestInv /\ DiskInv

\* The state that libext2fs sees.
Units == [m \in Mounts |-> [u \in 0 .. Size[m] - 1 |-> disk[Offset[m] + u]]]
Asked == IF asked = None THEN None
         ELSE [by |-> asked.by, from |-> From(asked), len |-> Length(asked), data |-> asked.data]

-----------------------------------------------------------------------------
(* The requests *)

\* A request is not None, for libext2fs or for its device.
LEMMA NotNone ==
    ASSUME NEW m \in Mounts, NEW op \in Ops, NEW block \in Nat, NEW count \in Int,
           NEW data \in Seq(Values)
    PROVE  [by |-> m, op |-> op, block |-> block, count |-> count, data |-> data] # None
  BY DiskIOAssumption DEF DiskIOAssumption
LEMMA NotNoneDevice ==
    ASSUME NEW m \in Mounts, NEW from \in Nat, NEW len \in Nat, NEW data \in Seq(Values)
    PROVE  [by |-> m, from |-> from, len |-> len, data |-> data] # None
  BY DiskIOAssumption DEF DiskIOAssumption

\* Functions on 1 .. n are sequences.
LEMMA IsSequence ==
    ASSUME NEW n \in Nat, NEW f \in [1 .. n -> Values]
    PROVE  f \in Seq(Values) /\ Len(f) = n /\ (n # 0 => f # << >>)
  OBVIOUS

\* The superblock: unit 1, one unit long.
LEMMA SuperLocated ==
    ASSUME NEW r, r.by \in Mounts, r.block = 1, r.count = -1, channel[r.by] = 1
    PROVE  Located(r) /\ From(r) = 1 /\ Length(r) = 1
  <1> DEFINE m == r.by
  <1>1. /\ Word > 2 /\ 2 * 1 < Word /\ 2 * 1 < Short /\ Word \in Nat \ {0} /\ Short \in Nat \ {0}
        /\ Size[m] \in Nat /\ Size[m] >= 2 /\ Offset[m] \in Nat
    BY Constants
  <1>2. Signed(1, Word) = 1 /\ Signed(1, Short) = 1 /\ Signed(-1, Word) = -1
    BY <1>1, SignedSmall, SignedMinusOne
  <1>3. AccessOf(r) = [at |-> 1 * 1 + Offset[m], len |-> 1]
    BY <1>2 DEF AccessOf, Wrapped, SizeOf
  <1>4. From(r) = 1 /\ Length(r) = 1
    BY DEF From, Length
  <1>5. 1 * 1 + Offset[m] = Offset[m] + 1
    BY <1>1
  <1> QED
    BY <1>1, <1>3, <1>4, <1>5 DEF Located

\* Whole blocks of the filesystem.
LEMMA BlocksLocated ==
    ASSUME NEW r, r.by \in Mounts, r.block \in Nat, r.count \in Nat,
           r.block + r.count <= Blocks(r.by), channel[r.by] = BlockSize[r.by]
    PROVE  Located(r) /\ From(r) = r.block * BlockSize[r.by] /\ Length(r) = r.count * BlockSize[r.by]
  <1> DEFINE m == r.by
             b == BlockSize[m]
  <1>1. /\ Word \in Nat \ {0} /\ Short \in Nat \ {0} /\ 2 * Size[m] < Word /\ 2 * b < Short
        /\ Size[m] \in Nat /\ b \in Nat \ {0} /\ Offset[m] \in Nat
    BY Constants
  <1>2. /\ r.block * b \in Nat /\ r.count * b \in Nat /\ r.block * b + r.count * b <= Size[m]
        /\ r.block <= Size[m] /\ r.count <= Size[m]
    BY <1>1, BlocksFit DEF Blocks
  <1>3. Signed(r.block, Word) = r.block /\ Signed(r.count, Word) = r.count /\ Signed(b, Short) = b
    <2>1. 2 * r.block < Word /\ 2 * r.count < Word
      BY <1>1, <1>2
    <2> QED
      BY <1>1, <2>1, SignedSmall
  <1>4. ~(r.count < 0)
    OBVIOUS
  <1>5. From(r) = r.block * b /\ Length(r) = r.count * b
    BY <1>4 DEF From, Length
  <1>6. AccessOf(r) = [at |-> r.block * b + Offset[m], len |-> r.count * b]
    BY <1>3, <1>4 DEF AccessOf, Wrapped, SizeOf
  <1>7. r.block * b + Offset[m] = Offset[m] + r.block * b
    BY <1>1, <1>2
  <1> QED
    BY <1>2, <1>5, <1>6, <1>7 DEF Located

\* What libext2fs writes has the length of the request.
LEMMA PatternType ==
    ASSUME NEW n \in Nat \ {0}, NEW data \in Pattern(n)
    PROVE  data \in [1 .. n -> Values] /\ data # << >> /\ data \in Seq(Values) /\ Len(data) = n
  <1>1. data \in [1 .. n -> Values]
    BY DEF Pattern
  <1> QED
    BY <1>1, IsSequence
LEMMA ZerosType ==
    ASSUME NEW n \in Nat \ {0}
    PROVE  /\ Zeros(n) \in [1 .. n -> Values] /\ Zeros(n) # << >>
           /\ Zeros(n) \in Seq(Values) /\ Len(Zeros(n)) = n
  <1>1. Zeros(n) \in [1 .. n -> Values]
    BY Constants DEF Zeros
  <1> QED
    BY <1>1, IsSequence

-----------------------------------------------------------------------------
(* Steps of the device *)

\* A unit of the disk is one of each filesystem's device, or of none.
LEMMA UnitsSame == ASSUME disk' = disk PROVE Units' = Units
  BY DEF Units

\* libext2fs asks.
LEMMA AskStep ==
    ASSUME DInv, NEW op \in Ops, NEW block \in Nat, NEW count \in Int, NEW data \in Seq(Values),
           Running, call.by \in Mounts, Ask(op, block, count, data),
           LET r == [by |-> call.by, op |-> op, block |-> block, count |-> count, data |-> data]
           IN /\ Located(r)
              /\ \/ op \in {"read", "flush"} /\ data = << >>
                 \/ /\ op \in {"write", "discard", "zeroout"} /\ data # << >>
                    /\ data \in [1 .. Length(r) -> Values] /\ Len(data) = Length(r)
                    /\ op # "write" => data = Zeros(Length(r))
              /\ op = "flush" => Length(r) = 0
    PROVE  DInv' /\ Device!Ask
  <1> DEFINE r == [by |-> call.by, op |-> op, block |-> block, count |-> count, data |-> data]
  <1>1. /\ asked = None /\ asked' = r /\ access' = FirstAccess(op) /\ told' = None
        /\ disk' = disk /\ channel' = channel /\ call' = call
    BY DEF Ask, Running
  <1>2. r.by = call.by /\ r.op = op /\ r.data = data
    OBVIOUS
  <1>3. Located(r) /\ r # None
    BY NotNone
  <1>4. From(r) \in Nat /\ Length(r) \in Nat /\ From(r) + Length(r) <= Size[call.by]
    BY <1>3, <1>2 DEF Located
  <1>5. Located(asked)'
    <2>1. AccessOf(asked)' = AccessOf(r)
      BY <1>1 DEF AccessOf
    <2>2. From(asked)' = From(r) /\ Length(asked)' = Length(r)
      BY <1>1 DEF From, Length
    <2> QED
      BY <2>1, <2>2, <1>1, <1>3 DEF Located
  <1>6. Carries(asked)'
    <2>1. Length(asked)' = Length(r)
      BY <1>1 DEF Length
    <2>2. Zeros(Length(asked))' = Zeros(Length(r))
      BY <2>1 DEF Zeros
    <2>3. /\ asked'.op = op /\ asked'.data = data
          /\ \/ op \in {"read", "flush"} /\ access' = op
             \/ op \in {"write", "zeroout"} /\ access' = "write"
             \/ op = "discard" /\ access' = "discard"
      BY <1>1 DEF FirstAccess, Ops
    <2> QED
      BY <2>1, <2>2, <2>3, <1>2 DEF Carries
  <1>7. DInv'
    BY <1>1, <1>5, <1>6 DEF DInv, RequestInv, DiskInv, Running
  <1> DEFINE q == [by |-> call.by, from |-> From(r), len |-> Length(r), data |-> data]
  <1>8. Asked = None /\ Asked' = q /\ q # None
    <2>1. From(asked)' = From(r) /\ Length(asked)' = Length(r)
      BY <1>1 DEF From, Length
    <2> QED
      BY <2>1, <1>1, <1>3, <1>4, NotNoneDevice DEF Asked
  <1>9. Device!Span(q) \subseteq 0 .. Size[q.by] - 1
    <2>1. Size[call.by] \in Int
      BY Constants
    <2> QED
      BY <2>1, <1>4 DEF Device!Span
  <1>10. q.data = << >> \/ Len(q.data) = q.len
    OBVIOUS
  <1>11. Units' = Units /\ told' = None
    BY <1>1, UnitsSame
  <1> HIDE DEF q
  <1>12. Device!Ask
    BY <1>8, <1>9, <1>10, <1>11 DEF Device!Ask, Device!Span, Units, Asked, From, Length
  <1> QED
    BY <1>7, <1>12

\* What the request looks like to the device.
LEMMA AskedType ==
    ASSUME DInv, asked # None
    PROVE  /\ asked.by \in Mounts /\ From(asked) \in Nat /\ Length(asked) \in Nat
           /\ From(asked) + Length(asked) <= Size[asked.by]
           /\ Asked # None /\ Asked.by = asked.by /\ Asked.from = From(asked)
           /\ Asked.len = Length(asked) /\ Asked.data = asked.data
           /\ asked.op # "flush" =>
                AccessOf(asked) = [at |-> Offset[asked.by] + From(asked), len |-> Length(asked)]
  <1>1. /\ asked.by \in Mounts /\ From(asked) \in Nat /\ Length(asked) \in Nat
        /\ From(asked) + Length(asked) <= Size[asked.by]
        /\ asked.op # "flush" =>
             AccessOf(asked) = [at |-> Offset[asked.by] + From(asked), len |-> Length(asked)]
    BY DEF DInv, RequestInv, Located
  <1>2. asked.data \in Seq(Values)
    <2>1. asked.data = << >> \/ asked.data \in [1 .. Length(asked) -> Values]
      BY DEF DInv, RequestInv, Carries
    <2>2. << >> \in Seq(Values)
      OBVIOUS
    <2>3. CASE asked.data \in [1 .. Length(asked) -> Values]
      BY <2>3, <1>1, IsSequence
    <2> QED
      BY <2>1, <2>2, <2>3
  <1>3. Asked = [by |-> asked.by, from |-> From(asked), len |-> Length(asked), data |-> asked.data]
    BY DEF Asked
  <1> QED
    BY <1>1, <1>2, <1>3, NotNoneDevice

\* What is in one partition is not in another.
LEMMA Apart ==
    ASSUME NEW o \in Nat, NEW s \in Nat, NEW p \in Nat, NEW t \in Nat,
           NEW from \in Nat, NEW len \in Nat, from + len <= s,
           o + s <= p \/ p + t <= o, NEW u \in 0 .. t - 1
    PROVE  p + u \notin (o + from) .. (o + from) + len - 1
  <1>1. /\ u \in Int /\ 0 <= u /\ u < t
    OBVIOUS
  <1>2. CASE o + s <= p
    BY <1>1, <1>2
  <1>3. CASE p + t <= o
    BY <1>1, <1>3
  <1> QED
    BY <1>2, <1>3

\* Units of the disk object that are set are units of the device set, and no units
\* of another filesystem.
LEMMA PutIsDo ==
    ASSUME DInv, asked # None, asked.op # "flush", asked.data \in [1 .. Length(asked) -> Values],
           NEW D \in SUBSET SpanOf(AccessOf(asked)), Put(AccessOf(asked), asked.data, D)
    PROVE  disk' \in [0 .. DiskSize - 1 -> Values]
           /\ Device!Do({k \in Device!Span(Asked) : Offset[asked.by] + k \in D})
  <1> DEFINE m == asked.by
             from == From(asked)
             len == Length(asked)
             at == Offset[m] + from
             done == {k \in Device!Span(Asked) : Offset[m] + k \in D}
  <1>1. /\ m \in Mounts /\ from \in Nat /\ len \in Nat /\ from + len <= Size[m]
        /\ Asked.by = m /\ Asked.from = from /\ Asked.len = len /\ Asked.data = asked.data
        /\ AccessOf(asked) = [at |-> at, len |-> len]
    BY AskedType
  <1>2. Size[m] \in Nat /\ Offset[m] \in Nat /\ Offset[m] + Size[m] <= DiskSize /\ DiskSize \in Nat
    BY <1>1, Constants
  <1>3. D \subseteq at .. at + len - 1
    BY <1>1 DEF SpanOf
  <1>4. disk \in [0 .. DiskSize - 1 -> Values]
    BY DEF DInv, DiskInv
  <1>5. disk' = [u \in 0 .. DiskSize - 1 |-> IF u \in D THEN asked.data[u - at + 1] ELSE disk[u]]
    BY <1>1, <1>4 DEF Put
  <1> HIDE DEF m, from, len, done
  <1>6. \A u \in D : u \in Int /\ u - at + 1 \in 1 .. len
    <2>1. at \in Nat /\ len \in Nat
      BY <1>1, <1>2
    <2> HIDE DEF at
    <2> QED
      BY <2>1, <1>3
  <1>7. asked.data \in [1 .. len -> Values]
    BY DEF len
  <1>8. disk' \in [0 .. DiskSize - 1 -> Values]
    <2>1. ASSUME NEW u \in 0 .. DiskSize - 1
          PROVE  (IF u \in D THEN asked.data[u - at + 1] ELSE disk[u]) \in Values
      <3>1. CASE u \in D
        BY <3>1, <1>6, <1>7
      <3>2. CASE u \notin D
        BY <3>2, <1>4
      <3> QED
        BY <3>1, <3>2
    <2> QED
      BY <1>5, <2>1
  <1>9. \A u \in done : Offset[m] + u \in D
    BY DEF done
  <1>10. ASSUME NEW u \in 0 .. Size[m] - 1
         PROVE  disk'[Offset[m] + u] = IF u \in done THEN asked.data[u - from + 1] ELSE disk[Offset[m] + u]
    <2>1. Offset[m] + u \in 0 .. DiskSize - 1 /\ u \in Int
      BY <1>2
    <2>2. u \in done <=> Offset[m] + u \in D
      <3>1. Offset[m] + u \in D => u \in from .. from + len - 1
        BY <1>1, <1>2, <1>3, <2>1
      <3>2. Device!Span(Asked) = from .. from + len - 1
        BY <1>1 DEF Device!Span
      <3> QED
        BY <3>1, <3>2 DEF done
    <2>3. (Offset[m] + u) - at + 1 = u - from + 1
      BY <1>1, <1>2, <2>1
    <2>4. disk'[Offset[m] + u] = IF Offset[m] + u \in D THEN asked.data[(Offset[m] + u) - at + 1]
                                 ELSE disk[Offset[m] + u]
      BY <2>1, <1>5
    <2> QED
      BY <2>2, <2>3, <2>4, Zenon
  <1>11. ASSUME NEW n \in Mounts, n # m, NEW u \in 0 .. Size[n] - 1
         PROVE  disk'[Offset[n] + u] = disk[Offset[n] + u]
    <2>1. /\ Size[n] \in Nat /\ Offset[n] \in Nat /\ Offset[n] + Size[n] <= DiskSize
          /\ Offset[m] + Size[m] <= Offset[n] \/ Offset[n] + Size[n] <= Offset[m]
      <3>1. Size[n] \in Nat /\ Offset[n] \in Nat /\ Offset[n] + Size[n] <= DiskSize
        BY Constants
      <3>2. Offset[m] + Size[m] <= Offset[n] \/ Offset[n] + Size[n] <= Offset[m]
        BY <1>1, <1>11, Constants, Zenon
      <3> QED
        BY <3>1, <3>2
    <2>2. Offset[n] + u \in 0 .. DiskSize - 1
      BY <2>1, <1>2
    <2>3. Offset[n] + u \notin at .. at + len - 1
      <3>1. /\ Offset[m] \in Nat /\ Size[m] \in Nat /\ from \in Nat /\ len \in Nat
            /\ from + len <= Size[m]
        BY <1>1, <1>2
      <3> QED
        BY <2>1, <3>1, Apart
    <2> QED
      BY <2>2, <2>3, <1>3, <1>5
  <1>12. Units' = [Units EXCEPT ![m] = [u \in 0 .. Size[m] - 1 |->
                       IF u \in done THEN asked.data[u - from + 1] ELSE Units[m][u]]]
    <2> DEFINE new == [u \in 0 .. Size[m] - 1 |->
                         IF u \in done THEN asked.data[u - from + 1] ELSE disk[Offset[m] + u]]
    <2>1. [u \in 0 .. Size[m] - 1 |-> disk'[Offset[m] + u]] = new
      BY <1>10
    <2>2. \A n \in Mounts : n # m => [u \in 0 .. Size[n] - 1 |-> disk'[Offset[n] + u]]
                                    = [u \in 0 .. Size[n] - 1 |-> disk[Offset[n] + u]]
      BY <1>11
    <2>3. new = [u \in 0 .. Size[m] - 1 |->
                   IF u \in done THEN asked.data[u - from + 1] ELSE Units[m][u]]
      BY <1>1 DEF Units
    <2> HIDE DEF new
    <2>4. Units' = [n \in Mounts |-> IF n = m THEN new ELSE Units[n]]
      BY <2>1, <2>2, <1>1 DEF Units
    <2> QED
      BY <2>3, <2>4, <1>1 DEF Units
  <1>13. Device!Do(done)
    <2>1. DOMAIN Units[m] = 0 .. Size[m] - 1
      BY <1>1 DEF Units
    <2>2. Units' = [Units EXCEPT ![Asked.by] = [u \in DOMAIN @ |->
                       IF u \in done THEN Asked.data[u - Asked.from + 1] ELSE @[u]]]
      BY <1>12, <2>1, <1>1
    <2> QED
      BY <2>2 DEF Device!Do, Units, Asked, From, Length
  <1> QED
    BY <1>8, <1>13 DEF done, m

\* Setting all units of the access is setting all units asked for.
LEMMA PutAll ==
    ASSUME DInv, asked # None, asked.op # "flush", asked.data \in [1 .. Length(asked) -> Values],
           Put(AccessOf(asked), asked.data, SpanOf(AccessOf(asked)))
    PROVE  disk' \in [0 .. DiskSize - 1 -> Values] /\ Device!Do(Device!Span(Asked))
  <1> DEFINE D == SpanOf(AccessOf(asked))
  <1>1. /\ asked.by \in Mounts /\ From(asked) \in Nat /\ Length(asked) \in Nat
        /\ Asked.from = From(asked) /\ Asked.len = Length(asked)
        /\ AccessOf(asked) = [at |-> Offset[asked.by] + From(asked), len |-> Length(asked)]
    BY AskedType
  <1>2. Offset[asked.by] \in Nat
    BY <1>1, Constants
  <1>3. D = (Offset[asked.by] + From(asked)) .. (Offset[asked.by] + From(asked)) + Length(asked) - 1
    BY <1>1 DEF SpanOf
  <1>4. Device!Span(Asked) = From(asked) .. From(asked) + Length(asked) - 1
    BY <1>1 DEF Device!Span
  <1>5. Device!Span(Asked) = {k \in Device!Span(Asked) : Offset[asked.by] + k \in D}
    BY <1>1, <1>2, <1>3, <1>4
  <1>6. D \in SUBSET SpanOf(AccessOf(asked)) /\ Put(AccessOf(asked), asked.data, D)
    OBVIOUS
  <1> HIDE DEF D
  <1> DEFINE done == {k \in Device!Span(Asked) : Offset[asked.by] + k \in D}
             Set(us) == [u \in DOMAIN Units[Asked.by] |->
                           IF u \in us THEN Asked.data[u - Asked.from + 1] ELSE Units[Asked.by][u]]
  <1>7. disk' \in [0 .. DiskSize - 1 -> Values] /\ Device!Do(done)
    BY <1>6, PutIsDo
  <1>8. Set(done) = Set(Device!Span(Asked))
    BY <1>5
  <1>9. Units' = [Units EXCEPT ![Asked.by] = Set(done)]
    BY <1>7 DEF Device!Do, Units, Asked, From, Length
  <1>10. Units' = [Units EXCEPT ![Asked.by] = Set(Device!Span(Asked))]
    BY <1>8, <1>9
  <1>11. Device!Do(Device!Span(Asked))
    BY <1>10 DEF Device!Do, Units, Asked, From, Length
  <1> QED
    BY <1>7, <1>11

\* The operators of the device, with the names used here.
LEMMA DeviceSteps ==
    /\ Device!Work <=> /\ Asked # None /\ Asked.data # << >>
                       /\ \E done \in SUBSET Device!Span(Asked) : Device!Do(done)
                       /\ UNCHANGED <<Asked, told>>
    /\ Device!Read <=> /\ Asked # None /\ Asked.data = << >>
                       /\ told' = [ok |-> TRUE, data |-> [i \in 1 .. Asked.len |->
                                     Units[Asked.by][Asked.from + i - 1]]]
                       /\ Asked' = None /\ Units' = Units
    /\ Device!Write <=> /\ Asked # None /\ Asked.data # << >> /\ Device!Do(Device!Span(Asked))
                        /\ told' = [ok |-> TRUE, data |-> << >>] /\ Asked' = None
    /\ Device!Fail <=> /\ Asked # None
                       /\ IF Asked.data = << >> THEN Units' = Units
                          ELSE \E done \in SUBSET Device!Span(Asked) : Device!Do(done)
                       /\ told' = [ok |-> FALSE, data |-> << >>] /\ Asked' = None
    /\ Device!Forget <=> Asked = None /\ told' = None /\ Units' = Units /\ Asked' = Asked
  BY Zenon DEF Device!Work, Device!Read, Device!Write, Device!Fail, Device!Forget, Device!IsRead,
               Units, Asked, From, Length

\* The disk answers: the request is done, or the first half of a zeroout.
LEMMA AnswerStep ==
    ASSUME DInv, DiskAnswers
    PROVE  DInv' /\ Device!Next
  <1> DEFINE a == AccessOf(asked)
             next == NextAccess(asked.op, access)
  <1>1. /\ asked # None /\ access' = next /\ channel' = channel /\ call' = call
        /\ \/ access = "write" /\ Put(a, asked.data, SpanOf(a))
           \/ access = "discard" /\ Put(a, Zeros(a.len), SpanOf(a))
           \/ access \notin {"write", "discard"} /\ disk' = disk
        /\ \/ next # None /\ UNCHANGED <<asked, told>>
           \/ /\ next = None /\ asked' = None
              /\ told' = [ok |-> TRUE,
                          data |-> IF access = "read" THEN [i \in 1 .. a.len |-> disk[a.at + i - 1]]
                                   ELSE << >>]
    BY DEF DiskAnswers
  <1>2. /\ asked.by \in Mounts /\ From(asked) \in Nat /\ Length(asked) \in Nat
        /\ From(asked) + Length(asked) <= Size[asked.by]
        /\ Asked # None /\ Asked.by = asked.by /\ Asked.from = From(asked)
        /\ Asked.len = Length(asked) /\ Asked.data = asked.data
        /\ asked.op # "flush" => a = [at |-> Offset[asked.by] + From(asked), len |-> Length(asked)]
    BY <1>1, AskedType
  <1>3. Carries(asked) /\ Located(asked)
    BY <1>1 DEF DInv, RequestInv
  <1>4. CASE asked.op \in {"read", "flush"}
    <2>1. /\ asked.data = << >> /\ access = asked.op /\ disk' = disk
      BY <1>1, <1>3, <1>4 DEF Carries
    <2>2. next = None
      BY <1>4 DEF NextAccess
    <2>3. asked' = None /\ Asked' = None /\ Units' = Units
      BY <1>1, <2>1, <2>2, UnitsSame DEF Asked
    <2>4. told'.ok = TRUE /\ told' = [ok |-> TRUE, data |-> told'.data]
      BY <1>1, <2>2
    <2>5. told'.data = [i \in 1 .. Asked.len |-> Units[Asked.by][Asked.from + i - 1]]
      <3>1. CASE asked.op = "read"
        <4>1. told'.data = [i \in 1 .. a.len |-> disk[a.at + i - 1]]
          BY <1>1, <2>1, <2>2, <3>1
        <4>2. a.len = Length(asked) /\ a.at = Offset[asked.by] + From(asked)
          BY <1>2, <3>1
        <4>3. Offset[asked.by] \in Nat /\ Size[asked.by] \in Nat
          BY <1>2, Constants
        <4>4. ASSUME NEW i \in 1 .. Length(asked)
              PROVE  Units[asked.by][From(asked) + i - 1] = disk[a.at + i - 1]
          <5>1. From(asked) + i - 1 \in 0 .. Size[asked.by] - 1
            BY <1>2, <4>3
          <5>2. Units[asked.by][From(asked) + i - 1] = disk[Offset[asked.by] + (From(asked) + i - 1)]
            BY <5>1, <1>2 DEF Units
          <5>3. Offset[asked.by] + (From(asked) + i - 1) = (Offset[asked.by] + From(asked)) + i - 1
            BY <1>2, <4>3
          <5> QED
            BY <5>2, <5>3, <4>2
        <4> QED
          BY <4>1, <4>2, <4>4, <1>2
      <3>2. CASE asked.op = "flush"
        <4>1. told'.data = << >> /\ Asked.len = 0
          BY <1>1, <1>2, <1>3, <2>1, <2>2, <3>2 DEF Carries
        <4>2. << >> = [i \in 1 .. 0 |-> Units[Asked.by][Asked.from + i - 1]]
          OBVIOUS
        <4> QED
          BY <4>1, <4>2
      <3> QED
        BY <1>4, <3>1, <3>2
    <2>6. Device!Read
      BY <1>2, <2>1, <2>3, <2>4, <2>5, DeviceSteps
    <2>7. DInv'
      BY <1>1, <2>1, <2>3 DEF DInv, RequestInv, DiskInv
    <2> QED
      BY <2>6, <2>7 DEF Device!Next
  <1>5. CASE asked.op \in {"write", "discard", "zeroout"}
    <2>1. /\ asked.data # << >> /\ asked.data \in [1 .. Length(asked) -> Values]
          /\ asked.op # "write" => asked.data = Zeros(Length(asked))
          /\ \/ access = "write" /\ asked.op \in {"write", "zeroout"}
             \/ access = "discard" /\ asked.op \in {"discard", "zeroout"}
      BY <1>3, <1>5 DEF Carries
    <2>2. Put(a, asked.data, SpanOf(a))
      <3>1. a.len = Length(asked)
        BY <1>2, <1>5
      <3> QED
        BY <1>1, <2>1, <3>1
    <2>3. disk' \in [0 .. DiskSize - 1 -> Values] /\ Device!Do(Device!Span(Asked))
      BY <1>1, <1>5, <2>1, <2>2, PutAll
    <2>4. CASE next # None
      <3>1. /\ asked.op = "zeroout" /\ access' = "discard" /\ UNCHANGED <<asked, told>>
        BY <1>1, <2>4 DEF NextAccess
      <3>2. UNCHANGED <<Asked, told>>
        BY <3>1 DEF Asked, From, Length
      <3>3. \E done \in SUBSET Device!Span(Asked) : Device!Do(done)
        <4>1. Device!Span(Asked) \in SUBSET Device!Span(Asked)
          OBVIOUS
        <4> QED
          BY <2>3, <4>1, Zenon DEF Device!Do
      <3>4. Device!Work
        BY <1>2, <2>1, <3>2, <3>3, DeviceSteps
      <3>5. Located(asked)' /\ Carries(asked)'
        BY <1>1, <1>3, <2>1, <3>1 DEF Located, Carries, AccessOf, From, Length, Zeros
      <3>6. DInv'
        BY <1>1, <2>3, <3>5 DEF DInv, RequestInv, DiskInv
      <3> QED
        BY <3>4, <3>6 DEF Device!Next
    <2>5. CASE next = None
      <3>1. asked' = None /\ told' = [ok |-> TRUE, data |-> << >>]
        BY <1>1, <2>1, <2>5
      <3>2. Asked' = None
        BY <3>1 DEF Asked
      <3>3. Device!Write
        BY <1>2, <2>1, <2>3, <3>1, <3>2, DeviceSteps
      <3>4. DInv'
        BY <1>1, <2>3, <3>1 DEF DInv, RequestInv, DiskInv
      <3> QED
        BY <3>3, <3>4 DEF Device!Next
    <2> QED
      BY <2>4, <2>5
  <1> QED
    BY <1>3, <1>4, <1>5 DEF Carries

\* The disk rejects, with any part of the access done.
LEMMA RejectStep ==
    ASSUME DInv, DiskRejects
    PROVE  DInv' /\ Device!Next
  <1> DEFINE a == AccessOf(asked)
  <1>1. /\ asked # None /\ asked' = None /\ channel' = channel /\ call' = call
        /\ told' = [ok |-> FALSE, data |-> << >>]
        /\ \/ access = "write" /\ \E D \in SUBSET SpanOf(a) : Put(a, asked.data, D)
           \/ access = "discard" /\ \E D \in SUBSET SpanOf(a) : Put(a, Zeros(a.len), D)
           \/ access \notin {"write", "discard"} /\ disk' = disk
    BY DEF DiskRejects
  <1>2. /\ Asked # None /\ Asked.data = asked.data /\ Asked' = None
        /\ asked.op # "flush" => a.len = Length(asked)
    BY <1>1, AskedType DEF Asked
  <1>3. Carries(asked)
    BY <1>1 DEF DInv, RequestInv
  <1>4. CASE asked.op \in {"read", "flush"}
    <2>1. asked.data = << >> /\ disk' = disk
      BY <1>1, <1>3, <1>4 DEF Carries
    <2>2. Device!Fail
      BY <1>1, <1>2, <2>1, UnitsSame, DeviceSteps
    <2>3. DInv'
      BY <1>1, <2>1 DEF DInv, RequestInv, DiskInv
    <2> QED
      BY <2>2, <2>3 DEF Device!Next
  <1>5. CASE asked.op \in {"write", "discard", "zeroout"}
    <2>1. /\ asked.data # << >> /\ asked.data \in [1 .. Length(asked) -> Values]
          /\ asked.op # "write" => asked.data = Zeros(Length(asked))
          /\ \/ access = "write" /\ asked.op \in {"write", "zeroout"}
             \/ access = "discard" /\ asked.op \in {"discard", "zeroout"}
      BY <1>3, <1>5 DEF Carries
    <2>2. PICK D \in SUBSET SpanOf(a) : Put(a, asked.data, D)
      BY <1>1, <1>2, <1>5, <2>1
    <2>3. /\ disk' \in [0 .. DiskSize - 1 -> Values]
          /\ Device!Do({k \in Device!Span(Asked) : Offset[asked.by] + k \in D})
      BY <1>1, <1>5, <2>1, <2>2, PutIsDo
    <2>4. \E done \in SUBSET Device!Span(Asked) : Device!Do(done)
      <3>1. {k \in Device!Span(Asked) : Offset[asked.by] + k \in D} \in SUBSET Device!Span(Asked)
        OBVIOUS
      <3> QED
        BY <2>3, <3>1, Zenon DEF Device!Do
    <2>5. Device!Fail
      BY <1>1, <1>2, <2>1, <2>4, DeviceSteps
    <2>6. DInv'
      BY <1>1, <2>3 DEF DInv, RequestInv, DiskInv
    <2> QED
      BY <2>5, <2>6 DEF Device!Next
  <1> QED
    BY <1>3, <1>4, <1>5 DEF Carries

\* libext2fs asks for the superblock.
LEMMA AskSuperStep ==
    ASSUME DInv, Running, AskSuper
    PROVE  DInv' /\ Device!Ask
  <1>1. call.by \in Mounts /\ channel[call.by] = 1
    BY DEF AskSuper, Running, DInv, DiskInv
  <1>2. /\ << >> \in Seq(Values) /\ 1 \in Nat /\ -1 \in Int
        /\ "read" \in Ops /\ "write" \in Ops
    BY DEF Ops
  <1>3. ASSUME NEW r, r.by = call.by, r.block = 1, r.count = -1
        PROVE  Located(r) /\ Length(r) = 1
    BY <1>1, <1>3, SuperLocated
  <1>4. CASE Ask("read", 1, -1, << >>)
    <2> DEFINE r == [by |-> call.by, op |-> "read", block |-> 1, count |-> -1, data |-> << >>]
    <2>1. Located(r)
      BY <1>3
    <2> QED
      BY <1>1, <1>2, <1>4, <2>1, AskStep
  <1>5. ASSUME NEW data \in Pattern(1), Ask("write", 1, -1, data)
        PROVE  DInv' /\ Device!Ask
    <2> DEFINE r == [by |-> call.by, op |-> "write", block |-> 1, count |-> -1, data |-> data]
    <2>1. Located(r) /\ Length(r) = 1
      BY <1>3
    <2>2. data \in [1 .. 1 -> Values] /\ data # << >> /\ data \in Seq(Values) /\ Len(data) = 1
      BY PatternType, 1 \in Nat \ {0}
    <2>3. data \in [1 .. Length(r) -> Values] /\ Len(data) = Length(r)
      BY <2>1, <2>2
    <2> QED
      BY <1>1, <1>2, <1>5, <2>1, <2>2, <2>3, AskStep
  <1> QED
    BY <1>4, <1>5 DEF AskSuper

\* libext2fs asks for whole blocks.
LEMMA AskBlocksStep ==
    ASSUME DInv, Running, AskBlocks
    PROVE  DInv' /\ Device!Ask
  <1>1. call.by \in Mounts /\ channel[call.by] = BlockSize[call.by]
    BY DEF AskBlocks, Running, DInv, DiskInv
  <1> DEFINE b == BlockSize[call.by]
  <1>2. b \in Nat \ {0} /\ Size[call.by] \in Nat
    BY <1>1, Constants
  <1>3. Blocks(call.by) \in Nat
    BY <1>2, DivBelow DEF Blocks
  <1>4. PICK first \in 0 .. Blocks(call.by), n \in 0 .. Blocks(call.by) :
          /\ n >= 1 /\ first + n <= Blocks(call.by)
          /\ \/ Ask("read", first, n, << >>)
             \/ \E data \in Pattern(n * b) : Ask("write", first, n, data)
             \/ Ask("discard", first, n, Zeros(n * b))
             \/ Ask("zeroout", first, n, Zeros(n * b))
    BY DEF AskBlocks
  <1>5. first \in Nat /\ n \in Nat \ {0} /\ n \in Int
    BY <1>3, <1>4
  <1>6. n * b \in Nat \ {0}
    BY <1>2, <1>5, Times
  <1>7. ASSUME NEW r, r.by = call.by, r.block = first, r.count = n
        PROVE  Located(r) /\ Length(r) = n * b
    BY <1>1, <1>4, <1>5, <1>7, BlocksLocated
  <1>8. ASSUME NEW op \in {"write", "discard", "zeroout"}, NEW data,
               Ask(op, first, n, data),
               data \in [1 .. n * b -> Values] /\ data # << >> /\ data \in Seq(Values) /\ Len(data) = n * b,
               op # "write" => data = Zeros(n * b)
        PROVE  DInv' /\ Device!Ask
    <2> DEFINE r == [by |-> call.by, op |-> op, block |-> first, count |-> n, data |-> data]
    <2>1. Located(r) /\ Length(r) = n * b
      BY <1>7
    <2>2. op \in Ops /\ op # "flush"
      BY <1>8 DEF Ops
    <2>3. /\ data \in [1 .. Length(r) -> Values] /\ Len(data) = Length(r)
          /\ op # "write" => data = Zeros(Length(r))
      BY <1>8, <2>1
    <2> QED
      BY <1>1, <1>5, <1>8, <2>1, <2>2, <2>3, AskStep
  <1>9. CASE Ask("read", first, n, << >>)
    <2> DEFINE r == [by |-> call.by, op |-> "read", block |-> first, count |-> n, data |-> << >>]
    <2>1. Located(r)
      BY <1>7
    <2>2. "read" \in Ops /\ << >> \in Seq(Values)
      BY DEF Ops
    <2> QED
      BY <1>1, <1>5, <1>9, <2>1, <2>2, AskStep
  <1>10. CASE \E data \in Pattern(n * b) : Ask("write", first, n, data)
    BY <1>6, <1>8, <1>10, PatternType
  <1>11. CASE Ask("discard", first, n, Zeros(n * b)) \/ Ask("zeroout", first, n, Zeros(n * b))
    BY <1>6, <1>8, <1>11, ZerosType
  <1> QED
    BY <1>4, <1>9, <1>10, <1>11

\* libext2fs asks for a flush, which to its device is a read of nothing.
LEMMA AskFlushStep ==
    ASSUME DInv, Running, AskFlush
    PROVE  DInv' /\ Device!Ask
  <1> DEFINE r == [by |-> call.by, op |-> "flush", block |-> 0, count |-> 0, data |-> << >>]
  <1>1. call.by \in Mounts
    BY DEF Running, DInv, DiskInv
  <1>2. /\ << >> \in Seq(Values) /\ 0 \in Nat /\ 0 \in Int /\ "flush" \in Ops
        /\ Size[call.by] \in Nat /\ BlockSize[call.by] \in Nat
    BY <1>1, Constants DEF Ops
  <1>3. From(r) = 0 /\ Length(r) = 0
    BY <1>2 DEF From, Length
  <1>4. Located(r)
    BY <1>1, <1>2, <1>3 DEF Located
  <1> QED
    BY <1>1, <1>2, <1>3, <1>4, AskStep DEF AskFlush

\* The other steps are not seen by the device, or are the end of a call.
LEMMA RestSteps ==
    ASSUME DInv,
           \/ \E m \in Mounts, kind \in Calls : Start(m, kind)
           \/ \E size \in {1} \cup {BlockSize[m] : m \in Mounts} : SetBlksize(size)
           \/ \E err \in Codes \cup {0, EIO} : LibReturns(err)
           \/ FlushEnds
           \/ UNCHANGED vars
    PROVE  DInv' /\ (Device!Forget \/ UNCHANGED <<Units, Asked, told>>)
  <1>1. asked' = asked => Asked' = Asked
    BY DEF Asked, From, Length
  <1>2. asked = None => Asked = None
    BY DEF Asked
  <1>3. ASSUME NEW m \in Mounts, NEW kind \in Calls, Start(m, kind)
        PROVE  DInv' /\ UNCHANGED <<Units, Asked, told>>
    <2>1. /\ UNCHANGED <<disk, asked, told>> /\ call.stage = "idle"
          /\ call' = [by |-> m, kind |-> kind, stage |-> "running", err |-> 0]
      BY <1>3 DEF Start
    <2>2. asked = None
      BY <2>1 DEF DInv, DiskInv
    <2> QED
      BY <1>1, <2>1, <2>2, UnitsSame DEF DInv, DiskInv, RequestInv
  <1>4. ASSUME NEW size, SetBlksize(size)
        PROVE  DInv' /\ UNCHANGED <<Units, Asked, told>>
    <2>1. UNCHANGED <<disk, asked, told, call>> /\ asked = None
      BY <1>4 DEF SetBlksize, Running
    <2> QED
      BY <1>1, <2>1, UnitsSame DEF DInv, DiskInv, RequestInv
  <1>5. ASSUME \/ call' = NoCall
               \/ \E err : call' = [call EXCEPT !.stage = "flushing", !.err = err],
               UNCHANGED <<disk, asked>>, told' = None, Running
        PROVE  DInv' /\ Device!Forget
    <2>1. asked = None /\ call.stage \in {"running", "flushing"}
      BY <1>5 DEF Running
    <2>2. Device!Forget
      BY <1>1, <1>2, <1>5, <2>1, UnitsSame, DeviceSteps
    <2>3. /\ DOMAIN call' = {"by", "kind", "stage", "err"}
          /\ call'.stage \in {"idle", "flushing"}
          /\ call'.stage = "flushing" => call'.by = call.by
      <3>1. CASE call' = NoCall
        BY <3>1 DEF NoCall
      <3>2. ASSUME NEW err, call' = [call EXCEPT !.stage = "flushing", !.err = err]
            PROVE  DOMAIN call' = DOMAIN call /\ call'.stage = "flushing" /\ call'.by = call.by
        BY <3>2 DEF DInv, DiskInv
      <3> QED
        BY <1>5, <3>1, <3>2 DEF DInv, DiskInv
    <2>4. call'.stage = "flushing" => call'.by \in Mounts
      BY <2>1, <2>3 DEF DInv, DiskInv
    <2>5. DInv'
      BY <1>5, <2>1, <2>3, <2>4 DEF DInv, DiskInv, RequestInv
    <2> QED
      BY <2>2, <2>5
  <1>6. ASSUME NEW err, LibReturns(err) PROVE DInv' /\ Device!Forget
    BY <1>5, <1>6 DEF LibReturns, Settle
  <1>7. CASE FlushEnds
    BY <1>5, <1>7 DEF FlushEnds, Settle
  <1>8. CASE UNCHANGED vars
    <2>1. UNCHANGED <<disk, channel, asked, access, told, call>>
      BY <1>8 DEF vars
    <2>2. DInv'
      BY <2>1 DEF DInv, DiskInv, RequestInv, Located, Carries, AccessOf, From, Length, Zeros
    <2> QED
      BY <1>1, <2>1, <2>2, UnitsSame
  <1> QED
    BY <1>3, <1>4, <1>6, <1>7, <1>8

\* Every filesystem has a device of its own, for all partitions that do not
\* overlap, block sizes and block numbers that C does not make negative: the
\* io_manager refines BlockDevice.
THEOREM IoImplementsDevice == Spec => ImplementsDevice
  <1>1. Init => DInv /\ Device!Init
    <2> SUFFICES ASSUME Init PROVE DInv /\ Device!Init
      OBVIOUS
    <2>1. /\ disk \in [0 .. DiskSize - 1 -> Values] /\ asked = None /\ told = None
          /\ call = NoCall
      BY DEF Init
    <2>2. ASSUME NEW m \in Mounts
          PROVE  [u \in 0 .. Size[m] - 1 |-> disk[Offset[m] + u]] \in [0 .. Size[m] - 1 -> Values]
      <3>1. \A u \in 0 .. Size[m] - 1 : Offset[m] + u \in 0 .. DiskSize - 1
        BY Constants
      <3> QED
        BY <2>1, <3>1
    <2>3. Units \in [Mounts -> UNION {[0 .. Size[m] - 1 -> Values] : m \in Mounts}]
      BY <2>2, Zenon DEF Units
    <2>4. \A m \in Mounts : DOMAIN Units[m] = 0 .. Size[m] - 1
      BY DEF Units
    <2>5. DInv
      BY <2>1 DEF DInv, DiskInv, RequestInv, NoCall
    <2>6. Asked = None
      BY <2>1 DEF Asked
    <2>7. Device!Init
      BY <2>1, <2>3, <2>4, <2>6 DEF Device!Init, Units, Asked, From, Length
    <2> QED
      BY <2>5, <2>7
  <1>2. DInv /\ [Next]_vars => DInv' /\ [Device!Next]_<<Units, Asked, told>>
    <2> SUFFICES ASSUME DInv, [Next]_vars
                 PROVE  DInv' /\ [Device!Next]_<<Units, Asked, told>>
      OBVIOUS
    <2>1. CASE Running /\ (AskSuper \/ AskBlocks \/ AskFlush)
      BY <2>1, AskSuperStep, AskBlocksStep, AskFlushStep DEF Device!Next
    <2>2. CASE DiskAnswers \/ DiskRejects
      BY <2>2, AnswerStep, RejectStep
    <2>3. CASE ~(Running /\ (AskSuper \/ AskBlocks \/ AskFlush)) /\ ~(DiskAnswers \/ DiskRejects)
      <3>1. DInv' /\ (Device!Forget \/ UNCHANGED <<Units, Asked, told>>)
        BY <2>3, RestSteps DEF Next
      <3> QED
        BY <3>1 DEF Device!Next
    <2> QED
      BY <2>1, <2>2, <2>3
  <1> QED
    BY <1>1, <1>2, PTL DEF Spec, ImplementsDevice, Device!Spec, Units, Asked, From, Length

-----------------------------------------------------------------------------
(* node_ext2fs_trim: the loop that makes the discards *)

\* The request r is a maximal run of the blocks free, below s.
IsRunBelow(r, s, free) ==
    /\ r.from <= r.to /\ r.to < s
    /\ \A b \in r.from .. r.to : b \in free
    /\ r.from - 1 \notin free /\ r.to + 1 \notin free

\* What the loop knows at its head: start begins a run whose blocks up to blk
\* are free, and the free blocks below start were discarded.
LoopInvariant ==
    /\ start \in First .. Count + 1 /\ blk \in First .. Count + 1
    /\ start <= blk
    /\ blk = Count + 1 => start = Count + 1
    /\ \A b \in start .. blk - 1 : b \in Free
    /\ start - 1 \notin Free
    /\ \A r \in requests : IsRunBelow(r, start, Free)
    /\ \A b \in Free : b < start => \E r \in requests : b \in r.from .. r.to

TrimInv ==
    /\ TrimTypeOK
    /\ pc # "idle" => LoopInvariant
    /\ pc = "done" => start = Count + 1

-----------------------------------------------------------------------------
\* Before the first trim.
LEMMA TrimInitInv == TrimInit => TrimInv
  BY TrimAssumption DEF TrimInit, TrimInv, TrimTypeOK, BlockNumbers

\* A trim starts with an empty run at the first block.
LEMMA BeginKeeps == ASSUME TrimInv, Begin PROVE TrimInv'
  <1>1. /\ start' = First /\ blk' = First /\ requests' = {} /\ used' = used
        /\ pc' \in {"loop", "failed"}
    BY DEF Begin
  <1>2. TrimTypeOK'
    BY <1>1, TrimAssumption DEF TrimInv, TrimTypeOK, BlockNumbers
  <1>3. LoopInvariant'
    BY <1>1, TrimAssumption DEF LoopInvariant, Free, BlockNumbers
  <1> QED
    BY <1>1, <1>2, <1>3 DEF TrimInv

\* blk++ does not wrap.
LEMMA NextDoesNotWrap ==
    ASSUME blk \in First .. Count
    PROVE  (blk + 1) % IntWord = blk + 1
  BY TrimAssumption

\* An iteration either extends the current run by a free block, or closes it.
LEMMA IterateKeeps == ASSUME TrimInv, Iterate PROVE TrimInv'
  <1>1. /\ pc = "loop" /\ pc' = "loop" /\ used' = used
        /\ TrimTypeOK /\ LoopInvariant
        /\ blk \in First .. Count
    BY TrimAssumption DEF TrimInv, Iterate, LoopInvariant
  <1>2. NextBlk = blk + 1 /\ NextStart = blk + 1
    BY <1>1, NextDoesNotWrap DEF NextBlk, NextStart
  <1>3. Free' = Free
    BY <1>1 DEF Free, BlockNumbers
  <1>4. CASE ~AtRunEnd
    <2>1. blk' = blk + 1 /\ start' = start /\ requests' = requests
      BY <1>2, <1>4 DEF Iterate
    <2>2. blk \in Free /\ blk < Count
      BY <1>1, <1>4, TrimAssumption DEF AtRunEnd, Free, BlockNumbers
    <2>3. TrimTypeOK'
      BY <1>1, <2>1, <2>2, TrimAssumption DEF TrimTypeOK
    <2>4. \A b \in start' .. blk' - 1 : b \in Free'
      BY <1>1, <1>3, <2>1, <2>2, TrimAssumption DEF LoopInvariant
    <2>5. LoopInvariant'
      BY <1>1, <1>3, <2>1, <2>2, <2>4, TrimAssumption DEF LoopInvariant, IsRunBelow
    <2> QED
      BY <1>1, <2>3, <2>5 DEF TrimInv
  <1>5. CASE AtRunEnd
    <2>1. blk' = blk + 1 /\ start' = blk + 1
      BY <1>2, <1>5 DEF Iterate
    <2>2. blk \notin Free
      BY <1>1, <1>5, TrimAssumption DEF AtRunEnd, Free, BlockNumbers
    <2>3. /\ start' \in First .. Count + 1 /\ blk' \in First .. Count + 1
          /\ start' <= blk'
          /\ blk' = Count + 1 => start' = Count + 1
          /\ \A b \in start' .. blk' - 1 : b \in Free'
          /\ start' - 1 \notin Free'
      BY <1>1, <1>3, <2>1, <2>2, TrimAssumption
    <2>4. CASE start < blk
      <3> DEFINE run == [from |-> start, to |-> blk - 1]
      <3>1. requests' = requests \cup {run}
        BY <1>5, <2>4 DEF Iterate, RunTo
      <3>2. start \in 0 .. Count /\ blk - 1 \in 0 .. Count
        BY <1>1, <2>4, TrimAssumption DEF LoopInvariant
      <3>3. TrimTypeOK'
        BY <1>1, <2>3, <3>1, <3>2, TrimAssumption DEF TrimTypeOK
      <3>4. IsRunBelow(run, start', Free)
        BY <1>1, <1>3, <2>1, <2>2, <2>4, TrimAssumption DEF IsRunBelow, LoopInvariant
      <3>5. \A r \in requests : IsRunBelow(r, start', Free)
        <4> SUFFICES ASSUME NEW r \in requests PROVE IsRunBelow(r, start', Free)
          OBVIOUS
        <4>1. IsRunBelow(r, start, Free) /\ r.to \in 0 .. Count
          BY <1>1 DEF LoopInvariant, TrimTypeOK
        <4> QED
          BY <1>1, <1>3, <2>1, <4>1, TrimAssumption DEF IsRunBelow, LoopInvariant
      <3>6. ASSUME NEW b \in Free, b < blk + 1
            PROVE  \E r \in requests' : b \in r.from .. r.to
        <4>1. b \in Int /\ b # blk
          BY <2>2, <3>6, TrimAssumption DEF Free, BlockNumbers
        <4>2. CASE b < start
          BY <1>1, <3>1, <4>2 DEF LoopInvariant
        <4>3. CASE b >= start
          <5>1. b \in run.from .. run.to
            BY <1>1, <3>6, <4>1, <4>3, TrimAssumption DEF LoopInvariant
          <5> QED
            BY <3>1, <5>1
        <4> QED
          BY <1>1, <4>1, <4>2, <4>3, TrimAssumption DEF LoopInvariant
      <3>7. \A r \in requests' : IsRunBelow(r, start', Free')
        BY <1>3, <3>1, <3>4, <3>5
      <3>8. \A b \in Free' : b < start' => \E r \in requests' : b \in r.from .. r.to
        BY <1>3, <2>1, <3>6
      <3>9. LoopInvariant'
        BY <2>3, <3>7, <3>8 DEF LoopInvariant
      <3> QED
        BY <1>1, <3>3, <3>9 DEF TrimInv
    <2>5. CASE ~(start < blk)
      <3>1. requests' = requests /\ start = blk
        BY <1>1, <1>5, <2>5, TrimAssumption DEF Iterate, LoopInvariant
      <3>2. TrimTypeOK'
        BY <1>1, <2>3, <3>1, TrimAssumption DEF TrimTypeOK
      <3>3. \A r \in requests : IsRunBelow(r, start', Free)
        <4> SUFFICES ASSUME NEW r \in requests PROVE IsRunBelow(r, start', Free)
          OBVIOUS
        <4>1. IsRunBelow(r, start, Free) /\ r.to \in 0 .. Count
          BY <1>1 DEF LoopInvariant, TrimTypeOK
        <4> QED
          BY <1>1, <1>3, <2>1, <3>1, <4>1, TrimAssumption DEF IsRunBelow
      <3>4. \A b \in Free : b < blk + 1 => \E r \in requests : b \in r.from .. r.to
        <4> SUFFICES ASSUME NEW b \in Free, b < blk + 1
                     PROVE  \E r \in requests : b \in r.from .. r.to
          OBVIOUS
        <4>1. b < start
          BY <1>1, <2>2, <3>1, TrimAssumption DEF Free, BlockNumbers
        <4> QED
          BY <1>1, <4>1 DEF LoopInvariant
      <3>5. LoopInvariant'
        BY <1>3, <2>1, <2>3, <3>1, <3>3, <3>4 DEF LoopInvariant
      <3> QED
        BY <1>1, <3>2, <3>5 DEF TrimInv
    <2> QED
      BY <2>4, <2>5
  <1> QED
    BY <1>4, <1>5

\* The other actions leave the loop's variables alone.
LEMMA RestKeeps ==
    ASSUME TrimInv, Allocate \/ DiscardFails \/ End \/ Return \/ UNCHANGED trimVars
    PROVE  TrimInv'
  <1>1. CASE Allocate
    BY <1>1 DEF Allocate, TrimInv, TrimTypeOK, BlockNumbers
  <1>2. CASE DiscardFails
    BY <1>2 DEF DiscardFails, TrimInv, TrimTypeOK, LoopInvariant, IsRunBelow, Free, BlockNumbers
  <1>3. CASE End
    <2>1. blk = Count + 1
      BY <1>3, TrimAssumption DEF End, TrimInv, LoopInvariant
    <2> QED
      BY <1>3, <2>1 DEF End, TrimInv, TrimTypeOK, LoopInvariant, IsRunBelow, Free, BlockNumbers
  <1>4. CASE Return
    BY <1>4 DEF Return, TrimInv, TrimTypeOK, BlockNumbers
  <1>5. CASE UNCHANGED trimVars
    BY <1>5 DEF trimVars, TrimInv, TrimTypeOK, LoopInvariant, IsRunBelow, Free, BlockNumbers
  <1> QED
    BY <1>1, <1>2, <1>3, <1>4, <1>5

\* Every reachable state satisfies the invariant.
LEMMA TrimInvHolds == TrimSpec => []TrimInv
  <1>1. TrimInv /\ [TrimNext]_trimVars => TrimInv'
    BY BeginKeeps, IterateKeeps, RestKeeps DEF TrimNext
  <1> QED
    BY <1>1, TrimInitInv, PTL DEF TrimSpec

-----------------------------------------------------------------------------
\* The variables keep their types: blk and start never pass count + 1.
THEOREM TrimTypeCorrect == TrimSpec => []TrimTypeOK
  <1>1. TrimInv => TrimTypeOK
    BY DEF TrimInv
  <1> QED
    BY <1>1, TrimInvHolds, PTL

\* No trim ever discards a block that the bitmap says is in use, whatever the
\* size of the filesystem and wherever a discard fails.
THEOREM NeverDiscardsUsed == TrimSpec => []OnlyFreeDiscarded
  <1>1. TrimInv => OnlyFreeDiscarded
    BY DEF TrimInv, LoopInvariant, IsRunBelow, OnlyFreeDiscarded, Discarded
  <1> QED
    BY <1>1, TrimInvHolds, PTL

\* Every request is a maximal run of free blocks.
THEOREM RequestsAreMaximal == TrimSpec => []MaximalRuns
  <1>1. TrimInv => MaximalRuns
    BY DEF TrimInv, LoopInvariant, IsRunBelow, MaximalRuns
  <1> QED
    BY <1>1, TrimInvHolds, PTL

\* A trim that returns 0 has discarded every free block, and one that returns
\* an error every free block below the run that failed.
THEOREM TrimIsComplete == TrimSpec => [](CompleteWhenDone /\ NoHoleWhenFailed)
  <1>1. ASSUME TrimInv, pc # "idle"
        PROVE  \A b \in Free : b < start => b \in Discarded
    BY <1>1 DEF TrimInv, LoopInvariant, Discarded
  <1>2. TrimInv => CompleteWhenDone /\ NoHoleWhenFailed
    <2>1. \A b \in Free : b \in Int /\ b < Count + 1
      BY TrimAssumption DEF Free, BlockNumbers
    <2> QED
      BY <1>1, <2>1 DEF TrimInv, CompleteWhenDone, NoHoleWhenFailed
  <1> QED
    BY <1>2, TrimInvHolds, PTL

=============================================================================
