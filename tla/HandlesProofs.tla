---------------------------- MODULE HandlesProofs ----------------------------
(***************************************************************************)
(* For any number of users and files, any block size and any bound on the  *)
(* length of a file and of a call: a program with no other habits (Habits  *)
(* = {}) sees the files of node through src/glue.c.                        *)
(*                                                                         *)
(* Seen(w, k) is the byte k that one sees through an ext2_file_t, in its   *)
(* buffer or on the disk.  First, what a call does to w: a flush, a seek   *)
(* and a load of the buffer move bytes and change none that is seen        *)
(* (Same), a read gets those seen (FileReadIs), a write sets them          *)
(* (FileWriteIs).  The invariant (HInv) says of each open file that its    *)
(* copy of the size is current, the whole copy if it may write (Good), and *)
(* that who writes to a file is alone.  A call on an open descriptor       *)
(* (Commits) and one that closes or changes names (Settles) keep it, and   *)
(* the files and descriptors that the program sees change as they do in    *)
(* PosixFiles.                                                             *)
(***************************************************************************)
EXTENDS Handles, SequenceTheorems, WellFoundedInduction, TLAPS

-----------------------------------------------------------------------------
(* An ext2_file_t by itself *)

AllFlags == {"RDWR", "WRONLY", "CREAT", "TRUNC", "APPEND", "NOATIME"}
Row      == [size : Nat, links : Nat, perm : Perm]
Data     == [0 .. MaxSize - 1 -> Byte]
Buf      == [0 .. BlockSize - 1 -> Byte]
Handle   == [ino : Nat, flags : SUBSET AllFlags, way : {"closed", "here", "at", "both"}, inode : Row,
             pos : Nat, blockno : Nat, buf : Buf \cup {NoBuf}, dirty : BOOLEAN]
Worlds   == [f : Handle, row : Row, data : Data, got : Seq(Byte)]

\* The byte that a program sees at k, and the two places where it may be.
Seen(w, k) == IF w.f.dirty /\ InBlock(k, w.f.blockno) THEN w.f.buf[k % BlockSize] ELSE w.data[k]
Agrees(w) ==
    /\ w.f.dirty => w.f.buf # NoBuf
    /\ ~w.f.dirty /\ w.f.buf # NoBuf =>
          \A k \in 0 .. MaxSize - 1 : InBlock(k, w.f.blockno) => w.f.buf[k % BlockSize] = w.data[k]
Sound(w) == w \in Worlds /\ Agrees(w)

\* From w to v a call has moved bytes between the buffer and the disk.
Same(w, v) ==
    /\ Sound(v) /\ v.row = w.row /\ v.f.inode = w.f.inode
    /\ v.f.ino = w.f.ino /\ v.f.flags = w.f.flags /\ v.f.way = w.f.way
    /\ v.f.dirty => w.f.dirty
    /\ \A k \in 0 .. MaxSize - 1 : Seen(v, k) = Seen(w, k) /\ v.data[k] \in {w.data[k], Seen(w, k)}

\* Block b holds the bytes from b * BlockSize on.
LEMMA InBlocks ==
    /\ \A k \in Nat : k \div BlockSize \in Nat /\ k % BlockSize \in 0 .. BlockSize - 1
    /\ \A k \in Nat, b \in Nat : InBlock(k, b) => b * BlockSize + (k % BlockSize) = k
    /\ \A k, j \in Nat, b \in Nat : InBlock(k, b) /\ InBlock(j, b) /\ k % BlockSize = j % BlockSize => k = j
  <1>1. BlockSize \in Nat \ {0}
    BY HandlesAssumption
  <1>2. \A k \in Nat : (k \div BlockSize) * BlockSize + (k % BlockSize) = k
    BY <1>1
  <1>3. \A k \in Nat : k \div BlockSize \in Nat /\ k % BlockSize \in 0 .. BlockSize - 1
    BY <1>1
  <1>4. ASSUME NEW k \in Nat, NEW b \in Nat, InBlock(k, b) PROVE b * BlockSize + (k % BlockSize) = k
    BY <1>2, <1>4, Zenon DEF InBlock
  <1> QED
    BY <1>1, <1>3, <1>4

\* No buffer is not a buffer.
LEMMA NoBufIs == NoBuf \notin Buf
  <1>1. BlockSize \in Nat \ {0}
    BY HandlesAssumption
  <1>2. 0 \in 0 .. BlockSize - 1 /\ 0 \notin DOMAIN <<>>
    BY <1>1
  <1> QED
    BY <1>2 DEF Buf, NoBuf

\* A flush moves the buffer to the disk; nobody sees another byte.
LEMMA FlushSame ==
    ASSUME NEW w, Sound(w)
    PROVE  /\ Same(w, Flush(w)) /\ ~Flush(w).f.dirty
           /\ Flush(w).f.pos = w.f.pos /\ Flush(w).got = w.got
           /\ Flush(w).f.blockno = w.f.blockno /\ Flush(w).f.buf = w.f.buf
  <1>1. w \in Worlds /\ w.f \in Handle /\ w.data \in Data /\ Agrees(w)
    BY DEF Sound, Worlds
  <1>2. CASE ~w.f.dirty
    BY <1>1, <1>2 DEF Flush, Same, Sound, Seen
  <1>3. CASE w.f.dirty
    <2> DEFINE d == [k \in DOMAIN w.data |-> IF InBlock(k, w.f.blockno)
                                              THEN w.f.buf[k % BlockSize] ELSE w.data[k]]
               v == [w EXCEPT !.f.dirty = FALSE, !.data = d]
    <2>1. Flush(w) = v
      BY <1>3 DEF Flush
    <2>2. w.f.buf \in Buf /\ w.f.blockno \in Nat
      BY <1>1, <1>3 DEF Agrees, Handle
    <2>3. \A k \in 0 .. MaxSize - 1 : d[k] = Seen(w, k)
      BY <1>1, <1>3 DEF Seen, Data
    <2>4. d \in Data
      <3>1. \A k \in 0 .. MaxSize - 1 : k % BlockSize \in 0 .. BlockSize - 1
        BY InBlocks
      <3> QED
        BY <1>1, <2>2, <3>1 DEF Data, Buf
    <2> HIDE DEF d
    <2>5. /\ v \in Worlds /\ ~v.f.dirty /\ v.data = d
          /\ v.f.pos = w.f.pos /\ v.got = w.got /\ v.f.blockno = w.f.blockno /\ v.f.buf = w.f.buf
          /\ v.row = w.row /\ v.f.inode = w.f.inode
          /\ v.f.ino = w.f.ino /\ v.f.flags = w.f.flags /\ v.f.way = w.f.way
      BY <1>1, <2>4 DEF Worlds, Handle
    <2> HIDE DEF v
    <2>6. \A k \in 0 .. MaxSize - 1 : Seen(v, k) = d[k]
      BY <2>5 DEF Seen
    <2>7. Agrees(v)
      BY <1>3, <2>3, <2>5 DEF Agrees, Seen
    <2> QED
      BY <2>1, <2>3, <2>5, <2>6, <2>7 DEF Same, Sound
  <1> QED
    BY <1>2, <1>3

\* Two moves are a move.
LEMMA SameTrans ==
    ASSUME NEW u, NEW v, NEW w, Same(u, v), Same(v, w)
    PROVE  Same(u, w)
  BY DEF Same

\* So does a buffer that follows the position,
LEMMA SyncSame ==
    ASSUME NEW w, Sound(w)
    PROVE  LET v == SyncPosition(w)
           IN /\ Same(w, v) /\ v.f.pos = w.f.pos /\ v.got = w.got /\ InBlock(v.f.pos, v.f.blockno)
  <1>1. w \in Worlds /\ w.f \in Handle /\ Agrees(w)
    BY DEF Sound, Worlds
  <1>2. CASE InBlock(w.f.pos, w.f.blockno)
    BY <1>1, <1>2 DEF SyncPosition, Same, Sound
  <1>3. CASE ~InBlock(w.f.pos, w.f.blockno)
    <2> DEFINE u == Flush(w)
               b == w.f.pos \div BlockSize
               v == [u EXCEPT !.f.blockno = b, !.f.buf = NoBuf]
    <2>1. SyncPosition(w) = v
      BY <1>3 DEF SyncPosition
    <2>2. Same(w, u) /\ ~u.f.dirty /\ u.f.pos = w.f.pos /\ u.got = w.got
      BY FlushSame
    <2>3. b \in Nat
      BY <1>1, InBlocks DEF Handle
    <2> HIDE DEF u, b
    <2>4. u \in Worlds /\ u.f \in Handle
      BY <2>2 DEF Same, Sound, Worlds
    <2>5. /\ v \in Worlds /\ ~v.f.dirty /\ v.data = u.data /\ v.f.buf = NoBuf /\ v.f.blockno = b
          /\ v.f.pos = u.f.pos /\ v.got = u.got /\ v.row = u.row /\ v.f.inode = u.f.inode
          /\ v.f.ino = u.f.ino /\ v.f.flags = u.f.flags /\ v.f.way = u.f.way
      BY <2>2, <2>3, <2>4 DEF Worlds, Handle
    <2> HIDE DEF v
    <2>6. Same(u, v)
      BY <2>2, <2>5 DEF Same, Sound, Agrees, Seen
    <2>7. Same(w, v)
      BY <2>2, <2>6, SameTrans
    <2>8. InBlock(v.f.pos, v.f.blockno)
      BY <2>2, <2>5 DEF InBlock, b
    <2> QED
      BY <2>1, <2>2, <2>5, <2>7, <2>8
  <1> QED
    BY <1>2, <1>3

\* and one that is read from the disk.
LEMMA LoadSame ==
    ASSUME NEW w, Sound(w)
    PROVE  LET v == LoadBuffer(w)
           IN /\ Same(w, v) /\ v.f.pos = w.f.pos /\ v.got = w.got
              /\ v.f.blockno = w.f.blockno /\ v.f.buf \in Buf
  <1>1. w \in Worlds /\ w.f \in Handle /\ w.data \in Data /\ Agrees(w)
    BY DEF Sound, Worlds
  <1>2. CASE w.f.buf # NoBuf
    BY <1>1, <1>2 DEF LoadBuffer, Same, Sound, Handle
  <1>3. CASE w.f.buf = NoBuf
    <2> DEFINE at(k) == w.f.blockno * BlockSize + k
               b == [k \in 0 .. BlockSize - 1 |-> IF at(k) < MaxSize THEN w.data[at(k)] ELSE 0]
               v == [w EXCEPT !.f.buf = b]
    <2>1. LoadBuffer(w) = v
      BY <1>3 DEF LoadBuffer
    <2>2. w.f.blockno \in Nat /\ BlockSize \in Nat \ {0} /\ MaxSize \in Nat
      BY <1>1, HandlesAssumption DEF Handle
    <2>3. \A k \in 0 .. BlockSize - 1 : at(k) \in Nat
      BY <2>2
    <2>4. b \in Buf
      <3>1. \A k \in 0 .. BlockSize - 1 : at(k) < MaxSize => w.data[at(k)] \in Byte
        BY <1>1, <2>2, <2>3 DEF Data
      <3> HIDE DEF at
      <3> QED
        BY <3>1 DEF Buf, Byte
    <2>5. ~w.f.dirty
      BY <1>1, <1>3 DEF Agrees
    <2>6. \A k \in 0 .. MaxSize - 1 : InBlock(k, w.f.blockno) => b[k % BlockSize] = w.data[k]
      <3> TAKE k \in 0 .. MaxSize - 1
      <3> HAVE InBlock(k, w.f.blockno)
      <3>1. at(k % BlockSize) = k /\ k % BlockSize \in 0 .. BlockSize - 1 /\ k < MaxSize
        <4>1. k \in Nat /\ k < MaxSize
          BY <2>2
        <4> QED
          BY <2>2, <4>1, InBlocks
      <3> HIDE DEF at
      <3> QED
        BY <3>1
    <2> HIDE DEF b
    <2>7. /\ v \in Worlds /\ ~v.f.dirty /\ v.data = w.data /\ v.f.buf = b /\ v.f.blockno = w.f.blockno
          /\ v.f.pos = w.f.pos /\ v.got = w.got /\ v.row = w.row /\ v.f.inode = w.f.inode
          /\ v.f.ino = w.f.ino /\ v.f.flags = w.f.flags /\ v.f.way = w.f.way
      BY <1>1, <2>4, <2>5 DEF Worlds, Handle
    <2> HIDE DEF v
    <2>8. Same(w, v)
      BY <2>5, <2>6, <2>7 DEF Same, Sound, Agrees, Seen
    <2> QED
      BY <2>1, <2>4, <2>7, <2>8
  <1> QED
    BY <1>2, <1>3

-----------------------------------------------------------------------------
(* One byte of a call *)

\* What the buffer and the disk hold is what the program sees.
LEMMA BufSeen ==
    ASSUME NEW v, Sound(v), v.f.buf \in Buf, NEW k \in 0 .. MaxSize - 1, InBlock(k, v.f.blockno)
    PROVE  v.f.buf[k % BlockSize] = Seen(v, k)
  BY NoBufIs DEF Sound, Agrees, Seen

\* One byte of a read.
LEMMA ReadStep ==
    ASSUME NEW w, Sound(w), w.f.pos < w.f.inode.size, w.f.inode.size <= MaxSize
    PROVE  LET v == ReadByte(w)
           IN /\ Same(w, v) /\ v.f.pos = w.f.pos + 1
              /\ v.got = Append(w.got, Seen(w, w.f.pos))
  <1> DEFINE s == SyncPosition(w)
             v == LoadBuffer(s)
             r == [v EXCEPT !.got = Append(@, v.f.buf[v.f.pos % BlockSize]), !.f.pos = @ + 1]
  <1>0. ~(w.f.pos >= w.f.inode.size) /\ w.f.pos < MaxSize
    BY HandlesAssumption DEF Sound, Worlds, Handle, Row
  <1>1. ReadByte(w) = r
    BY <1>0 DEF ReadByte
  <1>2. Same(w, s) /\ s.f.pos = w.f.pos /\ s.got = w.got /\ InBlock(s.f.pos, s.f.blockno)
    BY SyncSame
  <1>3. Sound(s)
    BY <1>2 DEF Same
  <1>4. /\ Same(s, v) /\ v.f.pos = s.f.pos /\ v.got = s.got
        /\ v.f.blockno = s.f.blockno /\ v.f.buf \in Buf
    BY <1>3, LoadSame
  <1> HIDE DEF s, v
  <1>5. Same(w, v)
    BY <1>2, <1>4, SameTrans
  <1>6. v \in Worlds /\ v.f \in Handle /\ Sound(v) /\ v.got \in Seq(Byte)
    BY <1>5 DEF Same, Sound, Worlds
  <1>7. w.f.pos \in 0 .. MaxSize - 1 /\ v.f.pos = w.f.pos
    BY <1>0, <1>2, <1>4, HandlesAssumption DEF Sound, Worlds, Handle
  <1>8. v.f.buf[v.f.pos % BlockSize] = Seen(w, w.f.pos)
    <2>1. v.f.buf[w.f.pos % BlockSize] = Seen(v, w.f.pos)
      BY <1>2, <1>4, <1>6, <1>7, BufSeen
    <2> QED
      BY <1>5, <1>7, <2>1 DEF Same
  <1>9. Seen(w, w.f.pos) \in Byte
    <2>1. v.f.pos \in Nat
      BY <1>7
    <2>2. v.f.pos % BlockSize \in 0 .. BlockSize - 1
      BY <2>1, InBlocks
    <2> QED
      BY <1>4, <1>8, <2>2 DEF Buf
  <1>10. /\ r.got = Append(w.got, Seen(w, w.f.pos)) /\ r.f.pos = w.f.pos + 1
         /\ r \in Worlds /\ r.f.dirty = v.f.dirty /\ r.f.buf = v.f.buf /\ r.data = v.data
         /\ r.f.blockno = v.f.blockno /\ r.row = v.row /\ r.f.inode = v.f.inode
         /\ r.f.ino = v.f.ino /\ r.f.flags = v.f.flags /\ r.f.way = v.f.way
    <2>1. v.f.pos + 1 \in Nat /\ v.got = w.got
      BY <1>2, <1>4, <1>7
    <2>2. Append(v.got, Seen(w, w.f.pos)) \in Seq(Byte)
      BY <1>6, <1>9
    <2> QED
      BY <1>6, <1>7, <1>8, <2>1, <2>2 DEF Worlds, Handle
  <1> HIDE DEF r
  <1>11. Same(v, r)
    BY <1>6, <1>10 DEF Same, Sound, Agrees, Seen
  <1>12. Same(w, r)
    BY <1>5, <1>11, SameTrans
  <1> QED
    BY <1>1, <1>10, <1>12

\* From w to v the first k bytes of s were written.
Wrote(w, s, k, v) ==
    /\ Sound(v) /\ v.row = w.row /\ v.f.inode = w.f.inode
    /\ v.f.ino = w.f.ino /\ v.f.flags = w.f.flags /\ v.f.way = w.f.way
    /\ v.f.pos = w.f.pos + k /\ v.got = w.got
    /\ \A j \in 0 .. MaxSize - 1 :
          IF w.f.pos <= j /\ j < w.f.pos + k THEN Seen(v, j) = s[j - w.f.pos + 1]
          ELSE Seen(v, j) = Seen(w, j) /\ v.data[j] \in {w.data[j], Seen(w, j)}

\* One byte of a write.
LEMMA WriteStep ==
    ASSUME NEW w, Sound(w), NEW b \in Byte
    PROVE  Wrote(w, <<b>>, 1, WriteByte(w, b)) /\ WriteByte(w, b).f.dirty
  <1> DEFINE s == SyncPosition(w)
             v == LoadBuffer(s)
             r == [v EXCEPT !.f.buf[v.f.pos % BlockSize] = b, !.f.dirty = TRUE, !.f.pos = @ + 1]
  <1>1. WriteByte(w, b) = r
    BY DEF WriteByte
  <1>2. Same(w, s) /\ s.f.pos = w.f.pos /\ s.got = w.got /\ InBlock(s.f.pos, s.f.blockno)
    BY SyncSame
  <1>3. Sound(s)
    BY <1>2 DEF Same
  <1>4. /\ Same(s, v) /\ v.f.pos = s.f.pos /\ v.got = s.got
        /\ v.f.blockno = s.f.blockno /\ v.f.buf \in Buf
    BY <1>3, LoadSame
  <1> HIDE DEF s, v
  <1>5. Same(w, v) /\ v.got = w.got /\ InBlock(v.f.pos, v.f.blockno)
    BY <1>2, <1>4, SameTrans
  <1>6. v \in Worlds /\ v.f \in Handle /\ Sound(v) /\ v.f.pos \in Nat /\ v.f.blockno \in Nat
    BY <1>5 DEF Same, Sound, Worlds, Handle
  <1>7. w.f.pos = v.f.pos
    BY <1>2, <1>4
  <1> DEFINE at == v.f.pos % BlockSize
             buf == [v.f.buf EXCEPT ![at] = b]
  <1>8. at \in 0 .. BlockSize - 1
    BY <1>6, InBlocks
  <1>9. buf \in Buf
    BY <1>4, <1>8 DEF Buf
  <1>10. /\ r.got = v.got /\ r.f.pos = v.f.pos + 1
         /\ r \in Worlds /\ r.f.dirty /\ r.f.buf = buf /\ r.data = v.data
         /\ r.f.blockno = v.f.blockno /\ r.row = v.row /\ r.f.inode = v.f.inode
         /\ r.f.ino = v.f.ino /\ r.f.flags = v.f.flags /\ r.f.way = v.f.way
    <2> HIDE DEF buf
    <2> DEFINE f == [v.f EXCEPT !.buf = buf, !.dirty = TRUE, !.pos = @ + 1]
    <2>1. r = [v EXCEPT !.f = f]
      BY <1>6 DEF buf, Worlds, Handle
    <2> DEFINE f1 == [v.f EXCEPT !.buf = buf]
               f2 == [f1 EXCEPT !.dirty = TRUE]
    <2>2. /\ f1 \in Handle /\ f1.pos = v.f.pos /\ f1.dirty = v.f.dirty /\ f1.buf = buf
            /\ f1.blockno = v.f.blockno /\ f1.inode = v.f.inode
            /\ f1.ino = v.f.ino /\ f1.flags = v.f.flags /\ f1.way = v.f.way
      BY <1>6, <1>9 DEF Handle
    <2> HIDE DEF f1
    <2>3. /\ f2 \in Handle /\ f2.pos = f1.pos /\ f2.dirty = TRUE /\ f2.buf = f1.buf
            /\ f2.blockno = f1.blockno /\ f2.inode = f1.inode
            /\ f2.ino = f1.ino /\ f2.flags = f1.flags /\ f2.way = f1.way
      BY <2>2 DEF Handle
    <2> HIDE DEF f2
    <2>4. /\ f \in Handle /\ f.pos = v.f.pos + 1 /\ f.dirty = f2.dirty /\ f.buf = f2.buf
            /\ f.blockno = f2.blockno /\ f.inode = f2.inode
            /\ f.ino = f2.ino /\ f.flags = f2.flags /\ f.way = f2.way
      <3>1. f = [f2 EXCEPT !.pos = v.f.pos + 1] /\ v.f.pos + 1 \in Nat
        BY <1>6 DEF f1, f2
      <3> QED
        BY <2>3, <3>1 DEF Handle
    <2> HIDE DEF f, r
    <2> QED
      BY <1>6, <2>1, <2>2, <2>3, <2>4 DEF Worlds
  <1> HIDE DEF r
  <1>11. Sound(r)
    BY <1>9, <1>10, NoBufIs DEF Sound, Agrees
  <1>12. ASSUME NEW j \in 0 .. MaxSize - 1
         PROVE IF j = v.f.pos THEN Seen(r, j) = b ELSE Seen(r, j) = Seen(v, j)
    <2>1. CASE ~InBlock(j, v.f.blockno)
      <3>1. j # v.f.pos
        BY <1>5, <2>1
      <3> QED
        BY <1>10, <2>1, <3>1 DEF Seen
    <2>2. CASE InBlock(j, v.f.blockno)
      <3>1. Seen(r, j) = buf[j % BlockSize] /\ Seen(v, j) = v.f.buf[j % BlockSize]
        BY <1>4, <1>6, <1>10, <2>2, BufSeen DEF Seen
      <3>2. j % BlockSize \in 0 .. BlockSize - 1 /\ (j # v.f.pos => j % BlockSize # at)
        <4>1. j \in Nat
          OBVIOUS
        <4> QED
          BY <1>5, <1>6, <2>2, <4>1, InBlocks
      <3> HIDE DEF at
      <3>3. CASE j = v.f.pos
        <4>1. j % BlockSize = at
          BY <3>3 DEF at
        <4> QED
          BY <1>4, <1>8, <3>1, <3>3, <4>1 DEF Buf
      <3>4. CASE j # v.f.pos
        BY <1>4, <1>8, <3>1, <3>2, <3>4 DEF Buf
      <3> QED
        BY <3>3, <3>4
    <2> QED
      BY <2>1, <2>2
  <1>13. Wrote(w, <<b>>, 1, r)
    <2>1. \A j \in 0 .. MaxSize - 1 :
             IF w.f.pos <= j /\ j < w.f.pos + 1 THEN Seen(r, j) = <<b>>[j - w.f.pos + 1]
             ELSE Seen(r, j) = Seen(w, j) /\ r.data[j] \in {w.data[j], Seen(w, j)}
      <3> TAKE j \in 0 .. MaxSize - 1
      <3>1. CASE j = w.f.pos
        <4>1. Seen(r, j) = b /\ j - w.f.pos + 1 = 1 /\ w.f.pos <= j /\ j < w.f.pos + 1
          BY <1>6, <1>7, <1>12, <3>1
        <4> QED
          BY <4>1
      <3>2. CASE j # w.f.pos
        <4>1. ~(w.f.pos <= j /\ j < w.f.pos + 1)
          BY <1>6, <1>7, <3>2
        <4>2. Seen(r, j) = Seen(w, j) /\ r.data[j] \in {w.data[j], Seen(w, j)}
          BY <1>5, <1>7, <1>10, <1>12, <3>2 DEF Same
        <4> QED
          BY <4>1, <4>2
      <3> QED
        BY <3>1, <3>2
    <2> QED
      BY <1>5, <1>7, <1>10, <1>11, <2>1 DEF Wrote, Same
  <1> QED
    BY <1>1, <1>10, <1>13

-----------------------------------------------------------------------------
(* The loops of a read and of a write *)

\* Induction up to n over a set.
LEMMA UpTo ==
    ASSUME NEW n \in Nat, NEW S, 0 \in S, \A k \in Nat : k \in S /\ k < n => k + 1 \in S
    PROVE  \A k \in 0 .. n : k \in S
  <1> DEFINE T == (0 .. n) \ S
  <1> SUFFICES ASSUME T # {} PROVE FALSE
    OBVIOUS
  <1>1. PICK x \in T : \A y \in T : ~(<<y, x>> \in OpToRel(<, Nat))
    <2>1. T \subseteq Nat
      OBVIOUS
    <2> HIDE DEF T
    <2> QED
      BY <2>1, NatLessThanWellFounded, WFMin
  <1>2. \A y \in T : ~(y < x)
    <2> SUFFICES ASSUME NEW y \in T, y < x PROVE FALSE
      OBVIOUS
    <2>1. <<y, x>> \in OpToRel(<, Nat)
      BY DEF OpToRel
    <2> QED
      BY <1>1, <2>1
  <1>3. x # 0 /\ x - 1 \in Nat /\ x - 1 < n /\ x - 1 \in 0 .. n
    OBVIOUS
  <1>4. x - 1 \in S
    BY <1>2, <1>3
  <1> QED
    BY <1>3, <1>4

\* The worlds that the loops of FileRead and FileWrite go through.
Reading(w, n, g) == g = [k \in 0 .. n |-> IF k = 0 THEN w ELSE ReadByte(g[k - 1])]
Writing(w, s, n, g) == g = [k \in 0 .. n |-> IF k = 0 THEN w ELSE WriteByte(g[k - 1], s[k])]

\* The loop of a read, as a function: FileRead is its last value.
LEMMA ReadingExists ==
    ASSUME NEW w, NEW n \in Nat
    PROVE  \E g : Reading(w, n, g)
  <1> DEFINE T == {k \in Nat : \E g : Reading(w, k, g)}
  <1>0. \A k \in Nat : k \in T <=> \E g : Reading(w, k, g)
    OBVIOUS
  <1> HIDE DEF T
  <1>1. 0 \in T
    <2>1. Reading(w, 0, [k \in 0 .. 0 |-> w])
      BY DEF Reading
    <2> QED
      BY <1>0, <2>1
  <1>2. ASSUME NEW k \in Nat, k \in T PROVE k + 1 \in T
    <2>1. PICK g : Reading(w, k, g)
      BY <1>0, <1>2
    <2> DEFINE h == [i \in 0 .. k + 1 |-> IF i = k + 1 THEN ReadByte(g[k]) ELSE g[i]]
    <2>2. ASSUME NEW i \in 0 .. k + 1 PROVE h[i] = IF i = 0 THEN w ELSE ReadByte(h[i - 1])
      <3>1. CASE i = k + 1
        <4>1. i # 0 /\ i - 1 = k /\ k # k + 1 /\ k \in 0 .. k + 1
          BY <3>1
        <4> QED
          BY <3>1, <4>1
      <3>2. CASE i # k + 1
        <4>1. i \in 0 .. k /\ (i # 0 => i - 1 \in 0 .. k /\ i - 1 # k + 1 /\ i - 1 \in 0 .. k + 1)
          BY <3>2
        <4>2. h[i] = g[i] /\ (i # 0 => h[i - 1] = g[i - 1])
          BY <3>2, <4>1
        <4>3. g[i] = IF i = 0 THEN w ELSE ReadByte(g[i - 1])
          BY <2>1, <4>1 DEF Reading
        <4> QED
          BY <4>2, <4>3
      <3> QED
        BY <3>1, <3>2
    <2>3. h = [i \in 0 .. k + 1 |-> h[i]]
      OBVIOUS
    <2> HIDE DEF h
    <2>4. Reading(w, k + 1, h)
      BY <2>2, <2>3 DEF Reading
    <2> QED
      BY <1>0, <2>4
  <1>3. \A k \in 0 .. n : k \in T
    BY <1>1, <1>2, UpTo
  <1> QED
    BY <1>0, <1>3

\* The same for a write.
LEMMA WritingExists ==
    ASSUME NEW w, NEW s, NEW n \in Nat
    PROVE  \E g : Writing(w, s, n, g)
  <1> DEFINE T == {k \in Nat : \E g : Writing(w, s, k, g)}
  <1>0. \A k \in Nat : k \in T <=> \E g : Writing(w, s, k, g)
    OBVIOUS
  <1> HIDE DEF T
  <1>1. 0 \in T
    <2>1. Writing(w, s, 0, [k \in 0 .. 0 |-> w])
      BY DEF Writing
    <2> QED
      BY <1>0, <2>1
  <1>2. ASSUME NEW k \in Nat, k \in T PROVE k + 1 \in T
    <2>1. PICK g : Writing(w, s, k, g)
      BY <1>0, <1>2
    <2> DEFINE h == [i \in 0 .. k + 1 |-> IF i = k + 1 THEN WriteByte(g[k], s[k + 1]) ELSE g[i]]
    <2>2. ASSUME NEW i \in 0 .. k + 1 PROVE h[i] = IF i = 0 THEN w ELSE WriteByte(h[i - 1], s[i])
      <3>1. CASE i = k + 1
        <4>1. i # 0 /\ i - 1 = k /\ k # k + 1 /\ k \in 0 .. k + 1
          BY <3>1
        <4> QED
          BY <3>1, <4>1
      <3>2. CASE i # k + 1
        <4>1. i \in 0 .. k /\ (i # 0 => i - 1 \in 0 .. k /\ i - 1 # k + 1 /\ i - 1 \in 0 .. k + 1)
          BY <3>2
        <4>2. h[i] = g[i] /\ (i # 0 => h[i - 1] = g[i - 1])
          BY <3>2, <4>1
        <4>3. g[i] = IF i = 0 THEN w ELSE WriteByte(g[i - 1], s[i])
          BY <2>1, <4>1 DEF Writing
        <4> QED
          BY <4>2, <4>3
      <3> QED
        BY <3>1, <3>2
    <2>3. h = [i \in 0 .. k + 1 |-> h[i]]
      OBVIOUS
    <2> HIDE DEF h
    <2>4. Writing(w, s, k + 1, h)
      BY <2>2, <2>3 DEF Writing
    <2> QED
      BY <1>0, <2>4
  <1>3. \A k \in 0 .. n : k \in T
    BY <1>1, <1>2, UpTo
  <1> QED
    BY <1>0, <1>3

\* How many of n bytes there are at position p of a file of that size.
There(p, n, size) == IF p + n <= size THEN n ELSE IF p <= size THEN size - p ELSE 0

\* One byte more is there until the end of the file.
LEMMA ThereSteps ==
    ASSUME NEW p \in Nat, NEW k \in Nat, NEW size \in Nat
    PROVE  LET m == There(p, k, size)
           IN /\ m \in Nat
              /\ p + m < size => m = k /\ There(p, k + 1, size) = k + 1
              /\ ~(p + m < size) => There(p, k + 1, size) = m
  BY DEF There

\* A read of n bytes gets what the program sees at its position.
ReadOf(w, n, v) ==
    LET m == There(w.f.pos, n, w.f.inode.size)
    IN /\ Same(w, v) /\ v.f.pos = w.f.pos + m
       /\ Len(v.got) = m
       /\ \A j \in 1 .. m : v.got[j] = Seen(w, w.f.pos + j - 1)

\* ext2fs_file_read gets the bytes that the program sees.
LEMMA FileReadIs ==
    ASSUME NEW w, Sound(w), w.got = <<>>, w.f.inode.size <= MaxSize, NEW n \in Nat
    PROVE  ReadOf(w, n, FileRead(w, n))
  <1> DEFINE f == CHOOSE g : Reading(w, n, g)
  <1>1. FileRead(w, n) = f[n]
    BY DEF FileRead, Reading
  <1>2. Reading(w, n, f)
    BY ReadingExists
  <1> HIDE DEF f
  <1>3. f[0] = w /\ \A k \in 1 .. n : f[k] = ReadByte(f[k - 1])
    BY <1>2 DEF Reading
  <1> DEFINE T == {k \in Nat : k <= n => ReadOf(w, k, f[k])}
  <1>4. \A k \in Nat : k \in T <=> (k <= n => ReadOf(w, k, f[k]))
    OBVIOUS
  <1> HIDE DEF T
  <1>5. w.f.pos \in Nat /\ w.f.inode.size \in Nat /\ MaxSize \in Nat
    BY HandlesAssumption DEF Sound, Worlds, Handle, Row
  <1>6. 0 \in T
    <2>1. There(w.f.pos, 0, w.f.inode.size) = 0
      BY <1>5 DEF There
    <2>2. Same(w, w)
      BY DEF Same
    <2>3. ReadOf(w, 0, w)
      BY <1>5, <2>1, <2>2 DEF ReadOf
    <2> QED
      BY <1>3, <1>4, <2>3
  <1>7. ASSUME NEW k \in Nat, k \in T, k < n PROVE k + 1 \in T
    <2> DEFINE v == f[k]
               m == There(w.f.pos, k, w.f.inode.size)
    <2>1. ReadOf(w, k, v)
      BY <1>4, <1>7
    <2>2. f[k + 1] = ReadByte(v)
      <3>1. k + 1 \in 1 .. n /\ (k + 1) - 1 = k
        BY <1>7
      <3> QED
        BY <1>3, <3>1
    <2> HIDE DEF v
    <2>3. m \in Nat
      BY <1>5, ThereSteps
    <2>4. /\ Same(w, v) /\ Sound(v) /\ v.f.pos = w.f.pos + m /\ Len(v.got) = m
          /\ v.f.inode = w.f.inode /\ v.got \in Seq(Byte)
          /\ \A j \in 1 .. m : v.got[j] = Seen(w, w.f.pos + j - 1)
      BY <2>1 DEF ReadOf, Same, Sound, Worlds
    <2>5. CASE v.f.pos < v.f.inode.size
      <3>1. /\ Same(v, ReadByte(v)) /\ ReadByte(v).f.pos = v.f.pos + 1
            /\ ReadByte(v).got = Append(v.got, Seen(v, v.f.pos))
        BY <2>4, <2>5, ReadStep
      <3>2. m = k /\ There(w.f.pos, k + 1, w.f.inode.size) = k + 1
        <4> DEFINE p == w.f.pos
                   size == w.f.inode.size
        <4>1. p + There(p, k, size) < size
          BY <2>4, <2>5
        <4>2. p \in Nat /\ size \in Nat
          BY <1>5
        <4> HIDE DEF p, size
        <4>3. There(p, k, size) = k /\ There(p, k + 1, size) = k + 1
          BY <4>1, <4>2, ThereSteps
        <4> QED
          BY <4>3 DEF p, size
      <3>3. Same(w, ReadByte(v))
        BY <2>4, <3>1, SameTrans
      <3>4. Seen(v, v.f.pos) = Seen(w, w.f.pos + k)
        BY <1>5, <2>4, <2>5, <3>2 DEF Same
      <3> DEFINE r == ReadByte(v)
      <3>5. Len(r.got) = k + 1 /\ \A j \in 1 .. k + 1 : r.got[j] = Seen(w, w.f.pos + j - 1)
        <4>1. r.got = Append(v.got, Seen(w, w.f.pos + k)) /\ Len(v.got) = k
          BY <2>4, <3>1, <3>2, <3>4
        <4> HIDE DEF r
        <4>2. Len(r.got) = k + 1 /\ r.got[k + 1] = Seen(w, w.f.pos + k) /\ \A j \in 1 .. k : r.got[j] = v.got[j]
          BY <2>4, <4>1
        <4>3. ASSUME NEW j \in 1 .. k + 1 PROVE r.got[j] = Seen(w, w.f.pos + j - 1)
          <5>1. CASE j = k + 1
            <6>1. w.f.pos + j - 1 = w.f.pos + k
              BY <1>5, <5>1
            <6> QED
              BY <4>2, <5>1, <6>1
          <5>2. CASE j # k + 1
            <6>1. j \in 1 .. k
              BY <5>2
            <6> QED
              BY <2>4, <3>2, <4>2, <6>1
          <5> QED
            BY <5>1, <5>2
        <4> QED
          BY <4>2, <4>3
      <3> HIDE DEF r
      <3>6. r.f.pos = w.f.pos + (k + 1) /\ Same(w, r)
        <4>1. v.f.pos = w.f.pos + k
          BY <2>4, <3>2
        <4>2. r.f.pos = v.f.pos + 1
          BY <3>1 DEF r
        <4>3. (w.f.pos + k) + 1 = w.f.pos + (k + 1)
          BY <1>5
        <4> QED
          BY <3>3, <4>1, <4>2, <4>3 DEF r
      <3>7. ReadOf(w, k + 1, r)
        BY <3>2, <3>5, <3>6 DEF ReadOf
      <3> QED
        BY <1>4, <2>2, <3>7 DEF r
    <2>6. CASE ~(v.f.pos < v.f.inode.size)
      <3>1. ReadByte(v) = v
        BY <1>5, <2>3, <2>4, <2>6 DEF ReadByte
      <3>2. There(w.f.pos, k + 1, w.f.inode.size) = m
        <4> DEFINE p == w.f.pos
                   size == w.f.inode.size
        <4>1. ~(p + There(p, k, size) < size)
          BY <2>4, <2>6
        <4>2. p \in Nat /\ size \in Nat
          BY <1>5
        <4> HIDE DEF p, size
        <4>3. There(p, k + 1, size) = There(p, k, size)
          BY <4>1, <4>2, ThereSteps
        <4> QED
          BY <4>3 DEF p, size
      <3>3. ReadOf(w, k + 1, v)
        BY <2>1, <3>2 DEF ReadOf
      <3> QED
        BY <1>4, <2>2, <3>1, <3>3
    <2> QED
      BY <2>5, <2>6
  <1>8. \A k \in 0 .. n : k \in T
    BY <1>6, <1>7, UpTo
  <1> QED
    BY <1>1, <1>4, <1>8

\* After the loop of ext2fs_file_write all of s is in the buffer or on the disk.
LEMMA WroteAll ==
    ASSUME NEW w, Sound(w), NEW s \in Seq(Byte)
    PROVE  LET after[k \in 0 .. Len(s)] == IF k = 0 THEN w ELSE WriteByte(after[k - 1], s[k])
               v == after[Len(s)]
           IN Wrote(w, s, Len(s), v) /\ (Len(s) # 0 => v.f.dirty)
  <1> DEFINE n == Len(s)
             f == CHOOSE g : Writing(w, s, n, g)
  <1> SUFFICES Wrote(w, s, n, f[n]) /\ (n # 0 => f[n].f.dirty)
    BY DEF Writing
  <1>1. n \in Nat
    OBVIOUS
  <1>2. Writing(w, s, n, f)
    BY <1>1, WritingExists
  <1> HIDE DEF f
  <1>3. f[0] = w /\ \A k \in 1 .. n : f[k] = WriteByte(f[k - 1], s[k])
    BY <1>1, <1>2 DEF Writing
  <1> DEFINE T == {k \in Nat : k <= n => Wrote(w, s, k, f[k]) /\ (k # 0 => f[k].f.dirty)}
  <1>4. \A k \in Nat : k \in T <=> (k <= n => Wrote(w, s, k, f[k]) /\ (k # 0 => f[k].f.dirty))
    OBVIOUS
  <1> HIDE DEF T
  <1>5. w.f.pos \in Nat /\ MaxSize \in Nat
    BY HandlesAssumption DEF Sound, Worlds, Handle
  <1>6. 0 \in T
    <2>1. Wrote(w, s, 0, w)
      BY <1>5 DEF Wrote
    <2> QED
      BY <1>3, <1>4, <2>1
  <1>7. ASSUME NEW k \in Nat, k \in T, k < n PROVE k + 1 \in T
    <2> DEFINE v == f[k]
               b == s[k + 1]
               r == WriteByte(v, b)
    <2>1. Wrote(w, s, k, v)
      BY <1>4, <1>7
    <2>2. f[k + 1] = r /\ b \in Byte
      <3>1. k + 1 \in 1 .. n /\ (k + 1) - 1 = k
        BY <1>1, <1>7
      <3> QED
        BY <1>3, <3>1
    <2> HIDE DEF v, b
    <2>3. Sound(v) /\ v.f.pos = w.f.pos + k /\ v.f.pos \in Nat
      BY <2>1 DEF Wrote, Sound, Worlds, Handle
    <2>4. Wrote(v, <<b>>, 1, r) /\ r.f.dirty
      BY <2>2, <2>3, WriteStep
    <2> HIDE DEF r
    <2>5. ASSUME NEW j \in 0 .. MaxSize - 1
          PROVE  IF w.f.pos <= j /\ j < w.f.pos + (k + 1) THEN Seen(r, j) = s[j - w.f.pos + 1]
                 ELSE Seen(r, j) = Seen(w, j) /\ r.data[j] \in {w.data[j], Seen(w, j)}
      <3>1. CASE j = w.f.pos + k
        <4>1. /\ v.f.pos <= j /\ j < v.f.pos + 1 /\ j - v.f.pos + 1 = 1
              /\ j - w.f.pos + 1 = k + 1 /\ w.f.pos <= j /\ j < w.f.pos + (k + 1)
          <5>1. v.f.pos <= j
            BY <1>5, <2>3, <3>1
          <5>2. j < v.f.pos + 1
            BY <1>5, <2>3, <3>1
          <5>3. j - v.f.pos + 1 = 1
            BY <1>5, <2>3, <3>1
          <5>4. j - w.f.pos + 1 = k + 1
            BY <1>5, <2>3, <3>1
          <5>5. w.f.pos <= j /\ j < w.f.pos + (k + 1)
            BY <1>5, <2>3, <3>1
          <5> QED
            BY <5>1, <5>2, <5>3, <5>4, <5>5
        <4>2. Seen(r, j) = <<b>>[1]
          BY <2>4, <4>1 DEF Wrote
        <4> QED
          BY <4>1, <4>2 DEF b
      <3>2. CASE j # w.f.pos + k
        <4>1. ~(v.f.pos <= j /\ j < v.f.pos + 1)
              /\ (w.f.pos <= j /\ j < w.f.pos + (k + 1) <=> w.f.pos <= j /\ j < w.f.pos + k)
          BY <1>5, <2>3, <3>2
        <4>2. Seen(r, j) = Seen(v, j) /\ r.data[j] \in {v.data[j], Seen(v, j)}
          BY <2>4, <4>1 DEF Wrote
        <4>3. IF w.f.pos <= j /\ j < w.f.pos + k THEN Seen(v, j) = s[j - w.f.pos + 1]
              ELSE Seen(v, j) = Seen(w, j) /\ v.data[j] \in {w.data[j], Seen(w, j)}
          BY <2>1 DEF Wrote
        <4> QED
          BY <4>1, <4>2, <4>3
      <3> QED
        BY <3>1, <3>2
    <2>6. v.f.pos + 1 = w.f.pos + (k + 1)
      BY <1>5, <2>3
    <2>7. Wrote(w, s, k + 1, r)
      BY <2>1, <2>4, <2>5, <2>6 DEF Wrote
    <2> QED
      BY <1>4, <2>2, <2>4, <2>7
  <1>8. \A k \in 0 .. n : k \in T
    BY <1>1, <1>6, <1>7, UpTo
  <1> QED
    BY <1>1, <1>4, <1>8

-----------------------------------------------------------------------------
(* What holds between two calls *)

Flags == {FlagsOf[mode] : mode \in DOMAIN FlagsOf}

\* What holds of an open file, its row and its data between two calls.
Good(w) ==
    /\ Sound(w) /\ w.f.flags \in Flags
    /\ w.row.size <= MaxSize /\ w.row.links \in 1 .. MaxLinks
    /\ w.f.inode.size = w.row.size
    /\ CanWrite(w.f.flags) => w.f.inode = w.row
    /\ w.f.dirty => CanWrite(w.f.flags)
    /\ w.f.pos <= MaxSize
    /\ \A k \in 0 .. MaxSize - 1 : w.row.size <= k => w.data[k] = 0 /\ Seen(w, k) = 0

\* The types of an open file.
LEMMA GoodTypes ==
    ASSUME NEW w, Good(w)
    PROVE  /\ Sound(w) /\ w \in Worlds /\ w.f \in Handle /\ w.row \in Row /\ w.f.inode \in Row
           /\ w.data \in Data /\ w.f.pos \in 0 .. MaxSize /\ w.row.size \in 0 .. MaxSize
           /\ w.f.inode.size = w.row.size /\ w.f.inode.size \in 0 .. MaxSize
  BY HandlesAssumption DEF Good, Sound, Worlds, Handle, Row

\* A move leaves an open file as it should be.
LEMMA GoodSame ==
    ASSUME NEW w, Good(w), NEW v, Same(w, v), v.f.pos <= MaxSize
    PROVE  Good(v)
  BY DEF Good, Same

\* Without a dirty buffer a move changes nothing on the disk.
LEMMA ReadersData ==
    ASSUME NEW w, Good(w), NEW v, Same(w, v), ~w.f.dirty
    PROVE  v.data = w.data
  <1>1. v.data \in Data /\ w.data \in Data
    BY GoodTypes DEF Same, Sound, Worlds
  <1>2. \A k \in 0 .. MaxSize - 1 : v.data[k] = w.data[k]
    BY DEF Same, Seen
  <1>3. /\ v.data = [k \in 0 .. MaxSize - 1 |-> v.data[k]]
        /\ w.data = [k \in 0 .. MaxSize - 1 |-> w.data[k]]
    BY <1>1 DEF Data
  <1> DEFINE d(k) == v.data[k]
             e(k) == w.data[k]
  <1>4. \A k \in 0 .. MaxSize - 1 : d(k) = e(k)
    BY <1>2
  <1> HIDE DEF d, e
  <1>5. [k \in 0 .. MaxSize - 1 |-> d(k)] = [k \in 0 .. MaxSize - 1 |-> e(k)]
    BY <1>4
  <1> QED
    BY <1>3, <1>5 DEF d, e

\* So does a flush.
LEMMA GoodFlush ==
    ASSUME NEW w, Good(w)
    PROVE  LET v == Flush(w)
           IN /\ Good(v) /\ v.f.ino = w.f.ino /\ v.f.flags = w.f.flags /\ v.f.way = w.f.way
              /\ v.f.pos = w.f.pos /\ v.row = w.row
              /\ \A k \in 0 .. MaxSize - 1 : Seen(v, k) = Seen(w, k) /\ v.data[k] = Seen(w, k)
  <1>1. Sound(w) /\ w.f.pos <= MaxSize
    BY DEF Good
  <1>2. Same(w, Flush(w)) /\ ~Flush(w).f.dirty /\ Flush(w).f.pos = w.f.pos
    BY <1>1, FlushSame
  <1>3. Good(Flush(w))
    BY <1>1, <1>2, GoodSame
  <1> QED
    BY <1>2, <1>3 DEF Same, Seen

\* ext2fs_file_llseek.
LEMMA GoodSeek ==
    ASSUME NEW w, Good(w), NEW f, NEW p \in 0 .. MaxSize, f = [w.f EXCEPT !.pos = p]
    PROVE  LET v == [w EXCEPT !.f = f]
           IN /\ Good(v) /\ v.f.ino = w.f.ino /\ v.f.flags = w.f.flags /\ v.f.way = w.f.way
              /\ v.f.pos = p /\ v.row = w.row /\ v.got = w.got /\ v.f.inode = w.f.inode
              /\ v.f.dirty = w.f.dirty /\ v.data = w.data
              /\ \A k \in 0 .. MaxSize - 1 : Seen(v, k) = Seen(w, k)
  <1>1. w \in Worlds /\ w.f \in Handle
    BY GoodTypes
  <1>2. /\ f \in Handle /\ f.pos = p /\ f.ino = w.f.ino /\ f.flags = w.f.flags /\ f.way = w.f.way
        /\ f.inode = w.f.inode /\ f.blockno = w.f.blockno /\ f.buf = w.f.buf /\ f.dirty = w.f.dirty
    BY <1>1 DEF Handle
  <1> DEFINE v == [w EXCEPT !.f = f]
  <1>3. v \in Worlds /\ v.f = f /\ v.row = w.row /\ v.got = w.got /\ v.data = w.data
    BY <1>1, <1>2 DEF Worlds
  <1> HIDE DEF v
  <1>4. \A k \in 0 .. MaxSize - 1 : Seen(v, k) = Seen(w, k)
    BY <1>2, <1>3 DEF Seen
  <1>5. Sound(v)
    BY <1>2, <1>3 DEF Good, Sound, Agrees
  <1>6. Good(v)
    BY <1>2, <1>3, <1>4, <1>5 DEF Good
  <1> QED
    BY <1>2, <1>3, <1>4, <1>6 DEF v

\* update_xtime and ReadInode bring the copy up to date.
LEMMA UpdateXtimeIs ==
    ASSUME NEW w, Good(w)
    PROVE  LET v == UpdateXtime(w)
           IN /\ Good(v) /\ v = [w EXCEPT !.f.inode = w.row]
              /\ v.f.ino = w.f.ino /\ v.f.flags = w.f.flags /\ v.f.way = w.f.way
              /\ v.f.pos = w.f.pos /\ v.row = w.row /\ v.got = w.got /\ v.f.inode = w.row
              /\ v.f.dirty = w.f.dirty /\ v.data = w.data
              /\ \A k \in 0 .. MaxSize - 1 : Seen(v, k) = Seen(w, k)
  <1>1. w \in Worlds /\ w.f \in Handle /\ w.row \in Row
    BY GoodTypes
  <1> DEFINE v == [w EXCEPT !.f.inode = w.row]
  <1>2. UpdateXtime(w) = v
    BY <1>1 DEF UpdateXtime, ReadInode, WriteInode, Worlds, Handle
  <1> DEFINE f == [w.f EXCEPT !.inode = w.row]
  <1>3. /\ f \in Handle /\ f.pos = w.f.pos /\ f.ino = w.f.ino /\ f.flags = w.f.flags /\ f.way = w.f.way
        /\ f.inode = w.row /\ f.blockno = w.f.blockno /\ f.buf = w.f.buf /\ f.dirty = w.f.dirty
    BY <1>1 DEF Handle
  <1>4. v \in Worlds /\ v.f = f /\ v.row = w.row /\ v.got = w.got /\ v.data = w.data
    <2>1. v = [w EXCEPT !.f = f]
      BY <1>1
    <2> HIDE DEF f, v
    <2> QED
      BY <1>1, <1>3, <2>1 DEF Worlds
  <1> HIDE DEF f, v
  <1>5. \A k \in 0 .. MaxSize - 1 : Seen(v, k) = Seen(w, k)
    BY <1>3, <1>4 DEF Seen
  <1>6. Sound(v)
    BY <1>3, <1>4 DEF Good, Sound, Agrees
  <1>7. Good(v)
    BY <1>3, <1>4, <1>5, <1>6 DEF Good
  <1> QED
    BY <1>2, <1>3, <1>4, <1>5, <1>7 DEF v

\* From w to v, n bytes from position at on were read, and nothing was changed.
Reads(w, at, n, v) ==
    LET m == There(at, n, w.row.size)
    IN /\ Good(v) /\ v.f.ino = w.f.ino /\ v.f.flags = w.f.flags /\ v.f.way = w.f.way
       /\ v.row = w.row /\ v.f.pos = at + m
       /\ Len(v.got) = m /\ \A j \in 1 .. m : v.got[j] = Seen(w, at + j - 1)
       /\ ~w.f.dirty => v.data = w.data
       /\ \A k \in 0 .. MaxSize - 1 : Seen(v, k) = Seen(w, k)
\* Where a read with position p begins.
From(w, p) == IF p = Here THEN w.f.pos ELSE p

\* node_ext2fs_read to the end of ext2fs_file_read.
LEMMA ReadAtIs ==
    ASSUME NEW w, Good(w), w.got = <<>>, NEW n \in Nat, NEW p \in {Here} \cup 0 .. MaxSize
    PROVE  Reads(w, From(w, p), n, ReadAt(w, n, p))
  <1> DEFINE at == IF p = Here THEN w.f.pos ELSE p
             m == There(at, n, w.row.size)
             s == [w EXCEPT !.f = Seek(@, p)]
             r == FileRead(s, n)
  <1>1. w \in Worlds /\ w.f \in Handle /\ w.f.pos \in 0 .. MaxSize /\ w.f.inode.size = w.row.size
        /\ w.row.size \in 0 .. MaxSize /\ w.f.inode.size \in 0 .. MaxSize
    BY GoodTypes
  <1>2. at \in 0 .. MaxSize
    BY <1>1 DEF Here
  <1>3. /\ Good(s) /\ s.f.ino = w.f.ino /\ s.f.flags = w.f.flags /\ s.f.way = w.f.way
        /\ s.f.pos = at /\ s.row = w.row /\ s.got = w.got /\ s.f.inode = w.f.inode
        /\ s.f.dirty = w.f.dirty /\ s.data = w.data
        /\ \A k \in 0 .. MaxSize - 1 : Seen(s, k) = Seen(w, k)
    <2>1. CASE p = Here
      <3>1. s = w
        BY <1>1, <2>1 DEF Seek, Worlds
      <3> QED
        <4> HIDE DEF s
        <4>1. s.f.pos = at
          BY <2>1, <3>1
        <4> HIDE DEF at
        <4> QED
          BY <3>1, <4>1
    <2>2. CASE p # Here
      <3>1. Seek(w.f, p) = [w.f EXCEPT !.pos = p] /\ p \in 0 .. MaxSize /\ at = p
        BY <2>2 DEF Seek
      <3> QED
        BY <3>1, GoodSeek
    <2> QED
      BY <2>1, <2>2
  <1>4. ReadAt(w, n, p) = r /\ From(w, p) = at
    BY DEF ReadAt, From
  <1> HIDE DEF s
  <1>5. ReadOf(s, n, r)
    BY <1>1, <1>3, FileReadIs DEF Good
  <1> HIDE DEF r, at
  <1>6. m \in Nat /\ at + m <= MaxSize /\ MaxSize \in Nat
    <2> DEFINE size == w.row.size
    <2>1. size \in 0 .. MaxSize /\ MaxSize \in Nat
      BY <1>1, HandlesAssumption
    <2> HIDE DEF size
    <2>2. There(at, n, size) \in Nat /\ at + There(at, n, size) <= MaxSize
      BY <1>2, <2>1 DEF There
    <2> QED
      BY <2>1, <2>2 DEF size
  <1>7. /\ Same(s, r) /\ r.f.pos = at + m /\ Len(r.got) = m
        /\ \A j \in 1 .. m : r.got[j] = Seen(s, at + j - 1)
    BY <1>1, <1>3, <1>5 DEF ReadOf
  <1> HIDE DEF m
  <1>8. /\ Good(r) /\ (~s.f.dirty => r.data = s.data) /\ r.row = s.row
        /\ r.f.ino = s.f.ino /\ r.f.flags = s.f.flags /\ r.f.way = s.f.way
        /\ \A k \in 0 .. MaxSize - 1 : Seen(r, k) = Seen(s, k)
    <2>1. Good(r)
      BY <1>3, <1>6, <1>7, GoodSame
    <2>2. ~s.f.dirty => r.data = s.data
      BY <1>3, <1>7, ReadersData
    <2> QED
      BY <1>7, <2>1, <2>2 DEF Same
  <1>9. ASSUME NEW j \in 1 .. m PROVE Seen(s, at + j - 1) = Seen(w, at + j - 1)
    <2>1. at + j - 1 \in 0 .. MaxSize - 1
      BY <1>2, <1>6
    <2> QED
      BY <1>3, <2>1
  <1>10. \A j \in 1 .. m : r.got[j] = Seen(w, at + j - 1)
    BY <1>7, <1>9
  <1>11. Reads(w, at, n, r)
    BY <1>3, <1>7, <1>8, <1>10 DEF Reads, m
  <1> QED
    BY <1>4, <1>11

\* node_ext2fs_read: the bytes from the position on, and the attributes kept.
LEMMA ReadCallIs ==
    ASSUME NEW w, Good(w), w.got = <<>>, NEW n \in Nat, NEW p \in {Here} \cup 0 .. MaxSize
    PROVE  Reads(w, From(w, p), n, ReadCall(w, n, p))
  <1> DEFINE r == ReadAt(w, n, p)
             v == ReadCall(w, n, p)
             at == From(w, p)
  <1>1. v = IF "NOATIME" \in w.f.flags THEN r ELSE UpdateXtime(r)
    BY DEF ReadCall
  <1>2. Reads(w, at, n, r)
    BY ReadAtIs
  <1> HIDE DEF r, v, at
  <1>3. Good(r)
    BY <1>2 DEF Reads
  <1>4. /\ Good(v) /\ v.f.ino = r.f.ino /\ v.f.flags = r.f.flags /\ v.f.way = r.f.way
        /\ v.row = r.row /\ v.f.pos = r.f.pos /\ v.got = r.got /\ v.data = r.data
        /\ \A k \in 0 .. MaxSize - 1 : Seen(v, k) = Seen(r, k)
    BY <1>1, <1>3, UpdateXtimeIs
  <1>5. Reads(w, at, n, v)
    BY <1>2, <1>4 DEF Reads
  <1> QED
    BY <1>5 DEF v, at

\* node_ext2fs_chmod changes the permissions and nothing else.
LEMMA ChmodCallIs ==
    ASSUME NEW w, Good(w), NEW perm \in Perm
    PROVE  LET v == ChmodCall(w, perm)
           IN /\ Good(v) /\ v.f.ino = w.f.ino /\ v.f.flags = w.f.flags /\ v.f.way = w.f.way
              /\ v.f.pos = w.f.pos /\ v.row = [w.row EXCEPT !.perm = perm] /\ v.data = w.data
              /\ \A k \in 0 .. MaxSize - 1 : Seen(v, k) = Seen(w, k)
  <1>1. w \in Worlds /\ w.f \in Handle /\ w.row \in Row
    BY GoodTypes
  <1> DEFINE row == [w.row EXCEPT !.perm = perm]
             f == [w.f EXCEPT !.inode = row]
             v == [w EXCEPT !.f = f, !.row = row]
  <1>2. ChmodCall(w, perm) = v
    BY <1>1 DEF ChmodCall, ReadInode, WriteInode, Worlds, Handle
  <1>3. row \in Row /\ row.size = w.row.size /\ row.links = w.row.links
    BY <1>1 DEF Row
  <1> HIDE DEF row
  <1>4. /\ f \in Handle /\ f.pos = w.f.pos /\ f.ino = w.f.ino /\ f.flags = w.f.flags /\ f.way = w.f.way
        /\ f.inode = row /\ f.blockno = w.f.blockno /\ f.buf = w.f.buf /\ f.dirty = w.f.dirty
    BY <1>1, <1>3 DEF Handle
  <1> HIDE DEF f
  <1>5. v \in Worlds /\ v.f = f /\ v.row = row /\ v.got = w.got /\ v.data = w.data
    BY <1>1, <1>3, <1>4 DEF Worlds
  <1> HIDE DEF v
  <1>6. \A k \in 0 .. MaxSize - 1 : Seen(v, k) = Seen(w, k)
    BY <1>4, <1>5 DEF Seen
  <1>7. Sound(v)
    BY <1>4, <1>5 DEF Good, Sound, Agrees
  <1>8. Good(v)
    BY <1>3, <1>4, <1>5, <1>6, <1>7 DEF Good
  <1> QED
    BY <1>2, <1>4, <1>5, <1>6, <1>8 DEF v, row

-----------------------------------------------------------------------------
(* Writes, opens and truncations *)

\* ext2fs_file_set_size2, when the copy of the inode is current.
LEMMA SetSizeIs ==
    ASSUME NEW w \in Worlds, NEW size \in Nat
    PROVE  LET v == SetSize(w, size)
           IN /\ v \in Worlds /\ v.row = [w.f.inode EXCEPT !.size = size] /\ v.f.inode = v.row
              /\ v.f.ino = w.f.ino /\ v.f.flags = w.f.flags /\ v.f.way = w.f.way
              /\ v.f.pos = w.f.pos /\ v.f.blockno = w.f.blockno /\ v.f.buf = w.f.buf
              /\ v.f.dirty = w.f.dirty /\ v.got = w.got
              /\ v.data = [k \in 0 .. MaxSize - 1 |-> IF k < size THEN w.data[k] ELSE 0]
  <1>1. w.f \in Handle /\ w.f.inode \in Row /\ w.data \in Data
    BY DEF Worlds, Handle
  <1> DEFINE row == [w.f.inode EXCEPT !.size = size]
             f == [w.f EXCEPT !.inode = row]
             d == [k \in 0 .. MaxSize - 1 |-> IF k < size THEN w.data[k] ELSE 0]
             v == [f |-> f, row |-> row, data |-> d, got |-> w.got]
  <1>2. row \in Row /\ d \in Data /\ DOMAIN w.data = 0 .. MaxSize - 1
    BY <1>1 DEF Row, Data, Byte
  <1>3. /\ f \in Handle /\ f.pos = w.f.pos /\ f.ino = w.f.ino /\ f.flags = w.f.flags /\ f.way = w.f.way
        /\ f.inode = row /\ f.blockno = w.f.blockno /\ f.buf = w.f.buf /\ f.dirty = w.f.dirty
    <2> HIDE DEF row
    <2> QED
      BY <1>1, <1>2 DEF Handle
  <1>4. v \in Worlds
    <2> HIDE DEF f, row, d
    <2> QED
      BY <1>2, <1>3 DEF Worlds
  <1>5. SetSize(w, size) = v
    <2> DEFINE e == [k \in DOMAIN w.data |-> IF k < size THEN w.data[k] ELSE 0]
               u == [w EXCEPT !.f.inode.size = size, !.data = e]
    <2>1. SetSize(w, size) = [u EXCEPT !.row = u.f.inode]
      BY DEF SetSize, WriteInode
    <2>2. e = d
      BY <1>2
    <2> HIDE DEF e
    <2>3. u = [f |-> f, row |-> w.row, data |-> e, got |-> w.got]
      <3>1. u = [w EXCEPT !.f = f, !.data = e]
        OBVIOUS
      <3> HIDE DEF f, u
      <3> QED
        BY <3>1 DEF Worlds
    <2> HIDE DEF u, f
    <2> QED
      BY <1>3, <2>1, <2>2, <2>3
  <1> HIDE DEF row, f, d
  <1>6. v.f = f /\ v.row = row /\ v.data = d /\ v.got = w.got
    OBVIOUS
  <1> HIDE DEF v
  <1> QED
    BY <1>3, <1>4, <1>5, <1>6 DEF row, d

\* The size of a file after n bytes were written at p.
Grown(p, n, size) == IF n # 0 /\ p + n > size THEN p + n ELSE size

\* ext2fs_file_write, its change of the size included.
LEMMA FileWriteIs ==
    ASSUME NEW w, Good(w), CanWrite(w.f.flags), NEW s \in Seq(Byte),
           FileWrite(w, s).f.pos <= MaxSize
    PROVE  LET v == FileWrite(w, s)
           IN /\ Good(v) /\ v.f.ino = w.f.ino /\ v.f.flags = w.f.flags /\ v.f.way = w.f.way
              /\ v.f.pos = w.f.pos + Len(s)
              /\ v.row = [w.row EXCEPT !.size = Grown(w.f.pos, Len(s), @)]
              /\ \A k \in 0 .. MaxSize - 1 :
                    Seen(v, k) = IF w.f.pos <= k /\ k < w.f.pos + Len(s) THEN s[k - w.f.pos + 1]
                                 ELSE Seen(w, k)
  <1> DEFINE f == CHOOSE g : Writing(w, s, Len(s), g)
             u == f[Len(s)]
             v == FileWrite(w, s)
             n == Len(s)
             p == w.f.pos
             size == w.row.size
  <1>1. v = IF n # 0 /\ u.f.inode.size < u.f.pos THEN SetSize(u, u.f.pos) ELSE u
    BY DEF FileWrite, Writing
  <1>2. Sound(w) /\ p \in 0 .. MaxSize /\ size \in 0 .. MaxSize /\ n \in Nat /\ MaxSize \in Nat /\ w.row \in Row
        /\ w.f.inode = w.row
    BY GoodTypes, HandlesAssumption DEF Good
  <1>3. Wrote(w, s, n, u) /\ (n # 0 => u.f.dirty)
    BY <1>2, WroteAll DEF Writing
  <1> HIDE DEF f, u, v
  <1>4. /\ Sound(u) /\ u \in Worlds /\ u.row = w.row /\ u.f.inode = w.row /\ u.f.pos = p + n
        /\ u.f.ino = w.f.ino /\ u.f.flags = w.f.flags /\ u.f.way = w.f.way /\ u.data \in Data
        /\ (n # 0 => u.f.buf # NoBuf)
    BY <1>2, <1>3 DEF Wrote, Sound, Worlds, Agrees
  <1>5. \A k \in 0 .. MaxSize - 1 :
            IF p <= k /\ k < p + n THEN Seen(u, k) = s[k - p + 1]
            ELSE Seen(u, k) = Seen(w, k) /\ u.data[k] \in {w.data[k], Seen(w, k)}
    BY <1>3 DEF Wrote
  <1>6. \A k \in 0 .. MaxSize - 1 : size <= k => w.data[k] = 0 /\ Seen(w, k) = 0
    BY DEF Good
  <1>7. w.row.size <= MaxSize /\ w.row.links \in 1 .. MaxLinks /\ w.f.flags \in Flags
    BY DEF Good
  <1> HIDE DEF n, p
  <1>8. CASE n # 0 /\ size < p + n
    <2> DEFINE row == [w.row EXCEPT !.size = p + n]
               d == [k \in 0 .. MaxSize - 1 |-> IF k < p + n THEN u.data[k] ELSE 0]
    <2>1. v = SetSize(u, p + n) /\ p + n \in Nat
      BY <1>1, <1>2, <1>4, <1>8
    <2>2. /\ v \in Worlds /\ v.row = row /\ v.f.inode = row
          /\ v.f.ino = w.f.ino /\ v.f.flags = w.f.flags /\ v.f.way = w.f.way
          /\ v.f.pos = p + n /\ v.f.blockno = u.f.blockno /\ v.f.buf = u.f.buf
          /\ v.f.dirty = u.f.dirty /\ v.data = d
      BY <1>4, <2>1, SetSizeIs
    <2>3. row.size = p + n /\ row.links = w.row.links /\ row = [w.row EXCEPT !.size = Grown(p, n, @)]
      BY <1>2, <1>8 DEF Row, Grown
    <2>4. p + n <= MaxSize
      BY <2>2 DEF v
    <2>5. \A k \in 0 .. MaxSize - 1 : d[k] = u.data[k]
      <3> TAKE k \in 0 .. MaxSize - 1
      <3>1. CASE k < p + n
        BY <3>1
      <3>2. CASE ~(k < p + n)
        <4>1. size <= k
          BY <1>2, <1>8, <3>2
        <4>2. u.data[k] = 0
          BY <1>5, <1>6, <3>2, <4>1
        <4> QED
          BY <3>2, <4>2
      <3> QED
        BY <3>1, <3>2
    <2> HIDE DEF d, row
    <2>6. \A k \in 0 .. MaxSize - 1 : Seen(v, k) = Seen(u, k)
      BY <2>2, <2>5 DEF Seen
    <2>7. Sound(v)
      BY <1>3, <1>4, <1>8, <2>2 DEF Sound, Agrees
    <2>8. ASSUME NEW k \in 0 .. MaxSize - 1, v.row.size <= k PROVE v.data[k] = 0 /\ Seen(v, k) = 0
      <3>1. size <= k /\ ~(k < p + n)
        BY <1>2, <1>8, <2>2, <2>3, <2>8
      <3> QED
        BY <1>5, <1>6, <2>2, <2>5, <2>6, <3>1
    <2>9. Good(v)
      BY <1>7, <2>2, <2>3, <2>4, <2>7, <2>8 DEF Good
    <2>10. \A k \in 0 .. MaxSize - 1 : Seen(v, k) = IF p <= k /\ k < p + n THEN s[k - p + 1] ELSE Seen(w, k)
      BY <1>5, <2>6
    <2> QED
      BY <2>2, <2>3, <2>9, <2>10 DEF v, n, p
  <1>9. CASE ~(n # 0 /\ size < p + n)
    <2>1. v = u
      BY <1>1, <1>4, <1>9
    <2>2. w.row = [w.row EXCEPT !.size = Grown(p, n, @)]
      <3>1. Grown(p, n, size) = size
        BY <1>2, <1>9 DEF Grown
      <3> QED
        BY <1>2, <3>1 DEF Row
    <2>3. p + n <= MaxSize
      BY <1>2, <1>9
    <2>4. ASSUME NEW k \in 0 .. MaxSize - 1, u.row.size <= k PROVE u.data[k] = 0 /\ Seen(u, k) = 0
      <3>1. size <= k /\ ~(p <= k /\ k < p + n)
        BY <1>2, <1>4, <1>9, <2>4
      <3> QED
        BY <1>5, <1>6, <3>1
    <2>5. Good(u)
      <3>1. CanWrite(u.f.flags)
        BY <1>4
      <3> QED
        BY <1>4, <1>7, <2>3, <2>4, <3>1 DEF Good
    <2>6. \A k \in 0 .. MaxSize - 1 : Seen(u, k) = IF p <= k /\ k < p + n THEN s[k - p + 1] ELSE Seen(w, k)
      BY <1>5
    <2> QED
      BY <1>4, <2>1, <2>2, <2>5, <2>6 DEF v, n, p
  <1> QED
    BY <1>8, <1>9

\* From w to v, s was written at position at.
Overlays(w, at, s, v) ==
    /\ v.row = [w.row EXCEPT !.size = Grown(at, Len(s), @)] /\ v.row.size <= MaxSize
    /\ \A k \in 0 .. MaxSize - 1 :
          Seen(v, k) = IF at <= k /\ k < at + Len(s) THEN s[k - at + 1] ELSE Seen(w, k)
\* Where a write with position p begins, and what it does.
Where(w, p) == IF "APPEND" \in w.f.flags THEN w.row.size ELSE IF p = Here THEN w.f.pos ELSE p
WriteOf(w, s, p, v) ==
    /\ Good(v) /\ v.f.ino = w.f.ino /\ v.f.flags = w.f.flags /\ v.f.way = w.f.way
    /\ v.f.pos = Where(w, p) + Len(s) /\ Overlays(w, Where(w, p), s, v)

\* node_ext2fs_write to the end of ext2fs_file_write.
LEMMA WriteAtIs ==
    ASSUME NEW w, Good(w), CanWrite(w.f.flags), NEW s \in Seq(Byte),
           NEW p \in {Here} \cup 0 .. MaxSize, WriteAt(w, s, p).f.pos <= MaxSize
    PROVE  WriteOf(w, s, p, WriteAt(w, s, p))
  <1> DEFINE at == Where(w, p)
             f == IF "APPEND" \in w.f.flags THEN SeekEnd(w.f) ELSE Seek(w.f, p)
             u == [w EXCEPT !.f = f]
             r == FileWrite(u, s)
  <1>1. w \in Worlds /\ w.f \in Handle /\ w.f.pos \in 0 .. MaxSize /\ w.f.inode.size = w.row.size
        /\ w.row.size \in 0 .. MaxSize
    BY GoodTypes
  <1>2. at \in 0 .. MaxSize
    BY <1>1 DEF Here, Where
  <1>3. f = [w.f EXCEPT !.pos = at]
    <2>1. w.f = [w.f EXCEPT !.pos = w.f.pos]
      BY <1>1 DEF Handle
    <2> QED
      BY <1>1, <2>1 DEF Seek, SeekEnd, Where
  <1>4. WriteAt(w, s, p) = r
    BY DEF WriteAt
  <1> HIDE DEF at, f
  <1>5. /\ Good(u) /\ u.f.ino = w.f.ino /\ u.f.flags = w.f.flags /\ u.f.way = w.f.way
        /\ u.f.pos = at /\ u.row = w.row
        /\ \A k \in 0 .. MaxSize - 1 : Seen(u, k) = Seen(w, k)
    BY <1>2, <1>3, GoodSeek
  <1> HIDE DEF u
  <1>7. /\ Good(r) /\ r.f.ino = u.f.ino /\ r.f.flags = u.f.flags /\ r.f.way = u.f.way
        /\ r.f.pos = u.f.pos + Len(s)
        /\ r.row = [u.row EXCEPT !.size = Grown(u.f.pos, Len(s), @)]
        /\ \A k \in 0 .. MaxSize - 1 :
              Seen(r, k) = IF u.f.pos <= k /\ k < u.f.pos + Len(s) THEN s[k - u.f.pos + 1]
                           ELSE Seen(u, k)
    <2>1. CanWrite(u.f.flags) /\ r.f.pos <= MaxSize
      BY <1>4, <1>5
    <2> QED
      BY <1>5, <2>1, FileWriteIs
  <1> HIDE DEF r
  <1>8. \A k \in 0 .. MaxSize - 1 :
              Seen(r, k) = IF at <= k /\ k < at + Len(s) THEN s[k - at + 1] ELSE Seen(w, k)
    BY <1>5, <1>7
  <1>9. r.row = [w.row EXCEPT !.size = Grown(at, Len(s), @)] /\ r.f.pos = at + Len(s)
    BY <1>5, <1>7
  <1>10. Overlays(w, at, s, r)
    BY <1>7, <1>8, <1>9 DEF Overlays, Good
  <1> QED
    BY <1>4, <1>5, <1>7, <1>9, <1>10 DEF at, WriteOf

\* What comes after it moves bytes and leaves the attributes alone.
LEMMA WriteOfMoves ==
    ASSUME NEW w, NEW s, NEW p, NEW r, WriteOf(w, s, p, r), NEW v, Good(v),
           v.f.ino = r.f.ino, v.f.flags = r.f.flags, v.f.way = r.f.way, v.f.pos = r.f.pos, v.row = r.row,
           \A k \in 0 .. MaxSize - 1 : Seen(v, k) = Seen(r, k)
    PROVE  WriteOf(w, s, p, v)
  BY DEF WriteOf, Overlays

\* node_ext2fs_write, whether its last flush works or not.
LEMMA WriteCallIs ==
    ASSUME NEW w, Good(w), CanWrite(w.f.flags), NEW s \in Seq(Byte),
           NEW p \in {Here} \cup 0 .. MaxSize, WriteCall(w, s, p).f.pos <= MaxSize
    PROVE  LET v == WriteCall(w, s, p) IN WriteOf(w, s, p, v) /\ WriteOf(w, s, p, Flush(v))
  <1> DEFINE r == WriteAt(w, s, p)
             v == WriteCall(w, s, p)
  <1>1. v = IF "CREAT" \in w.f.flags THEN UpdateXtime(r) ELSE r
    BY DEF WriteCall
  <1>2. r \in Worlds
    <2> DEFINE f == IF "APPEND" \in w.f.flags THEN SeekEnd(w.f) ELSE Seek(w.f, p)
               u == [w EXCEPT !.f = f]
               g == CHOOSE g : Writing(u, s, Len(s), g)
               q == g[Len(s)]
    <2>1. r = IF s # <<>> /\ q.f.inode.size < q.f.pos THEN SetSize(q, q.f.pos) ELSE q
      BY DEF WriteAt, FileWrite, Writing
    <2>2. Sound(u)
      <3>1. w.f \in Handle /\ w.f.pos \in 0 .. MaxSize /\ w.f.inode.size \in 0 .. MaxSize
        BY GoodTypes
      <3>2. w.f = [w.f EXCEPT !.pos = w.f.pos]
        BY <3>1 DEF Handle
      <3>3. \E at \in 0 .. MaxSize : f = [w.f EXCEPT !.pos = at]
        BY <3>1, <3>2 DEF Seek, SeekEnd, Here
      <3> HIDE DEF f
      <3> QED
        BY <3>3, GoodSeek DEF Good
    <2> HIDE DEF u
    <2>3. Wrote(u, s, Len(s), q)
      BY <2>2, WroteAll DEF Writing
    <2> HIDE DEF g, q, r
    <2>4. q \in Worlds /\ q.f.pos \in Nat
      BY <2>3 DEF Wrote, Sound, Worlds, Handle
    <2>5. SetSize(q, q.f.pos) \in Worlds
      BY <2>4, SetSizeIs
    <2> QED
      BY <2>1, <2>4, <2>5
  <1>3. r.f.pos <= MaxSize
    <2> HIDE DEF r
    <2>1. UpdateXtime(r).f.pos = r.f.pos
      BY <1>2 DEF UpdateXtime, ReadInode, WriteInode, Worlds, Handle
    <2> QED
      BY <1>1, <2>1
  <1>4. WriteOf(w, s, p, r)
    BY <1>3, WriteAtIs
  <1> HIDE DEF r, v
  <1>5. Good(r)
    BY <1>4 DEF WriteOf
  <1>6. /\ Good(v) /\ v.f.ino = r.f.ino /\ v.f.flags = r.f.flags /\ v.f.way = r.f.way
        /\ v.f.pos = r.f.pos /\ v.row = r.row
        /\ \A k \in 0 .. MaxSize - 1 : Seen(v, k) = Seen(r, k)
    BY <1>1, <1>5, UpdateXtimeIs
  <1>7. WriteOf(w, s, p, v)
    BY <1>4, <1>6, WriteOfMoves
  <1>8. WriteOf(w, s, p, Flush(v))
    BY <1>6, <1>7, GoodFlush, WriteOfMoves
  <1> QED
    BY <1>7, <1>8 DEF v

\* Who truncates writes.
LEMMA FlagsAre ==
    ASSUME NEW flags \in Flags
    PROVE  flags \in SUBSET AllFlags /\ ("TRUNC" \in flags => CanWrite(flags))
  <1>1. PICK mode \in DOMAIN FlagsOf : flags = FlagsOf[mode]
    BY DEF Flags
  <1>2. DOMAIN FlagsOf = {"r", "rPlus", "w", "wPlus", "a", "aPlus", "noatime"}
    BY DEF FlagsOf
  <1>3. flags \in {{}, {"RDWR"}, {"WRONLY", "CREAT", "TRUNC"}, {"RDWR", "CREAT", "TRUNC"},
                   {"WRONLY", "CREAT", "APPEND"}, {"RDWR", "CREAT", "APPEND"}, {"NOATIME"}}
    BY <1>1, <1>2 DEF FlagsOf
  <1> QED
    BY <1>3 DEF AllFlags, CanWrite

\* ext2fs_file_open.
Opened(i, flags, way, row, d) ==
    [f    |-> [Closed EXCEPT !.ino = i, !.flags = flags, !.way = way, !.inode = row],
     row  |-> row, data |-> d, got |-> <<>>]

\* A file that was just opened.
LEMMA OpenedIs ==
    ASSUME NEW i \in Nat, NEW flags \in Flags, NEW way \in {"here", "at", "both"},
           NEW row \in Row, NEW d \in Data
    PROVE  LET w == Opened(i, flags, way, row, d)
           IN /\ w \in Worlds /\ w.f.ino = i /\ w.f.flags = flags /\ w.f.way = way
              /\ w.f.inode = row /\ w.f.pos = 0 /\ w.f.buf = NoBuf /\ ~w.f.dirty
              /\ w.row = row /\ w.data = d
  <1> DEFINE f == [Closed EXCEPT !.ino = i, !.flags = flags, !.way = way, !.inode = row]
             w == Opened(i, flags, way, row, d)
  <1>1. flags \in SUBSET AllFlags
    BY FlagsAre
  <1>2. /\ f \in Handle /\ f.ino = i /\ f.flags = flags /\ f.way = way /\ f.inode = row
        /\ f.pos = 0 /\ f.buf = NoBuf /\ ~f.dirty
    BY <1>1 DEF Closed, Handle
  <1>3. w = [f |-> f, row |-> row, data |-> d, got |-> <<>>]
    BY DEF Opened
  <1> HIDE DEF f, w
  <1>4. w \in Worlds /\ w.f = f /\ w.row = row /\ w.data = d
    BY <1>2, <1>3 DEF Worlds
  <1>5. /\ w \in Worlds /\ w.f.ino = i /\ w.f.flags = flags /\ w.f.way = way
        /\ w.f.inode = row /\ w.f.pos = 0 /\ w.f.buf = NoBuf /\ ~w.f.dirty
        /\ w.row = row /\ w.data = d
    BY <1>2, <1>4
  <1> QED
    BY <1>5 DEF w

\* The truncation of open.
LEMMA TruncatedIs ==
    ASSUME NEW w \in Worlds, w.f.flags \in Flags, w.f.inode = w.row, w.f.pos = 0,
           w.f.buf = NoBuf, ~w.f.dirty, w.row.size <= MaxSize, w.row.links \in 1 .. MaxLinks,
           \A k \in 0 .. MaxSize - 1 : w.row.size <= k => w.data[k] = 0,
           NEW v, v = IF "TRUNC" \in w.f.flags THEN SetSize(w, 0) ELSE w
    PROVE  /\ Good(v) /\ v.f.ino = w.f.ino /\ v.f.flags = w.f.flags /\ v.f.way = w.f.way
           /\ v.f.pos = 0
           /\ v.row = [w.row EXCEPT !.size = IF "TRUNC" \in w.f.flags THEN 0 ELSE @]
           /\ "TRUNC" \notin w.f.flags => v.data = w.data
           /\ \A k \in 0 .. MaxSize - 1 : "TRUNC" \notin w.f.flags => Seen(v, k) = w.data[k]
  <1>1. /\ MaxSize \in Nat /\ ("TRUNC" \in w.f.flags => CanWrite(w.f.flags))
        /\ w.row \in Row /\ 0 <= MaxSize
    BY HandlesAssumption, FlagsAre DEF Worlds
  <1>2. \A k \in 0 .. MaxSize - 1 : Seen(w, k) = w.data[k]
    BY DEF Seen
  <1>3. CASE "TRUNC" \in w.f.flags
    <2> DEFINE r == [w.row EXCEPT !.size = 0]
               e == [k \in 0 .. MaxSize - 1 |-> IF k < 0 THEN w.data[k] ELSE 0]
    <2>1. v = SetSize(w, 0) /\ 0 \in Nat
      BY <1>3
    <2>2. /\ v \in Worlds /\ v.row = r /\ v.f.inode = r
          /\ v.f.ino = w.f.ino /\ v.f.flags = w.f.flags /\ v.f.way = w.f.way
          /\ v.f.pos = 0 /\ v.f.buf = NoBuf /\ v.f.dirty = w.f.dirty /\ v.data = e
      <3> DEFINE z == SetSize(w, 0)
      <3>1. z.data = e
        BY <2>1, SetSizeIs
      <3>2. z \in Worlds /\ z.row = [w.f.inode EXCEPT !.size = 0] /\ z.f.inode = z.row
        BY <2>1, SetSizeIs
      <3>3. /\ z.f.ino = w.f.ino /\ z.f.flags = w.f.flags /\ z.f.way = w.f.way
            /\ z.f.pos = w.f.pos /\ z.f.buf = w.f.buf /\ z.f.dirty = w.f.dirty
        BY <2>1, SetSizeIs
      <3> HIDE DEF z, e
      <3>4. z.row = r
        BY <3>2
      <3> HIDE DEF r
      <3>5. v = z
        BY <2>1 DEF z
      <3> QED
        BY <3>1, <3>2, <3>3, <3>4, <3>5
    <2>3. r.size = 0 /\ r.links = w.row.links
      BY <1>1 DEF Row
    <2>4. \A k \in 0 .. MaxSize - 1 : e[k] = 0
      OBVIOUS
    <2> HIDE DEF r, e
    <2>5. \A k \in 0 .. MaxSize - 1 : Seen(v, k) = 0
      BY <2>2, <2>4 DEF Seen
    <2>6. Sound(v)
      BY <2>2 DEF Sound, Agrees
    <2>7. Good(v)
      BY <1>1, <1>3, <2>2, <2>3, <2>4, <2>5, <2>6 DEF Good
    <2> QED
      BY <1>3, <2>2, <2>7 DEF r
  <1>4. CASE "TRUNC" \notin w.f.flags
    <2>1. v = w /\ w.row = [w.row EXCEPT !.size = IF "TRUNC" \in w.f.flags THEN 0 ELSE @]
      BY <1>1, <1>4 DEF Row
    <2>2. Sound(w)
      BY DEF Sound, Agrees
    <2>3. Good(w)
      BY <1>1, <1>2, <2>2 DEF Good
    <2> QED
      BY <1>2, <1>4, <2>1, <2>3
  <1> QED
    BY <1>3, <1>4

-----------------------------------------------------------------------------
(* The invariant of the program *)

Disk ==
    /\ table \in [Inodes -> Row] /\ data \in [Inodes -> Data]
    /\ \A i \in Inodes :
         /\ table[i].size <= MaxSize /\ table[i].links <= MaxLinks
         /\ table[i].links = 0 => table[i] = NoInode
         /\ \A k \in 0 .. MaxSize - 1 : table[i].size <= k => data[i][k] = 0
Held(u) ==
    IF IsOpen(u)
    THEN /\ file[u].ino \in Inodes /\ Good(World(u))
         /\ file[u].way \in {"here", "at"} /\ (file[u].way = "here" => file[u].pos = offset[u])
    ELSE offset[u] = 0
\* Who writes to a file is alone.
Alone == \A u, v \in Users :
    u # v /\ IsOpen(u) /\ IsOpen(v) /\ file[u].ino = file[v].ino => ~CanWrite(file[u].flags)
HInv ==
    /\ Disk
    /\ file \in [Users -> Handle] /\ offset \in [Users -> 0 .. MaxSize]
    /\ \A u \in Users : Held(u)
    /\ Alone

\* A closed descriptor.
LEMMA ClosedIs ==
    /\ Closed.ino = 0 /\ Closed.flags = {} /\ ~Closed.dirty /\ Closed.pos = 0 /\ Closed \in Handle
    /\ \A i \in Inodes : i # 0 /\ i \in Nat
  BY HandlesAssumption DEF Closed, Handle, NoInode, Row, Perm

\* The openers of a file are the users that have it open.
LEMMA OpenersIs ==
    ASSUME HInv, NEW i \in Inodes, NEW u \in Users
    PROVE  u \in Openers(i) <=> IsOpen(u) /\ file[u].ino = i
  BY ClosedIs DEF Openers, IsOpen

\* What a call begins with.
LEMMA WorldIs ==
    ASSUME NEW u \in Users
    PROVE  /\ World(u).f = file[u] /\ World(u).row = table[file[u].ino]
           /\ World(u).data = data[file[u].ino] /\ World(u).got = <<>>
  BY DEF World

\* While one has the file open, it sees its bytes.
LEMMA BytSeen ==
    ASSUME HInv, NEW u \in Users, IsOpen(u), NEW k \in 0 .. MaxSize - 1
    PROVE  Byt(file[u].ino, k) = Seen(World(u), k)
  <1> DEFINE i == file[u].ino
             mine == file[u].dirty /\ InBlock(k, file[u].blockno)
             holders == {v \in Openers(i) : file[v].dirty /\ InBlock(k, file[v].blockno)}
  <1>1. i \in Inodes /\ u \in Openers(i)
    BY OpenersIs DEF HInv, Held
  <1>2. ASSUME NEW v \in holders PROVE v = u
    <2>1. v \in Users /\ IsOpen(v) /\ file[v].ino = i /\ file[v].dirty
      BY <1>1, OpenersIs DEF Openers
    <2>2. Good(World(v))
      BY <2>1 DEF HInv, Held
    <2>3. CanWrite(file[v].flags)
      BY <2>1, <2>2, WorldIs DEF Good
    <2> QED
      BY <2>1, <2>3 DEF HInv, Alone
  <1>3. Byt(i, k) = IF holders = {} THEN data[i][k]
                    ELSE file[CHOOSE v \in holders : TRUE].buf[k % BlockSize]
    BY DEF Byt
  <1>4. Seen(World(u), k) = IF mine THEN file[u].buf[k % BlockSize] ELSE data[i][k]
    BY WorldIs DEF Seen
  <1>5. u \in holders <=> mine
    BY <1>1
  <1> HIDE DEF mine, holders, i
  <1>6. CASE mine
    <2>1. holders = {u}
      BY <1>2, <1>5, <1>6
    <2>2. (CHOOSE v \in holders : TRUE) = u /\ holders # {}
      BY <2>1
    <2> QED
      BY <1>3, <1>4, <1>6, <2>2 DEF i
  <1>7. CASE ~mine
    <2>1. holders = {}
      BY <1>2, <1>5, <1>7
    <2> QED
      BY <1>3, <1>4, <1>7, <2>1 DEF i
  <1> QED
    BY <1>6, <1>7

\* When nobody holds bytes back, the disk has them.
LEMMA BytClosed ==
    ASSUME HInv, NEW i \in Inodes, \A u \in Users : IsOpen(u) /\ file[u].ino = i => ~file[u].dirty, NEW k
    PROVE  Byt(i, k) = data[i][k]
  <1> DEFINE holders == {u \in Openers(i) : file[u].dirty /\ InBlock(k, file[u].blockno)}
  <1>1. holders = {}
    BY OpenersIs DEF Openers
  <1> QED
    BY <1>1 DEF Byt

\* A step that leaves a file and its descriptors alone.
LEMMA BytesKept ==
    ASSUME HInv, NEW i \in Inodes,
           table'[i].size = table[i].size, data'[i] = data[i], Openers(i)' = Openers(i),
           \A u \in Openers(i) : file'[u] = file[u]
    PROVE  Bytes(i)' = Bytes(i)
  <1>1. ASSUME NEW k PROVE Byt(i, k)' = Byt(i, k)
    <2> DEFINE holders == {u \in Openers(i) : file[u].dirty /\ InBlock(k, file[u].blockno)}
    <2>1. holders' = holders
      OBVIOUS
    <2>2. PICK h : h = holders
      OBVIOUS
    <2>3. Byt(i, k) = IF h = {} THEN data[i][k] ELSE file[CHOOSE u \in h : TRUE].buf[k % BlockSize]
      BY <2>2 DEF Byt
    <2>4. Byt(i, k)' = IF h = {} THEN data'[i][k] ELSE file'[CHOOSE u \in h : TRUE].buf[k % BlockSize]
      <3>1. Byt(i, k)' = IF holders' = {} THEN data'[i][k]
                         ELSE file'[CHOOSE u \in holders' : TRUE].buf[k % BlockSize]
        BY DEF Byt
      <3>2. holders' = h
        BY <2>1, <2>2
      <3> HIDE DEF holders
      <3> QED
        BY <3>1, <3>2
    <2>5. \A u \in h : file'[u] = file[u]
      BY <2>2
    <2> HIDE DEF holders
    <2>6. PICK c : c = CHOOSE u \in h : TRUE
      OBVIOUS
    <2>7. h # {} => c \in h
      BY <2>6
    <2>8. h # {} => file'[c] = file[c]
      BY <2>5, <2>7
    <2>9. Byt(i, k) = IF h = {} THEN data[i][k] ELSE file[c].buf[k % BlockSize]
      BY <2>3, <2>6
    <2>10. Byt(i, k)' = IF h = {} THEN data'[i][k] ELSE file'[c].buf[k % BlockSize]
      BY <2>4, <2>6
    <2> QED
      BY <2>8, <2>9, <2>10
  <1>2. Bytes(i) = [k \in 1 .. table[i].size |-> Byt(i, k - 1)]
    BY DEF Bytes
  <1>3. Bytes(i)' = [k \in 1 .. table'[i].size |-> Byt(i, k - 1)']
    BY DEF Bytes
  <1> QED
    BY <1>1, <1>2, <1>3

\* The same for all users, to be used of the next state.
LEMMA BytSeenAll ==
    HInv => \A u \in Users, k \in 0 .. MaxSize - 1 : IsOpen(u) => Byt(file[u].ino, k) = Seen(World(u), k)
  BY BytSeen

\* The same in the next state.
LEMMA BytSeenNext ==
    HInv' => (\A u \in Users, k \in 0 .. MaxSize - 1 : IsOpen(u) => Byt(file[u].ino, k) = Seen(World(u), k))'
  BY BytSeenAll, PTL

-----------------------------------------------------------------------------
(* A call on a descriptor that stays open *)

\* Good does not depend on what was read.
LEMMA GoodLike ==
    ASSUME NEW w, Good(w), NEW v \in Worlds, v.f = w.f, v.row = w.row, v.data = w.data
    PROVE  Good(v) /\ \A k : Seen(v, k) = Seen(w, k)
  <1>1. \A k : Seen(v, k) = Seen(w, k)
    BY DEF Seen
  <1>2. Sound(v)
    BY DEF Good, Sound, Agrees
  <1> QED
    BY <1>1, <1>2 DEF Good

\* Another reader's world, when only attributes of the file have changed.
LEMMA ReaderKept ==
    ASSUME NEW w, Good(w), ~CanWrite(w.f.flags), NEW v \in Worlds, v.f = w.f, v.data = w.data,
           v.row.size = w.row.size, v.row.links \in 1 .. MaxLinks
    PROVE  Good(v)
  <1>1. \A k : Seen(v, k) = Seen(w, k)
    BY DEF Seen
  <1>2. Sound(v)
    BY DEF Good, Sound, Agrees
  <1> QED
    BY <1>1, <1>2 DEF Good

\* The type of a world.
LEMMA WorldsAre ==
    HInv => \A u \in Users : IsOpen(u) => World(u) \in Worlds
  BY DEF HInv, Held, Good, Sound

\* The part of HInv that a change of the table has to respect.
RowOk(row) == /\ row \in Row /\ row.size <= MaxSize /\ row.links <= MaxLinks
              /\ row.links = 0 => row = NoInode

\* The disk after one file of it has changed.
LEMMA DiskKept ==
    ASSUME Disk, NEW i \in Inodes, NEW row, RowOk(row), NEW d \in Data,
           \A k \in 0 .. MaxSize - 1 : row.size <= k => d[k] = 0,
           table' = [table EXCEPT ![i] = row], data' = [data EXCEPT ![i] = d]
    PROVE  Disk' /\ table'[i] = row /\ data'[i] = d
           /\ \A j \in Inodes : j # i => table'[j] = table[j] /\ data'[j] = data[j]
  <1>1. /\ table' \in [Inodes -> Row] /\ data' \in [Inodes -> Data]
        /\ table'[i] = row /\ data'[i] = d
        /\ \A j \in Inodes : j # i => table'[j] = table[j] /\ data'[j] = data[j]
    BY DEF Disk, RowOk
  <1>2. ASSUME NEW j \in Inodes
        PROVE  /\ table'[j].size <= MaxSize /\ table'[j].links <= MaxLinks
               /\ table'[j].links = 0 => table'[j] = NoInode
               /\ \A k \in 0 .. MaxSize - 1 : table'[j].size <= k => data'[j][k] = 0
    <2>1. CASE j = i
      BY <1>1, <2>1 DEF RowOk
    <2>2. CASE j # i
      BY <1>1, <2>2 DEF Disk
    <2> QED
      BY <2>1, <2>2
  <1> QED
    BY <1>1, <1>2 DEF Disk

\* A call of u on file i that leaves it as w.
Commits(u, i, w, o) ==
    /\ Good(w) /\ w.f.ino = i /\ Commit(u, w) /\ offset' = [offset EXCEPT ![u] = o]
    /\ w.f.way \in {"here", "at"} /\ (w.f.way = "here" => w.f.pos = o)
    /\ IsOpen(u) => file[u].ino = i
    /\ \A v \in Users : v # u /\ IsOpen(v) /\ file[v].ino = i =>
          /\ ~CanWrite(file[v].flags) /\ ~CanWrite(w.f.flags)
          /\ w.row.size = table[i].size /\ w.data = data[i]
\* The file and the descriptor that the program then sees.
FileOf(bytes, row) == [bytes |-> bytes, links |-> row.links, perm |-> row.perm]
BytesIn(w) == [k \in 1 .. w.row.size |-> Seen(w, k - 1)]
DescOf(f, o) == [ino |-> f.ino, flags |-> f.flags, offset |-> o]

\* Such a call keeps the invariant.
LEMMA CommitKeeps ==
    ASSUME HInv, NEW u \in Users, NEW i \in Inodes, NEW w, NEW o \in 0 .. MaxSize, Commits(u, i, w, o)
    PROVE  HInv'
  <1>0. /\ Good(w) /\ w.f.ino = i /\ Commit(u, w) /\ offset' = [offset EXCEPT ![u] = o]
        /\ w.f.way \in {"here", "at"} /\ (w.f.way = "here" => w.f.pos = o)
        /\ IsOpen(u) => file[u].ino = i
        /\ \A v \in Users : v # u /\ IsOpen(v) /\ file[v].ino = i =>
              /\ ~CanWrite(file[v].flags) /\ ~CanWrite(w.f.flags)
              /\ w.row.size = table[i].size /\ w.data = data[i]
    BY DEF Commits
  <1>1. /\ w \in Worlds /\ w.f \in Handle /\ w.row \in Row /\ w.data \in Data
        /\ w.row.size <= MaxSize /\ w.row.links \in 1 .. MaxLinks
        /\ \A k \in 0 .. MaxSize - 1 : w.row.size <= k => w.data[k] = 0
    BY <1>0, GoodTypes DEF Good
  <1>2. RowOk(w.row)
    BY <1>1, HandlesAssumption DEF RowOk
  <1>3. /\ Disk' /\ table'[i] = w.row /\ data'[i] = w.data
        /\ \A j \in Inodes : j # i => table'[j] = table[j] /\ data'[j] = data[j]
    BY <1>0, <1>1, <1>2, DiskKept DEF Commit, HInv
  <1>4. /\ file' \in [Users -> Handle] /\ file'[u] = w.f
        /\ \A v \in Users : v # u => file'[v] = file[v]
    BY <1>0, <1>1 DEF Commit, HInv
  <1>5. /\ offset' \in [Users -> 0 .. MaxSize] /\ offset'[u] = o
        /\ \A v \in Users : v # u => offset'[v] = offset[v]
    BY <1>0 DEF HInv
  <1>6. w.f # Closed
    BY <1>0, ClosedIs
  <1>7. \A v \in Users : v # u => (IsOpen(v)' <=> IsOpen(v))
    BY <1>4 DEF IsOpen
  <1>8. IsOpen(u)'
    BY <1>4, <1>6 DEF IsOpen
  <1>9. ASSUME NEW v \in Users PROVE Held(v)'
    <2>1. CASE v = u
      <3>1. World(u)' = [f |-> w.f, row |-> w.row, data |-> w.data, got |-> <<>>]
        BY <1>0, <1>3, <1>4 DEF World
      <3>2. /\ World(u)' \in Worlds /\ World(u)'.f = w.f /\ World(u)'.row = w.row
            /\ World(u)'.data = w.data
        BY <1>1, <3>1 DEF Worlds
      <3>3. Good(World(u)')
        BY <1>0, <3>2, GoodLike
      <3>4. file'[u].ino \in Inodes /\ file'[u].way \in {"here", "at"}
            /\ (file'[u].way = "here" => file'[u].pos = offset'[u])
        BY <1>0, <1>4, <1>5
      <3> QED
        BY <1>8, <2>1, <3>3, <3>4 DEF Held
    <2>2. CASE v # u /\ ~IsOpen(v)
      BY <1>5, <1>7, <2>2 DEF Held, HInv
    <2>3. CASE v # u /\ IsOpen(v)
      <3>1. /\ file'[v] = file[v] /\ offset'[v] = offset[v] /\ IsOpen(v)'
            /\ file[v].ino \in Inodes /\ Good(World(v)) /\ file[v].way \in {"here", "at"}
            /\ (file[v].way = "here" => file[v].pos = offset[v])
        BY <1>4, <1>5, <1>7, <2>3 DEF Held, HInv
      <3>2. World(v)' = [f |-> file[v], row |-> table'[file[v].ino], data |-> data'[file[v].ino], got |-> <<>>]
        BY <3>1 DEF World
      <3>3. CASE file[v].ino # i
        <4>1. World(v)' = World(v)
          BY <1>3, <3>1, <3>2, <3>3 DEF World
        <4> QED
          BY <3>1, <4>1 DEF Held
      <3>4. CASE file[v].ino = i
        <4>1. ~CanWrite(file[v].flags) /\ w.row.size = table[i].size /\ w.data = data[i]
          BY <1>0, <2>3, <3>4
        <4>2. World(v)' = [f |-> file[v], row |-> w.row, data |-> w.data, got |-> <<>>]
          BY <1>3, <3>2, <3>4
        <4>3. /\ World(v).f = file[v] /\ World(v).row = table[i] /\ World(v).data = data[i]
          BY <3>4 DEF World
        <4>4. file[v] \in Handle
          BY DEF HInv
        <4>5. /\ World(v)' \in Worlds /\ World(v)'.f = file[v] /\ World(v)'.row = w.row
              /\ World(v)'.data = w.data
          BY <1>1, <4>2, <4>4 DEF Worlds
        <4>6. Good(World(v)')
          BY <1>1, <3>1, <4>1, <4>3, <4>5, ReaderKept
        <4> QED
          BY <3>1, <4>6 DEF Held
      <3> QED
        BY <3>3, <3>4
    <2> QED
      BY <2>1, <2>2, <2>3
  <1>10. Alone'
    <2> SUFFICES ASSUME NEW x \in Users, NEW y \in Users, x # y, IsOpen(x)', IsOpen(y)',
                        file'[x].ino = file'[y].ino
                 PROVE  ~CanWrite(file'[x].flags)
      BY DEF Alone
    <2>1. CASE x = u
      BY <1>0, <1>4, <1>7, <2>1
    <2>2. CASE y = u
      BY <1>0, <1>4, <1>7, <2>2
    <2>3. CASE x # u /\ y # u
      BY <1>4, <1>7, <2>3 DEF HInv, Alone
    <2> QED
      BY <2>1, <2>2, <2>3
  <1> QED
    BY <1>3, <1>4, <1>5, <1>9, <1>10 DEF HInv

\* It leaves the other files alone.
LEMMA ContentsOthers ==
    ASSUME HInv, NEW u \in Users, NEW i \in Inodes, NEW w, w.f.ino = i, Commit(u, w),
           IsOpen(u) => file[u].ino = i, NEW j \in Inodes, j # i
    PROVE  Contents'[j] = Contents[j]
  <1>1. /\ table'[j] = table[j] /\ data'[j] = data[j]
        /\ file'[u] = w.f /\ \A v \in Users : v # u => file'[v] = file[v]
    BY DEF Commit, HInv, Disk
  <1>2. file[u].ino # j
    BY ClosedIs DEF IsOpen
  <1>3. Openers(j)' = Openers(j) /\ \A v \in Openers(j) : file'[v] = file[v]
    BY <1>1, <1>2 DEF Openers
  <1>4. Bytes(j)' = Bytes(j)
    BY <1>1, <1>3, BytesKept
  <1> QED
    BY <1>1, <1>4 DEF Contents

\* What the rest of the program sees of a call.
LEMMA CommitShows ==
    ASSUME HInv, HInv', NEW u \in Users, NEW i \in Inodes, NEW w, NEW o, Commits(u, i, w, o)
    PROVE  /\ Contents' = [Contents EXCEPT ![i] = FileOf(BytesIn(w), w.row)]
           /\ Descs' = [Descs EXCEPT ![u] = DescOf(w.f, o)]
  <1>0. /\ Good(w) /\ w.f.ino = i /\ Commit(u, w) /\ offset' = [offset EXCEPT ![u] = o]
        /\ IsOpen(u) => file[u].ino = i
    BY DEF Commits
  <1>1. /\ table'[i] = w.row /\ data'[i] = w.data
        /\ file'[u] = w.f /\ \A v \in Users : v # u => file'[v] = file[v]
    BY <1>0 DEF Commit, HInv, Disk
  <1>2. w.row.size \in 0 .. MaxSize /\ MaxSize \in Nat
    BY <1>0, GoodTypes, HandlesAssumption
  <1>3. IsOpen(u)' /\ file'[u].ino = i
    BY <1>0, <1>1, ClosedIs DEF IsOpen
  <1>4. ASSUME NEW k \in 1 .. w.row.size PROVE Byt(i, k - 1)' = Seen(w, k - 1)
    <2>1. k - 1 \in 0 .. MaxSize - 1
      BY <1>2
    <2>2. Byt(i, k - 1)' = Seen(World(u)', k - 1)
      BY <1>3, <2>1, BytSeenNext
    <2>3. World(u)'.f = w.f /\ World(u)'.data = w.data
      BY <1>1, <1>3 DEF World
    <2> QED
      BY <2>2, <2>3 DEF Seen
  <1>5. Bytes(i)' = BytesIn(w)
    <2>1. Bytes(i)' = [k \in 1 .. table'[i].size |-> Byt(i, k - 1)']
      BY DEF Bytes
    <2> QED
      BY <1>1, <1>4, <2>1 DEF BytesIn
  <1>6. Contents'[i] = FileOf(BytesIn(w), w.row)
    BY <1>1, <1>5 DEF Contents, FileOf
  <1>7. \A j \in Inodes : j # i => Contents'[j] = Contents[j]
    BY <1>0, ContentsOthers
  <1>8. Contents' = [j \in Inodes |-> Contents'[j]] /\ Contents = [j \in Inodes |-> Contents[j]]
    BY DEF Contents
  <1>9. offset'[u] = o /\ \A v \in Users : v # u => offset'[v] = offset[v]
    BY <1>0 DEF HInv
  <1>10. Descs'[u] = DescOf(w.f, o) /\ \A v \in Users : v # u => Descs'[v] = Descs[v]
    BY <1>1, <1>9 DEF Descs, DescOf
  <1>11. Descs' = [v \in Users |-> Descs'[v]] /\ Descs = [v \in Users |-> Descs[v]]
    BY DEF Descs
  <1> QED
    BY <1>6, <1>7, <1>8, <1>10, <1>11

-----------------------------------------------------------------------------
(* What the program sees of its files *)

\* No bytes are the empty sequence.
LEMMA NoBytes == ASSUME NEW F(_) PROVE [k \in 1 .. 0 |-> F(k)] = <<>>
  OBVIOUS

\* The bytes that a read of node gets are those that are there.
LEMMA SliceLength ==
    ASSUME NEW s \in Seq(Byte), NEW at \in Nat, NEW n \in Nat
    PROVE  Len(Posix!Slice(s, at, n)) = There(at, n, Len(s))
  <1>1. Len(s) \in Nat
    OBVIOUS
  <1> DEFINE e == IF at + n < Len(s) THEN at + n ELSE Len(s)
  <1>2. e \in Nat /\ e <= Len(s)
    BY <1>1
  <1>3. CASE at <= Len(s)
    <2>1. at + 1 \in 1 .. Len(s) + 1 /\ e \in at + 1 - 1 .. Len(s)
      BY <1>1, <1>3
    <2>2. Len(SubSeq(s, at + 1, e)) = e - (at + 1) + 1
      BY <2>1, SubSeqProperties
    <2>3. e - (at + 1) + 1 = There(at, n, Len(s))
      BY <1>1, <1>3 DEF There
    <2> QED
      BY <2>2, <2>3 DEF Posix!Slice
  <1>4. CASE ~(at <= Len(s))
    <2>1. e = Len(s) /\ There(at, n, Len(s)) = 0 /\ at + 1 > Len(s)
      BY <1>1, <1>4 DEF There
    <2>2. Len(SubSeq(s, at + 1, Len(s))) = 0
      BY <1>1, <2>1
    <2> QED
      BY <2>1, <2>2 DEF Posix!Slice
  <1> QED
    BY <1>3, <1>4

\* They are the slice of the file.
LEMMA SliceIs ==
    ASSUME NEW s \in Seq(Byte), NEW at \in Nat, NEW n \in Nat, NEW t \in Seq(Byte),
           Len(t) = There(at, n, Len(s)), \A j \in 1 .. Len(t) : t[j] = s[at + j]
    PROVE  Posix!Slice(s, at, n) = t
  <1> DEFINE e == IF at + n < Len(s) THEN at + n ELSE Len(s)
             q == SubSeq(s, at + 1, e)
  <1>1. Len(s) \in Nat /\ e \in Nat /\ e <= Len(s) /\ at + 1 \in Int /\ e \in Int
    OBVIOUS
  <1>2. \A j \in at + 1 .. e : s[j] \in Byte
    BY <1>1
  <1>3. Posix!Slice(s, at, n) = q
    BY DEF Posix!Slice
  <1> HIDE DEF e
  <1>4. q \in Seq(Byte) /\ \A j \in 1 .. e - (at + 1) + 1 : q[j] = s[at + 1 + j - 1]
    BY <1>1, <1>2, SubSeqProperties
  <1>5. Len(q) = Len(t)
    BY <1>3, SliceLength
  <1>6. Len(q) <= e - (at + 1) + 1 \/ Len(q) = 0
    BY <1>1, <1>2, SubSeqProperties
  <1> HIDE DEF q
  <1>7. \A j \in 1 .. Len(q) : q[j] = t[j]
    <2> SUFFICES ASSUME NEW j \in 1 .. Len(q) PROVE q[j] = t[j]
      OBVIOUS
    <2>1. j \in 1 .. e - (at + 1) + 1 /\ at + 1 + j - 1 = at + j
      BY <1>1, <1>4, <1>6
    <2> QED
      BY <1>4, <1>5, <2>1
  <1> QED
    BY <1>3, <1>4, <1>5, <1>7, SeqEqual

\* What an open descriptor knows of its file is what the program sees.
LEMMA BytesAre ==
    ASSUME HInv, NEW u \in Users, IsOpen(u)
    PROVE  LET i == file[u].ino
               w == World(u)
           IN /\ i \in Inodes /\ Good(w) /\ w.f = file[u] /\ w.row = table[i] /\ w.data = data[i] /\ w.got = <<>>
              /\ w.row.size \in 0 .. MaxSize
              /\ Bytes(i) = BytesIn(w)
              /\ Bytes(i) \in Seq(Byte) /\ Len(Bytes(i)) = w.row.size
              /\ Contents[i] = FileOf(Bytes(i), w.row)
              /\ Descs[u] = DescOf(w.f, offset[u])
              /\ Posix!IsOpen(u) /\ Posix!BytesOf(u) = Bytes(i)
  <1> DEFINE i == file[u].ino
             w == World(u)
  <1>1. /\ i \in Inodes /\ Good(w) /\ w.f = file[u] /\ w.row = table[i] /\ w.data = data[i] /\ w.got = <<>>
    BY WorldIs DEF HInv, Held
  <1>2. w.row.size \in 0 .. MaxSize /\ MaxSize \in Nat /\ w \in Worlds /\ Sound(w)
    BY <1>1, GoodTypes, HandlesAssumption
  <1>3. ASSUME NEW k \in 1 .. w.row.size PROVE Byt(i, k - 1) = Seen(w, k - 1) /\ Seen(w, k - 1) \in Byte
    <2>1. k - 1 \in 0 .. MaxSize - 1
      BY <1>2
    <2>2. Seen(w, k - 1) \in Byte
      <3> DEFINE j == k - 1
      <3>1. j \in Nat /\ j % BlockSize \in 0 .. BlockSize - 1
        BY <2>1, InBlocks
      <3>2. w.data \in Data /\ (w.f.dirty => w.f.buf \in Buf)
        BY <1>2 DEF Sound, Agrees, Worlds, Handle
      <3> HIDE DEF j
      <3> QED
        BY <2>1, <3>1, <3>2 DEF Seen, Data, Buf, j
    <2> QED
      BY <2>1, <2>2, BytSeen
  <1>4. Bytes(i) = BytesIn(w)
    BY <1>1, <1>3 DEF Bytes, BytesIn
  <1>5. Bytes(i) \in Seq(Byte) /\ Len(Bytes(i)) = w.row.size
    BY <1>2, <1>3, <1>4 DEF BytesIn
  <1>6. Contents[i] = FileOf(Bytes(i), w.row)
    BY <1>1 DEF Contents, FileOf
  <1>7. Descs[u] = DescOf(w.f, offset[u])
    BY <1>1 DEF Descs, DescOf
  <1>8. Posix!IsOpen(u) /\ Posix!BytesOf(u) = Bytes(i)
    BY <1>1, <1>6, <1>7, ClosedIs DEF Posix!IsOpen, Posix!Closed, Posix!BytesOf, DescOf, FileOf
  <1> QED
    BY <1>1, <1>2, <1>4, <1>5, <1>6, <1>7, <1>8

\* Two users of a file only read it.
LEMMA OthersAre ==
    ASSUME HInv, NEW u \in Users, IsOpen(u), NEW v \in Users, v # u, IsOpen(v), file[v].ino = file[u].ino
    PROVE  /\ ~CanWrite(file[v].flags) /\ ~CanWrite(file[u].flags)
           /\ ~file[v].dirty /\ ~file[u].dirty
  <1>1. ~CanWrite(file[v].flags) /\ ~CanWrite(file[u].flags)
    BY DEF HInv, Alone
  <1>2. Good(World(u)) /\ Good(World(v)) /\ World(u).f = file[u] /\ World(v).f = file[v]
    BY BytesAre
  <1> QED
    BY <1>1, <1>2 DEF Good

\* The bytes of a file are those seen.
LEMMA SameBytes ==
    ASSUME NEW w, Good(w), NEW v, v.row.size = w.row.size,
           \A k \in 0 .. MaxSize - 1 : Seen(v, k) = Seen(w, k)
    PROVE  BytesIn(v) = BytesIn(w)
  <1>1. w.row.size \in 0 .. MaxSize /\ MaxSize \in Nat
    BY GoodTypes, HandlesAssumption
  <1>2. \A k \in 1 .. w.row.size : k - 1 \in 0 .. MaxSize - 1
    BY <1>1
  <1>3. \A k \in 1 .. w.row.size : Seen(v, k - 1) = Seen(w, k - 1)
    BY <1>2
  <1> QED
    BY <1>3 DEF BytesIn

\* A change of the permissions.
LEMMA PermOf ==
    ASSUME NEW b, NEW row \in Row, NEW perm \in Perm
    PROVE  FileOf(b, [row EXCEPT !.perm = perm]) = [FileOf(b, row) EXCEPT !.perm = perm]
  BY DEF FileOf, Row

\* The variables of PosixFiles are functions.
LEMMA DescsAre == Descs = [u \in Users |-> Descs[u]] /\ Contents = [i \in Inodes |-> Contents[i]]
  BY DEF Descs, Contents

\* chmod is the chmod of node.
LEMMA ChmodStep ==
    ASSUME HInv, NEW u \in Users, NEW perm \in Perm, Chmod(u, perm)
    PROVE  HInv' /\ Posix!Chmod(u, perm)
  <1> DEFINE i == file[u].ino
             w == World(u)
             v == ChmodCall(w, perm)
             o == offset[u]
  <1>1. IsOpen(u) /\ Commit(u, v) /\ offset' = offset
    BY DEF Chmod
  <1>2. /\ i \in Inodes /\ Good(w) /\ w.f = file[u] /\ w.row = table[i] /\ w.data = data[i]
        /\ Bytes(i) = BytesIn(w) /\ Contents[i] = FileOf(Bytes(i), w.row)
        /\ Descs[u] = DescOf(w.f, o) /\ Posix!IsOpen(u)
    BY <1>1, BytesAre
  <1>3. /\ Good(v) /\ v.f.ino = w.f.ino /\ v.f.flags = w.f.flags /\ v.f.way = w.f.way
        /\ v.f.pos = w.f.pos /\ v.row = [w.row EXCEPT !.perm = perm] /\ v.data = w.data
        /\ \A k \in 0 .. MaxSize - 1 : Seen(v, k) = Seen(w, k)
    BY <1>2, ChmodCallIs
  <1>4. w.row \in Row /\ v.row.size = w.row.size
    BY <1>2, <1>3, GoodTypes DEF Row
  <1>5. /\ o \in 0 .. MaxSize /\ offset' = [offset EXCEPT ![u] = o]
        /\ w.f.way \in {"here", "at"} /\ (w.f.way = "here" => w.f.pos = o)
    BY <1>1, <1>2 DEF HInv, Held
  <1>6. \A x \in Users : x # u /\ IsOpen(x) /\ file[x].ino = i =>
               /\ ~CanWrite(file[x].flags) /\ ~CanWrite(v.f.flags)
               /\ v.row.size = table[i].size /\ v.data = data[i]
    BY <1>1, <1>2, <1>3, <1>4, OthersAre
  <1>7. v.f.ino = i /\ (IsOpen(u) => file[u].ino = i) /\ Descs[u].ino = i
    BY <1>2, <1>3 DEF DescOf
  <1> HIDE DEF v, w, i, o
  <1>8. Commits(u, i, v, o)
    BY <1>1, <1>3, <1>5, <1>6, <1>7 DEF Commits
  <1>9. HInv'
    BY <1>2, <1>5, <1>8, CommitKeeps
  <1>10. /\ Contents' = [Contents EXCEPT ![i] = FileOf(BytesIn(v), v.row)]
         /\ Descs' = [Descs EXCEPT ![u] = DescOf(v.f, o)]
    BY <1>2, <1>5, <1>8, <1>9, CommitShows
  <1>11. BytesIn(v) = BytesIn(w)
    BY <1>2, <1>3, <1>4, SameBytes
  <1>12. FileOf(BytesIn(v), v.row) = [Contents[i] EXCEPT !.perm = perm]
    BY <1>2, <1>3, <1>4, <1>11, PermOf
  <1>13. Contents' = [Contents EXCEPT ![Descs[u].ino].perm = perm]
    BY <1>7, <1>10, <1>12
  <1>14. DescOf(v.f, o) = Descs[u]
    BY <1>2, <1>3 DEF DescOf
  <1>15. Descs' = Descs
    BY <1>10, <1>14, DescsAre
  <1> QED
    BY <1>2, <1>9, <1>13, <1>15 DEF Chmod, Quiet, Posix!Chmod, Posix!Quiet

-----------------------------------------------------------------------------
(* Reads and writes *)

\* A descriptor is read and written with positions or without.
LEMMA WaysAre ==
    ASSUME Habits = {}
    PROVE  Ways = {"here", "at"} /\ \A u \in Users, p \in {Here} \cup 0 .. MaxSize :
               MayPass(u, p) => /\ file[u].way = "here" => p = Here
                                /\ file[u].way = "at" => p # Here
  BY DEF Ways, MayPass

\* What the last call read is of its type.
Answered == answer \in Seq(Byte) /\ Len(answer) <= MaxCall

\* So it is after a call that reads nothing.
LEMMA QuietAnswers == Quiet => Answered'
  BY HandlesAssumption DEF Quiet, Answered

\* A call that leaves the bytes and the row alone leaves the file alone.
LEMMA SameFile ==
    ASSUME HInv, NEW u \in Users, IsOpen(u), NEW v, v.row = World(u).row,
           \A k \in 0 .. MaxSize - 1 : Seen(v, k) = Seen(World(u), k)
    PROVE  FileOf(BytesIn(v), v.row) = Contents[file[u].ino]
  BY BytesAre, SameBytes

\* What a read gets, and what the program sees of it.
LEMMA SkipShows ==
    ASSUME HInv, Habits = {}, NEW u \in Users, NEW n \in Nat, NEW p \in Positions, MayRead(u, p),
           NEW v, Reads(World(u), From(World(u), p), n, v), Skip(u, p, v)
    PROVE  /\ HInv' /\ Contents' = Contents /\ Posix!MayRead(u) /\ Posix!Skip(u, v.got, p)
           /\ v.got = Posix!Slice(Posix!BytesOf(u), Posix!Start(u, p), n)
           /\ v.got \in Seq(Byte) /\ Len(v.got) <= n
  <1> DEFINE i == file[u].ino
             w == World(u)
             o == IF p = Here THEN offset[u] + Len(v.got) ELSE offset[u]
             at == From(w, p)
             m == There(at, n, w.row.size)
  <1>1. IsOpen(u) /\ Commit(u, v) /\ offset' = [offset EXCEPT ![u] = o] /\ MayPass(u, p)
        /\ "WRONLY" \notin file[u].flags
    BY DEF Skip, MayRead
  <1>2. /\ i \in Inodes /\ Good(w) /\ w.f = file[u] /\ w.row = table[i] /\ w.data = data[i] /\ w.got = <<>>
        /\ Bytes(i) = BytesIn(w) /\ Contents[i] = FileOf(Bytes(i), w.row)
        /\ Bytes(i) \in Seq(Byte) /\ Len(Bytes(i)) = w.row.size
        /\ Descs[u] = DescOf(w.f, offset[u]) /\ Posix!IsOpen(u) /\ Posix!BytesOf(u) = Bytes(i)
    BY <1>1, BytesAre
  <1>3. p \in {Here} \cup 0 .. MaxSize
    BY DEF Positions
  <1>4. /\ Good(v) /\ v.f.ino = w.f.ino /\ v.f.flags = w.f.flags /\ v.f.way = w.f.way
        /\ v.row = w.row /\ v.f.pos = at + m /\ Len(v.got) = m
        /\ \A j \in 1 .. m : v.got[j] = Seen(w, at + j - 1)
        /\ (~w.f.dirty => v.data = w.data)
        /\ \A k \in 0 .. MaxSize - 1 : Seen(v, k) = Seen(w, k)
    BY DEF Reads
  <1>5. /\ offset[u] \in 0 .. MaxSize
        /\ w.f.way \in {"here", "at"} /\ (w.f.way = "here" => w.f.pos = offset[u])
        /\ (w.f.way = "here" => p = Here) /\ (w.f.way = "at" => p # Here)
    BY <1>1, <1>2, <1>3, WaysAre DEF HInv, Held
  <1>6. v.f.pos \in 0 .. MaxSize /\ v.got \in Seq(Byte) /\ MaxSize \in Nat
    BY <1>4, GoodTypes, HandlesAssumption DEF Worlds
  <1>7. at = (IF p = Here THEN offset[u] ELSE p) /\ (p = Here => o = v.f.pos) /\ at \in Nat
    BY <1>3, <1>4, <1>5 DEF From
  <1>8. o \in 0 .. MaxSize /\ (v.f.way = "here" => v.f.pos = o)
    BY <1>4, <1>5, <1>6, <1>7
  <1>9. \A x \in Users : x # u /\ IsOpen(x) /\ file[x].ino = i =>
               /\ ~CanWrite(file[x].flags) /\ ~CanWrite(v.f.flags)
               /\ v.row.size = table[i].size /\ v.data = data[i]
    BY <1>1, <1>2, <1>4, OthersAre
  <1>10. v.f.ino = i /\ (IsOpen(u) => file[u].ino = i) /\ v.f.way \in {"here", "at"}
    BY <1>2, <1>4, <1>5
  <1>11. FileOf(BytesIn(v), v.row) = Contents[i]
    BY <1>1, <1>4, SameFile
  <1>12. v.got = Posix!Slice(Bytes(i), at, n) /\ Len(v.got) <= n
    <2> DEFINE b == Bytes(i)
               size == w.row.size
    <2>1. b \in Seq(Byte) /\ Len(b) = size /\ size \in Nat
      BY <1>2
    <2>2. ASSUME NEW j \in 1 .. Len(v.got) PROVE v.got[j] = b[at + j]
      <3>1. m = There(at, n, size) /\ j \in 1 .. m
        BY <1>4, <2>2
      <3> HIDE DEF at, m, size
      <3>2. at + j \in 1 .. size /\ at + j - 1 = (at + j) - 1
        BY <1>7, <2>1, <3>1 DEF There
      <3>3. v.got[j] = Seen(w, at + j - 1)
        BY <1>4, <3>1
      <3>4. b = [k \in 1 .. size |-> Seen(w, k - 1)]
        BY <1>2 DEF BytesIn, size
      <3> HIDE DEF b, w
      <3> QED
        BY <3>2, <3>3, <3>4
    <2> HIDE DEF b, at, size, m
    <2>3. Len(v.got) = There(at, n, Len(b))
      BY <1>4, <2>1 DEF m, size
    <2>4. There(at, n, Len(b)) <= n
      BY <1>7, <2>1 DEF There
    <2> QED
      BY <1>6, <1>7, <2>1, <2>2, <2>3, <2>4, SliceIs DEF b
  <1>13. DescOf(v.f, o) = [Descs[u] EXCEPT !.offset = o]
    BY <1>2, <1>4 DEF DescOf
  <1>14. Descs[u].offset = offset[u] /\ "WRONLY" \notin Descs[u].flags
    BY <1>1, <1>2 DEF DescOf
  <1>15. at = Posix!Start(u, p)
    BY <1>7, <1>14 DEF Posix!Start, Posix!Here, Here
  <1> HIDE DEF w, i, o, at, m
  <1>16. Commits(u, i, v, o)
    BY <1>1, <1>4, <1>8, <1>9, <1>10 DEF Commits
  <1>17. HInv'
    BY <1>2, <1>8, <1>16, CommitKeeps
  <1>18. /\ Contents' = [Contents EXCEPT ![i] = FileOf(BytesIn(v), v.row)]
         /\ Descs' = [Descs EXCEPT ![u] = DescOf(v.f, o)]
    BY <1>2, <1>8, <1>16, <1>17, CommitShows
  <1>19. Contents' = Contents
    BY <1>11, <1>18, DescsAre
  <1>20. Descs' = [Descs EXCEPT ![u].offset = o]
    BY <1>13, <1>18
  <1>21. Posix!Skip(u, v.got, p) /\ Posix!MayRead(u)
    BY <1>2, <1>14, <1>20 DEF Posix!Skip, Posix!MayRead, Posix!Here, Here, o
  <1> QED
    BY <1>2, <1>6, <1>12, <1>15, <1>17, <1>19, <1>21

\* read is the read of node.
LEMMA ReadActs ==
    ASSUME HInv, Habits = {}, NEW u \in Users, NEW n \in 1 .. MaxCall, NEW p \in Positions, Read(u, n, p)
    PROVE  HInv' /\ Posix!Read(u, n, p) /\ Answered'
  <1> DEFINE v == ReadCall(World(u), n, p)
  <1>1. MayRead(u, p) /\ Skip(u, p, v) /\ answer' = v.got /\ IsOpen(u)
    BY DEF Read, MayRead
  <1>2. n \in Nat /\ n <= MaxCall /\ MaxCall \in Nat /\ p \in {Here} \cup 0 .. MaxSize
    BY HandlesAssumption DEF Positions
  <1>3. Good(World(u)) /\ World(u).got = <<>>
    BY <1>1, BytesAre
  <1>4. Reads(World(u), From(World(u), p), n, v)
    BY <1>2, <1>3, ReadCallIs
  <1> HIDE DEF v
  <1>5. /\ HInv' /\ Contents' = Contents /\ Posix!MayRead(u) /\ Posix!Skip(u, v.got, p)
        /\ v.got = Posix!Slice(Posix!BytesOf(u), Posix!Start(u, p), n)
        /\ v.got \in Seq(Byte) /\ Len(v.got) <= n
    BY <1>1, <1>2, <1>4, SkipShows
  <1> QED
    BY <1>1, <1>2, <1>5 DEF Posix!Read, Answered

\* A read that a flush ends shows no bytes, and skips those it has got.
LEMMA ReadRejectsActs ==
    ASSUME HInv, Habits = {}, NEW u \in Users, NEW n \in 1 .. MaxCall, NEW p \in Positions,
           ReadRejects(u, n, p)
    PROVE  HInv' /\ Posix!ReadRejects(u, n, p)
  <1>1. PICK k \in 0 .. n - 1 : Skip(u, p, ReadAt(World(u), k, p))
    BY DEF ReadRejects
  <1> DEFINE v == ReadAt(World(u), k, p)
  <1>2. MayRead(u, p) /\ Skip(u, p, v) /\ Quiet /\ IsOpen(u)
    BY <1>1 DEF ReadRejects, MayRead
  <1>3. k \in Nat /\ p \in {Here} \cup 0 .. MaxSize
    BY DEF Positions
  <1>4. Good(World(u)) /\ World(u).got = <<>>
    BY <1>2, BytesAre
  <1>5. Reads(World(u), From(World(u), p), k, v)
    BY <1>3, <1>4, ReadAtIs
  <1> HIDE DEF v
  <1>6. /\ HInv' /\ Contents' = Contents /\ Posix!MayRead(u) /\ Posix!Skip(u, v.got, p)
        /\ v.got = Posix!Slice(Posix!BytesOf(u), Posix!Start(u, p), k)
    BY <1>2, <1>3, <1>5, SkipShows
  <1> QED
    BY <1>1, <1>2, <1>6 DEF Posix!ReadRejects, Posix!Quiet, Quiet

\* A write overlays the bytes of the file.
LEMMA Overlaid ==
    ASSUME NEW w, Good(w), NEW v, NEW at \in 0 .. MaxSize, NEW s \in Seq(Byte), s # <<>>,
           Overlays(w, at, s, v)
    PROVE  BytesIn(v) = Posix!Overlay(BytesIn(w), at, s)
  <1> DEFINE size == w.row.size
             n == Len(s)
             end == Grown(at, n, size)
             b == BytesIn(w)
  <1>1. size \in 0 .. MaxSize /\ n \in Nat /\ n # 0 /\ MaxSize \in Nat /\ w.row \in Row
    BY GoodTypes, HandlesAssumption
  <1>2. v.row.size = end /\ end \in Nat
    BY <1>1 DEF Row, Grown, Overlays
  <1>3. Len(b) = size /\ \A k \in 1 .. size : b[k] = Seen(w, k - 1)
    BY <1>1 DEF BytesIn
  <1>4. \A k \in 0 .. MaxSize - 1 : size <= k => Seen(w, k) = 0
    BY DEF Good
  <1>0. /\ v.row.size <= MaxSize
        /\ \A k \in 0 .. MaxSize - 1 :
              Seen(v, k) = IF at <= k /\ k < at + Len(s) THEN s[k - at + 1] ELSE Seen(w, k)
    BY DEF Overlays
  <1> HIDE DEF size, n, b, end
  <1>5. ASSUME NEW k \in 1 .. end
        PROVE  Seen(v, k - 1) = IF k > at /\ k <= at + n THEN s[k - at]
                                ELSE IF k <= size THEN b[k] ELSE 0
    <2>1. k - 1 \in 0 .. MaxSize - 1 /\ k \in Nat
      BY <1>0, <1>1, <1>2
    <2>2. (k - 1) - at + 1 = k - at
      BY <1>1, <2>1
    <2>3. at <= k - 1 <=> k > at
      BY <1>1, <2>1
    <2>4. k - 1 < at + n <=> k <= at + n
      BY <1>1, <2>1
    <2>5. Seen(v, k - 1) = IF k > at /\ k <= at + n THEN s[k - at] ELSE Seen(w, k - 1)
      BY <1>0, <2>1, <2>2, <2>3, <2>4 DEF n
    <2>6. k <= size => Seen(w, k - 1) = b[k]
      BY <1>1, <1>3, <2>1
    <2>7. ~(k <= size) => Seen(w, k - 1) = 0
      <3>1. ~(k <= size) => size <= k - 1
        BY <1>1, <2>1
      <3> QED
        BY <1>4, <2>1, <3>1
    <2> QED
      BY <2>5, <2>6, <2>7
  <1>6. BytesIn(v) = [k \in 1 .. end |-> IF k > at /\ k <= at + n THEN s[k - at]
                                         ELSE IF k <= size THEN b[k] ELSE 0]
    BY <1>2, <1>5 DEF BytesIn
  <1>7. end = IF at + n > size THEN at + n ELSE size
    BY <1>1 DEF end, Grown
  <1> QED
    BY <1>3, <1>6, <1>7 DEF Posix!Overlay, n, b

\* What is written is a sequence of bytes.
LEMMA StringsAre ==
    ASSUME NEW s \in Strings
    PROVE  s \in Seq(Byte) /\ Len(s) \in Nat /\ Len(s) # 0
  <1>1. PICK n \in 1 .. MaxCall : s \in [1 .. n -> Byte]
    BY DEF Strings
  <1>2. n \in Nat /\ n # 0
    BY <1>1, HandlesAssumption
  <1> QED
    BY <1>1, <1>2

\* What the program sees of a write of s, or of the beginning of one.
LEMMA PutShows ==
    ASSUME HInv, Habits = {}, NEW u \in Users, NEW s \in Seq(Byte), NEW p \in Positions, MayWrite(u, p),
           NEW v, WriteOf(World(u), s, p, v), v.f.pos <= MaxSize,
           Commit(u, v), Moved(u, p, v, Len(s))
    PROVE  HInv' /\ Posix!MayWrite(u) /\ Posix!Put(u, s, p)
  <1> DEFINE i == file[u].ino
             w == World(u)
             n == Len(s)
             append == "APPEND" \in w.f.flags
             at == Where(w, p)
             o == IF p # Here THEN offset[u] ELSE IF append THEN v.row.size ELSE offset[u] + n
  <1>1. IsOpen(u) /\ CanWrite(file[u].flags) /\ MayPass(u, p)
    BY DEF MayWrite
  <1>2. /\ i \in Inodes /\ Good(w) /\ w.f = file[u] /\ w.row = table[i] /\ w.data = data[i] /\ w.got = <<>>
        /\ Bytes(i) = BytesIn(w) /\ Contents[i] = FileOf(Bytes(i), w.row)
        /\ Bytes(i) \in Seq(Byte) /\ Len(Bytes(i)) = w.row.size
        /\ Descs[u] = DescOf(w.f, offset[u]) /\ Posix!IsOpen(u) /\ Posix!BytesOf(u) = Bytes(i)
    BY <1>1, BytesAre
  <1>3. p \in {Here} \cup 0 .. MaxSize /\ n \in Nat
    BY DEF Positions
  <1>a. CanWrite(w.f.flags)
    BY <1>1, <1>2
  <1> HIDE DEF w, i
  <1>4. /\ Good(v) /\ v.f.ino = w.f.ino /\ v.f.flags = w.f.flags /\ v.f.way = w.f.way
        /\ v.f.pos = at + n /\ Overlays(w, at, s, v)
    BY DEF WriteOf, w
  <1>c. v.row = [w.row EXCEPT !.size = Grown(at, n, @)]
    BY <1>4 DEF Overlays
  <1>5. /\ offset[u] \in 0 .. MaxSize
        /\ w.f.way \in {"here", "at"} /\ (w.f.way = "here" => w.f.pos = offset[u])
        /\ (w.f.way = "here" => p = Here) /\ (w.f.way = "at" => p # Here)
    BY <1>1, <1>2, <1>3, WaysAre DEF HInv, Held, w
  <1>6. /\ v.f.pos \in 0 .. MaxSize /\ w.row.size \in 0 .. MaxSize /\ w.f.pos \in 0 .. MaxSize
        /\ w.row \in Row /\ v.row.size \in 0 .. MaxSize /\ MaxSize \in Nat
    <2>1. v.row.size \in 0 .. MaxSize /\ v.f.pos \in 0 .. MaxSize
      BY <1>4, GoodTypes
    <2>2. w.row.size \in 0 .. MaxSize /\ w.f.pos \in 0 .. MaxSize /\ w.row \in Row
      BY <1>2, GoodTypes
    <2> QED
      BY <2>1, <2>2, HandlesAssumption
  <1>7. at \in 0 .. MaxSize /\ v.row.size = Grown(at, n, w.row.size) /\ at + n <= MaxSize
    <2>1. at \in 0 .. MaxSize
      BY <1>3, <1>6 DEF Here, Where
    <2>2. at + n <= MaxSize
      BY <1>4
    <2> HIDE DEF at
    <2>3. v.row.size = Grown(at, n, w.row.size)
      BY <1>6, <1>c DEF Row
    <2> QED
      BY <2>1, <2>2, <2>3
  <1>9. offset' = [offset EXCEPT ![u] = o]
    BY <1>4 DEF Moved
  <1>11. p = Here => o = at + n
    <2>1. p = Here => w.f.pos = offset[u]
      BY <1>5
    <2>2. append => v.row.size = at + n
      <3>1. append => at = w.row.size
        BY DEF Where
      <3> HIDE DEF at
      <3> QED
        BY <1>3, <1>6, <1>7, <3>1 DEF Grown
    <2>3. p = Here /\ ~append => at = w.f.pos
      BY DEF Where
    <2> HIDE DEF at, append
    <2> QED
      BY <2>1, <2>2, <2>3
  <1>12. o \in 0 .. MaxSize /\ (v.f.way = "here" => v.f.pos = o)
    <2>1. p = Here => o = v.f.pos
      BY <1>4, <1>11
    <2>2. p # Here => o = offset[u]
      OBVIOUS
    <2> HIDE DEF o
    <2> QED
      BY <1>4, <1>5, <1>6, <2>1, <2>2
  <1>13. \A x \in Users : x # u /\ IsOpen(x) => file[x].ino # i
    BY <1>1, OthersAre DEF i
  <1>14. v.f.ino = i /\ (IsOpen(u) => file[u].ino = i) /\ v.f.way \in {"here", "at"}
    BY <1>2, <1>4, <1>5 DEF i
  <1> HIDE DEF at
  <1>15. BytesIn(v) = IF s = <<>> THEN BytesIn(w) ELSE Posix!Overlay(BytesIn(w), at, s)
    <2>1. CASE s # <<>>
      BY <1>2, <1>4, <1>7, <2>1, Overlaid
    <2>2. CASE s = <<>>
      <3>1. n = 0
        BY <2>2
      <3>2. v.row.size = w.row.size
        BY <1>7, <3>1 DEF Grown
      <3>3. \A k \in 0 .. MaxSize - 1 : Seen(v, k) = IF at <= k /\ k < at + n THEN s[k - at + 1] ELSE Seen(w, k)
        BY <1>4 DEF Overlays
      <3> HIDE DEF n
      <3>4. \A k \in 0 .. MaxSize - 1 : Seen(v, k) = Seen(w, k)
        BY <1>7, <3>1, <3>3
      <3> QED
        BY <1>2, <2>2, <3>2, <3>4, SameBytes
    <2> QED
      BY <2>1, <2>2
  <1> DEFINE b == IF s = <<>> THEN Bytes(i) ELSE Posix!Overlay(Bytes(i), at, s)
  <1>16. FileOf(BytesIn(v), v.row) = [Contents[i] EXCEPT !.bytes = b]
    <2>1. v.row.links = w.row.links /\ v.row.perm = w.row.perm
      BY <1>6, <1>c DEF Row
    <2>2. FileOf(BytesIn(v), v.row) = [bytes |-> BytesIn(v), links |-> w.row.links, perm |-> w.row.perm]
      BY <2>1 DEF FileOf
    <2>3. Contents[i] = [bytes |-> Bytes(i), links |-> w.row.links, perm |-> w.row.perm]
      BY <1>2 DEF FileOf
    <2>4. BytesIn(v) = b
      BY <1>2, <1>15
    <2> HIDE DEF b
    <2> QED
      BY <2>2, <2>3, <2>4
  <1>17. Descs[u].offset = offset[u] /\ Descs[u].ino = i /\ Descs[u].flags = w.f.flags
    BY <1>2 DEF DescOf, i
  <1>18. at = Posix!Where(u, p)
    BY <1>2, <1>5, <1>17 DEF at, Where, Posix!Where, Posix!Start, Posix!Here, Here
  <1>19. DescOf(v.f, o) = [Descs[u] EXCEPT !.offset = o]
    BY <1>2, <1>4 DEF DescOf
  <1>20. o = IF p = Here THEN at + n ELSE Descs[u].offset
    BY <1>11, <1>17
  <1>21. Descs[u].flags \cap {"WRONLY", "RDWR"} # {}
    BY <1>a, <1>17 DEF CanWrite
  <1> HIDE DEF o, b
  <1>22. Commits(u, i, v, o)
    BY <1>4, <1>9, <1>12, <1>13, <1>14 DEF Commits
  <1>23. HInv'
    BY <1>2, <1>12, <1>22, CommitKeeps
  <1>24. /\ Contents' = [Contents EXCEPT ![i] = FileOf(BytesIn(v), v.row)]
         /\ Descs' = [Descs EXCEPT ![u] = DescOf(v.f, o)]
    BY <1>2, <1>12, <1>22, <1>23, CommitShows
  <1>25. Contents' = [Contents EXCEPT ![Descs[u].ino].bytes = IF s = <<>> THEN @ ELSE Posix!Overlay(@, at, s)]
    <2>1. Contents[i].bytes = Bytes(i)
      BY <1>2 DEF FileOf
    <2> QED
      BY <1>16, <1>17, <1>24, <2>1 DEF b
  <1>26. Descs' = [Descs EXCEPT ![u].offset = IF p = Here THEN at + n ELSE @]
    BY <1>19, <1>20, <1>24
  <1>27. Posix!MayWrite(u)
    BY <1>2, <1>21 DEF Posix!MayWrite
  <1>28. Posix!Put(u, s, p)
    BY <1>7, <1>18, <1>25, <1>26 DEF Posix!Put, Posix!Here, Here
  <1> QED
    BY <1>23, <1>27, <1>28

\* write is the write of node, whether its last flush works or not.
LEMMA WriteActs ==
    ASSUME HInv, Habits = {}, NEW u \in Users, NEW s \in Strings, NEW p \in Positions, Write(u, s, p)
    PROVE  HInv' /\ Posix!Write(u, s, p)
  <1> DEFINE w == WriteCall(World(u), s, p)
  <1>1. /\ MayWrite(u, p) /\ IsOpen(u) /\ CanWrite(file[u].flags) /\ w.f.pos <= MaxSize
        /\ (Commit(u, w) \/ Commit(u, Flush(w))) /\ Moved(u, p, w, Len(s)) /\ Quiet
    BY DEF Write, MayWrite
  <1>2. s \in Seq(Byte) /\ p \in {Here} \cup 0 .. MaxSize
    BY StringsAre DEF Positions
  <1>3. Good(World(u)) /\ CanWrite(World(u).f.flags)
    BY <1>1, BytesAre
  <1>4. WriteOf(World(u), s, p, w) /\ WriteOf(World(u), s, p, Flush(w))
    BY <1>1, <1>2, <1>3, WriteCallIs
  <1> HIDE DEF w
  <1>5. PICK v \in {w, Flush(w)} : Commit(u, v)
    BY <1>1
  <1>6. WriteOf(World(u), s, p, v) /\ v.f.pos = w.f.pos /\ v.row = w.row /\ v.f.flags = w.f.flags
    BY <1>4, GoodFlush DEF WriteOf
  <1>7. v.f.pos <= MaxSize /\ Moved(u, p, v, Len(s))
    BY <1>1, <1>6 DEF Moved
  <1>8. HInv' /\ Posix!MayWrite(u) /\ Posix!Put(u, s, p)
    BY <1>1, <1>2, <1>5, <1>6, <1>7, PutShows
  <1> QED
    BY <1>1, <1>8 DEF Posix!Write, Posix!Quiet, Quiet

\* A write that a flush ends has written the beginning.
LEMMA WriteRejectsActs ==
    ASSUME HInv, Habits = {}, NEW u \in Users, NEW s \in Strings, NEW p \in Positions, WriteRejects(u, s, p)
    PROVE  HInv' /\ Posix!WriteRejects(u, s, p)
  <1>1. PICK k \in 0 .. Len(s) - 1 :
           LET w == WriteAt(World(u), SubSeq(s, 1, k), p)
           IN w.f.pos <= MaxSize /\ Commit(u, w) /\ Moved(u, p, w, k)
    BY DEF WriteRejects
  <1> DEFINE t == SubSeq(s, 1, k)
             v == WriteAt(World(u), t, p)
  <1>2. MayWrite(u, p) /\ IsOpen(u) /\ CanWrite(file[u].flags) /\ Quiet
    BY DEF WriteRejects, MayWrite
  <1>3. s \in Seq(Byte) /\ p \in {Here} \cup 0 .. MaxSize
    BY StringsAre DEF Positions
  <1>4. t \in Seq(Byte) /\ Len(t) = k
    BY <1>3
  <1>5. Good(World(u)) /\ CanWrite(World(u).f.flags)
    BY <1>2, BytesAre
  <1>6. v.f.pos <= MaxSize /\ Commit(u, v) /\ Moved(u, p, v, Len(t))
    BY <1>1, <1>4
  <1> HIDE DEF t
  <1>7. WriteOf(World(u), t, p, v)
    BY <1>3, <1>4, <1>5, <1>6, WriteAtIs
  <1> HIDE DEF v
  <1>8. HInv' /\ Posix!MayWrite(u) /\ Posix!Put(u, t, p)
    BY <1>2, <1>4, <1>6, <1>7, PutShows
  <1> QED
    BY <1>2, <1>8 DEF Posix!WriteRejects, Posix!Quiet, Quiet, t

-----------------------------------------------------------------------------
(* Steps that close a descriptor *)

\* Nobody holds bytes of the file back.
Clean(i) == \A u \in Users : IsOpen(u) /\ file[u].ino = i => ~file[u].dirty
BytesOn(d, size) == [k \in 1 .. size |-> d[k - 1]]

\* The bytes of a file that nobody holds back.
LEMMA CleanBytes ==
    HInv => \A i \in Inodes : Clean(i) => Bytes(i) = BytesOn(data[i], table[i].size)
  <1> SUFFICES ASSUME HInv, NEW i \in Inodes, Clean(i)
               PROVE  Bytes(i) = BytesOn(data[i], table[i].size)
    OBVIOUS
  <1>1. \A k : Byt(i, k) = data[i][k]
    BY BytClosed DEF Clean
  <1> QED
    BY <1>1 DEF Bytes, BytesOn

\* The same in the next state.
LEMMA CleanBytesNext ==
    HInv' => (\A i \in Inodes : Clean(i) => Bytes(i) = BytesOn(data[i], table[i].size))'
  BY CleanBytes, PTL

\* Readers hold nothing back.
LEMMA ReadersClean ==
    ASSUME HInv, NEW u \in Users, IsOpen(u), ~CanWrite(file[u].flags)
    PROVE  ~file[u].dirty
  BY BytesAre DEF Good

\* A step on file i other than a call on a descriptor that stays open.
Settles(i, row, d) ==
    /\ RowOk(row) /\ d \in Data /\ \A k \in 0 .. MaxSize - 1 : row.size <= k => d[k] = 0
    /\ table' = [table EXCEPT ![i] = row] /\ data' = [data EXCEPT ![i] = d]
    /\ file' \in [Users -> Handle] /\ offset' \in [Users -> 0 .. MaxSize]
    /\ \A u \in Users :
          \/ /\ file'[u] = file[u] /\ offset'[u] = offset[u]
             /\ IsOpen(u) /\ file[u].ino = i => /\ ~CanWrite(file[u].flags) /\ row.links # 0
                                                /\ row.size = table[i].size /\ d = data[i]
          \/ IsOpen(u) /\ file[u].ino = i /\ file'[u] = Closed /\ offset'[u] = 0

\* Such a step keeps the invariant, and changes one file.
LEMMA SettlesKeeps ==
    ASSUME HInv, NEW i \in Inodes, NEW row, NEW d, Settles(i, row, d)
    PROVE  /\ HInv'
           /\ Contents' = [Contents EXCEPT ![i] = FileOf(BytesOn(d, row.size), row)]
  <1>1. /\ RowOk(row) /\ d \in Data /\ \A k \in 0 .. MaxSize - 1 : row.size <= k => d[k] = 0
        /\ table' = [table EXCEPT ![i] = row] /\ data' = [data EXCEPT ![i] = d]
        /\ file' \in [Users -> Handle] /\ offset' \in [Users -> 0 .. MaxSize]
    BY DEF Settles
  <1>2. \A u \in Users :
          \/ /\ file'[u] = file[u] /\ offset'[u] = offset[u]
             /\ IsOpen(u) /\ file[u].ino = i => /\ ~CanWrite(file[u].flags) /\ row.links # 0
                                                /\ row.size = table[i].size /\ d = data[i]
          \/ IsOpen(u) /\ file[u].ino = i /\ file'[u] = Closed /\ offset'[u] = 0
    BY DEF Settles
  <1>3. /\ Disk' /\ table'[i] = row /\ data'[i] = d
        /\ \A j \in Inodes : j # i => table'[j] = table[j] /\ data'[j] = data[j]
    BY <1>1, DiskKept DEF HInv
  <1>4. \A u \in Users : IsOpen(u)' => /\ IsOpen(u) /\ file'[u] = file[u] /\ offset'[u] = offset[u]
    BY <1>2 DEF IsOpen
  <1>5. ASSUME NEW u \in Users PROVE Held(u)'
    <2>1. CASE ~IsOpen(u)'
      <3>1. CASE IsOpen(u)
        BY <1>2, <2>1, <3>1 DEF IsOpen, Held
      <3>2. CASE ~IsOpen(u)
        BY <1>2, <2>1, <3>2 DEF Held, HInv
      <3> QED
        BY <3>1, <3>2
    <2>2. CASE IsOpen(u)'
      <3>1. /\ IsOpen(u) /\ file'[u] = file[u] /\ offset'[u] = offset[u]
            /\ file[u].ino \in Inodes /\ Good(World(u)) /\ file[u].way \in {"here", "at"}
            /\ (file[u].way = "here" => file[u].pos = offset[u])
        BY <1>4, <2>2 DEF Held, HInv
      <3>2. World(u)' = [f |-> file[u], row |-> table'[file[u].ino], data |-> data'[file[u].ino], got |-> <<>>]
        BY <3>1 DEF World
      <3>3. CASE file[u].ino # i
        <4>1. World(u)' = World(u)
          BY <1>3, <3>1, <3>2, <3>3 DEF World
        <4> QED
          BY <2>2, <3>1, <4>1 DEF Held
      <3>4. CASE file[u].ino = i
        <4>1. ~CanWrite(file[u].flags) /\ row.links # 0 /\ row.size = table[i].size /\ d = data[i]
          BY <1>2, <2>2, <3>1, <3>4 DEF IsOpen
        <4>2. World(u)' = [f |-> file[u], row |-> row, data |-> d, got |-> <<>>]
          BY <1>3, <3>2, <3>4
        <4>3. /\ World(u).f = file[u] /\ World(u).row = table[i] /\ World(u).data = data[i]
          BY <3>4 DEF World
        <4>4. file[u] \in Handle /\ row \in Row /\ row.links \in 1 .. MaxLinks
          BY <1>1, <4>1, HandlesAssumption DEF HInv, RowOk, Row
        <4>5. /\ World(u)' \in Worlds /\ World(u)'.f = file[u] /\ World(u)'.row = row
              /\ World(u)'.data = d
          BY <1>1, <4>2, <4>4 DEF Worlds
        <4>6. Good(World(u)')
          BY <3>1, <4>1, <4>3, <4>4, <4>5, ReaderKept
        <4> QED
          BY <2>2, <3>1, <4>6 DEF Held
      <3> QED
        BY <3>3, <3>4
    <2> QED
      BY <2>1, <2>2
  <1>6. Alone'
    BY <1>4 DEF HInv, Alone
  <1>7. HInv'
    BY <1>1, <1>3, <1>5, <1>6 DEF HInv
  <1>8. Clean(i)'
    <2> SUFFICES ASSUME NEW u \in Users, IsOpen(u)', file'[u].ino = i PROVE ~file'[u].dirty
      BY DEF Clean
    <2>1. IsOpen(u) /\ file'[u] = file[u] /\ ~CanWrite(file[u].flags)
      BY <1>2, <1>4 DEF IsOpen
    <2> QED
      BY <2>1, ReadersClean
  <1>9. Bytes(i)' = BytesOn(d, row.size)
    BY <1>3, <1>7, <1>8, CleanBytesNext
  <1>10. Contents'[i] = FileOf(BytesOn(d, row.size), row)
    BY <1>3, <1>9 DEF Contents, FileOf
  <1>11. ASSUME NEW j \in Inodes, j # i PROVE Contents'[j] = Contents[j]
    <2>1. table'[j] = table[j] /\ data'[j] = data[j]
      BY <1>3, <1>11
    <2>2. \A u \in Users : file'[u].ino = j <=> file[u].ino = j
      BY <1>2, <1>11, ClosedIs
    <2>3. Openers(j)' = Openers(j)
      BY <2>2 DEF Openers
    <2>4. \A u \in Openers(j) : file'[u] = file[u]
      BY <1>2, <1>11 DEF Openers
    <2>5. Bytes(j)' = Bytes(j)
      BY <2>1, <2>3, <2>4, BytesKept
    <2> QED
      BY <2>1, <2>5 DEF Contents
  <1>12. Contents' = [j \in Inodes |-> Contents'[j]] /\ Contents = [j \in Inodes |-> Contents[j]]
    BY DEF Contents
  <1> QED
    BY <1>7, <1>10, <1>11, <1>12

\* The rows and the data on the disk.
LEMMA RowsOk ==
    ASSUME HInv, NEW i \in Inodes
    PROVE  /\ RowOk(table[i]) /\ table[i] \in Row /\ data[i] \in Data
           /\ \A k \in 0 .. MaxSize - 1 : table[i].size <= k => data[i][k] = 0
           /\ table = [table EXCEPT ![i] = table[i]] /\ data = [data EXCEPT ![i] = data[i]]
  BY DEF HInv, Disk, RowOk

\* What a close leaves of a descriptor.
LEMMA FreeDescs ==
    ASSUME NEW u \in Users, HInv, Free(u)
    PROVE  /\ Descs' = [Descs EXCEPT ![u] = Posix!Closed]
           /\ file' \in [Users -> Handle] /\ offset' \in [Users -> 0 .. MaxSize]
           /\ file'[u] = Closed /\ offset'[u] = 0
           /\ \A v \in Users : v # u => file'[v] = file[v] /\ offset'[v] = offset[v]
  <1>1. /\ file' \in [Users -> Handle] /\ offset' \in [Users -> 0 .. MaxSize]
        /\ file'[u] = Closed /\ offset'[u] = 0
        /\ \A v \in Users : v # u => file'[v] = file[v] /\ offset'[v] = offset[v]
    BY ClosedIs, HandlesAssumption DEF Free, HInv
  <1>2. Descs'[u] = Posix!Closed /\ \A v \in Users : v # u => Descs'[v] = Descs[v]
    BY <1>1, ClosedIs DEF Descs, Posix!Closed
  <1>3. Descs' = [v \in Users |-> Descs'[v]] /\ Descs = [v \in Users |-> Descs[v]]
    BY DEF Descs
  <1> QED
    BY <1>1, <1>2, <1>3

\* What a close leaves on the disk.
LEMMA CloseSettles ==
    ASSUME HInv, NEW u \in Users, IsOpen(u), Free(u), NEW d \in Data,
           data' = [data EXCEPT ![file[u].ino] = d],
           d = Flush(World(u)).data \/ d = data[file[u].ino]
    PROVE  Settles(file[u].ino, table[file[u].ino], d)
  <1> DEFINE i == file[u].ino
             w == World(u)
  <1>1. /\ i \in Inodes /\ Good(w) /\ w.f = file[u] /\ w.row = table[i] /\ w.data = data[i]
    BY BytesAre
  <1>2. RowOk(table[i]) /\ table = [table EXCEPT ![i] = table[i]] /\ table' = table
    BY <1>1, RowsOk DEF Free
  <1>3. \A k \in 0 .. MaxSize - 1 : table[i].size <= k => d[k] = 0
    <2>1. \A k \in 0 .. MaxSize - 1 : table[i].size <= k => data[i][k] = 0
      BY <1>1, RowsOk
    <2>2. \A k \in 0 .. MaxSize - 1 : table[i].size <= k => Seen(w, k) = 0
      BY <1>1 DEF Good
    <2>3. \A k \in 0 .. MaxSize - 1 : Flush(w).data[k] = Seen(w, k)
      BY <1>1, GoodFlush
    <2> QED
      BY <2>1, <2>2, <2>3
  <1>4. ASSUME NEW v \in Users, v # u, IsOpen(v), file[v].ino = i
        PROVE  ~CanWrite(file[v].flags) /\ table[i].links # 0 /\ d = data[i]
    <2>1. ~CanWrite(file[v].flags) /\ ~file[u].dirty
      BY <1>4, OthersAre
    <2>2. Flush(w) = w
      BY <1>1, <2>1 DEF Flush
    <2>3. table[i].links # 0
      BY <1>1, HandlesAssumption DEF Good
    <2> QED
      BY <1>1, <2>1, <2>2, <2>3
  <1>5. /\ file' \in [Users -> Handle] /\ offset' \in [Users -> 0 .. MaxSize]
        /\ file'[u] = Closed /\ offset'[u] = 0
        /\ \A v \in Users : v # u => file'[v] = file[v] /\ offset'[v] = offset[v]
    BY FreeDescs
  <1> HIDE DEF w
  <1>6. \A v \in Users :
          \/ /\ file'[v] = file[v] /\ offset'[v] = offset[v]
             /\ IsOpen(v) /\ file[v].ino = i => /\ ~CanWrite(file[v].flags) /\ table[i].links # 0
                                                /\ table[i].size = table[i].size /\ d = data[i]
          \/ IsOpen(v) /\ file[v].ino = i /\ file'[v] = Closed /\ offset'[v] = 0
    BY <1>4, <1>5
  <1> HIDE DEF i
  <1>7. Settles(i, table[i], d)
    BY <1>2, <1>3, <1>5, <1>6 DEF Settles, i
  <1> QED
    BY <1>7 DEF i

\* close is the close of node: the flush shows nobody another byte.
LEMMA CloseActs ==
    ASSUME HInv, NEW u \in Users, Close(u)
    PROVE  HInv' /\ Posix!Close(u)
  <1> DEFINE i == file[u].ino
             w == World(u)
             d == Flush(w).data
  <1>1. IsOpen(u) /\ Free(u) /\ data' = [data EXCEPT ![i] = d]
    BY DEF Close
  <1>2. /\ i \in Inodes /\ Good(w) /\ w.row = table[i]
        /\ Bytes(i) = BytesIn(w) /\ Contents[i] = FileOf(Bytes(i), w.row) /\ Posix!IsOpen(u)
    BY <1>1, BytesAre
  <1>3. Good(Flush(w)) /\ \A k \in 0 .. MaxSize - 1 : d[k] = Seen(w, k)
    BY <1>2, GoodFlush
  <1>4. d \in Data
    BY <1>3, GoodTypes
  <1>5. Settles(i, table[i], d)
    BY <1>1, <1>4, CloseSettles
  <1>6. BytesOn(d, w.row.size) = BytesIn(w)
    <2>1. w.row.size \in 0 .. MaxSize /\ MaxSize \in Nat
      BY <1>2, GoodTypes, HandlesAssumption
    <2>2. \A k \in 1 .. w.row.size : k - 1 \in 0 .. MaxSize - 1
      BY <2>1
    <2>3. \A k \in 1 .. w.row.size : d[k - 1] = Seen(w, k - 1)
      BY <1>3, <2>2
    <2> HIDE DEF d, w
    <2> QED
      BY <2>3 DEF BytesOn, BytesIn
  <1> HIDE DEF d, w, i
  <1>7. HInv' /\ Contents' = [Contents EXCEPT ![i] = FileOf(BytesOn(d, table[i].size), table[i])]
    BY <1>2, <1>5, SettlesKeeps
  <1>8. Contents' = Contents
    BY <1>2, <1>6, <1>7, DescsAre
  <1>9. Descs' = [Descs EXCEPT ![u] = Posix!Closed]
    BY <1>1, FreeDescs
  <1> QED
    BY <1>1, <1>2, <1>7, <1>8, <1>9 DEF Free, Quiet, Posix!Close, Posix!Quiet

\* A close that rejects may lose what the buffer held, and nothing else.
LEMMA CloseRejectsActs ==
    ASSUME HInv, NEW u \in Users, CloseRejects(u)
    PROVE  HInv' /\ Posix!CloseRejects(u)
  <1> DEFINE i == file[u].ino
             d == data[i]
             size == table[i].size
             s == BytesOn(d, size)
  <1>1. IsOpen(u) /\ Free(u) /\ data' = data
    BY DEF CloseRejects
  <1>2. /\ i \in Inodes /\ Good(World(u)) /\ World(u).row = table[i]
        /\ Contents[i] = FileOf(Bytes(i), table[i]) /\ Len(Bytes(i)) = size
        /\ Posix!IsOpen(u) /\ Posix!BytesOf(u) = Bytes(i) /\ Descs[u].ino = i
    <2> DEFINE w == World(u)
    <2>1. /\ i \in Inodes /\ Good(w) /\ w.f = file[u] /\ w.row = table[i] /\ w.data = data[i] /\ w.got = <<>>
          /\ Bytes(i) = BytesIn(w) /\ Contents[i] = FileOf(Bytes(i), w.row)
          /\ Bytes(i) \in Seq(Byte) /\ Len(Bytes(i)) = w.row.size
          /\ Descs[u] = DescOf(w.f, offset[u]) /\ Posix!IsOpen(u) /\ Posix!BytesOf(u) = Bytes(i)
      BY <1>1, BytesAre
    <2>2. Descs[u].ino = i
      BY <2>1 DEF DescOf
    <2> QED
      BY <2>1, <2>2
  <1>3. d \in Data /\ data = [data EXCEPT ![i] = d] /\ size \in 0 .. MaxSize /\ MaxSize \in Nat
        /\ table[i] \in Row
    BY <1>2, RowsOk, HandlesAssumption DEF RowOk, Row
  <1>4. Settles(i, table[i], d)
    BY <1>1, <1>3, CloseSettles
  <1>5. s \in [1 .. size -> Byte]
    <2>1. \A k \in 1 .. size : k - 1 \in 0 .. MaxSize - 1
      BY <1>3
    <2>2. \A k \in 1 .. size : d[k - 1] \in Byte
      BY <1>3, <2>1 DEF Data
    <2> QED
      BY <2>2 DEF BytesOn
  <1> HIDE DEF i
  <1>6. HInv' /\ Contents' = [Contents EXCEPT ![i] = FileOf(s, table[i])]
    BY <1>2, <1>4, SettlesKeeps
  <1>7. FileOf(s, table[i]) = [Contents[i] EXCEPT !.bytes = s]
    <2> HIDE DEF s
    <2> QED
      BY <1>2 DEF FileOf
  <1>8. Contents' = [Contents EXCEPT ![Descs[u].ino].bytes = s]
    BY <1>2, <1>6, <1>7
  <1>9. Descs' = [Descs EXCEPT ![u] = Posix!Closed]
    BY <1>1, FreeDescs
  <1> HIDE DEF s
  <1> QED
    BY <1>1, <1>2, <1>5, <1>6, <1>8, <1>9 DEF Free, Quiet, Posix!CloseRejects, Posix!Quiet

-----------------------------------------------------------------------------
(* Opens *)

\* A closed descriptor is closed for node.
LEMMA ClosedDesc ==
    ASSUME HInv, NEW u \in Users, ~IsOpen(u)
    PROVE  Descs[u] = Posix!Closed /\ ~Posix!IsOpen(u)
  <1>1. file[u] = Closed /\ offset[u] = 0
    BY DEF IsOpen, HInv, Held
  <1>2. Descs[u] = Posix!Closed
    BY <1>1, ClosedIs DEF Descs, Posix!Closed
  <1> QED
    BY <1>2 DEF Posix!IsOpen

\* Nobody else writes to a file that is opened, linked or unlinked.
LEMMA NoWritersThen ==
    ASSUME HInv, NEW i \in Inodes, Writers(i) = {}
    PROVE  /\ \A u \in Users : IsOpen(u) /\ file[u].ino = i =>
                ~CanWrite(file[u].flags) /\ ~file[u].dirty /\ table[i].links # 0
           /\ Clean(i) /\ Contents[i] = FileOf(BytesOn(data[i], table[i].size), table[i])
  <1>1. ASSUME NEW u \in Users, IsOpen(u), file[u].ino = i
        PROVE  ~CanWrite(file[u].flags) /\ ~file[u].dirty /\ table[i].links # 0
    <2>1. ~CanWrite(file[u].flags)
      BY <1>1, OpenersIs DEF Writers
    <2>2. ~file[u].dirty
      BY <1>1, <2>1, ReadersClean
    <2>3. Good(World(u)) /\ World(u).row = table[i]
      BY <1>1, WorldIs DEF HInv, Held
    <2>4. table[i].links # 0
      BY <2>3, HandlesAssumption DEF Good
    <2> QED
      BY <2>1, <2>2, <2>4
  <1>2. Clean(i)
    BY <1>1 DEF Clean
  <1>3. Bytes(i) = BytesOn(data[i], table[i].size)
    BY <1>2, CleanBytes
  <1>4. Contents[i] = FileOf(Bytes(i), table[i])
    BY DEF Contents, FileOf
  <1> QED
    BY <1>1, <1>2, <1>3, <1>4

\* The row that an open finds or makes.
RowFor(i) == IF table[i].links = 0 THEN [size |-> 0, links |-> 1, perm |-> 0] ELSE table[i]

\* It is a row of a file with a name.
LEMMA RowForIs ==
    ASSUME HInv, NEW i \in Inodes
    PROVE  /\ RowFor(i) \in Row /\ RowFor(i).size <= MaxSize /\ RowFor(i).links \in 1 .. MaxLinks
           /\ RowFor(i).size = table[i].size /\ RowFor(i).perm = table[i].perm
           /\ RowFor(i).links = IF table[i].links = 0 THEN 1 ELSE table[i].links
  <1>1. RowOk(table[i])
    BY RowsOk
  <1>2. MaxLinks \in Nat \ {0} /\ MaxSize \in Nat
    BY HandlesAssumption
  <1>3. CASE table[i].links = 0
    BY <1>1, <1>2, <1>3 DEF RowOk, RowFor, Row, Perm, NoInode
  <1>4. CASE table[i].links # 0
    BY <1>1, <1>2, <1>4 DEF RowOk, RowFor, Row
  <1> QED
    BY <1>3, <1>4

\* open is the open of node, its truncation included.
LEMMA OpenActs ==
    ASSUME HInv, Habits = {}, NEW u \in Users, NEW i \in Inodes, NEW mode \in OpenModes, NEW way \in Ways,
           Open(u, i, mode, way)
    PROVE  HInv' /\ Posix!Open(u, i, FlagsOf[mode])
  <1> DEFINE flags == FlagsOf[mode]
             row == RowFor(i)
             w == Opened(i, flags, way, row, data[i])
             v == IF "TRUNC" \in flags THEN SetSize(w, 0) ELSE w
             c == Contents[i]
  <1>1. /\ ~IsOpen(u) /\ MayOpen(i, flags) /\ (table[i].links = 0 => "CREAT" \in flags)
        /\ Commit(u, v) /\ offset' = [offset EXCEPT ![u] = 0]
    BY DEF Open, RowFor, Opened
  <1>2. /\ flags \in Flags /\ way \in {"here", "at"} /\ i \in Nat
        /\ ("TRUNC" \in flags => CanWrite(flags))
    <2>1. OpenModes \subseteq DOMAIN FlagsOf /\ i \in Nat
      BY HandlesAssumption
    <2>2. flags \in Flags
      BY <2>1 DEF Flags
    <2> QED
      BY <2>1, <2>2, FlagsAre, WaysAre
  <1>3. /\ row \in Row /\ row.size <= MaxSize /\ row.links \in 1 .. MaxLinks
        /\ row.size = table[i].size /\ row.perm = table[i].perm
        /\ row.links = IF table[i].links = 0 THEN 1 ELSE table[i].links
    BY RowForIs
  <1>4. data[i] \in Data /\ \A k \in 0 .. MaxSize - 1 : row.size <= k => data[i][k] = 0
    BY <1>3, RowsOk
  <1>5. Writers(i) = {} /\ (CanWrite(flags) => Openers(i) = {})
    BY <1>1 DEF MayOpen
  <1>6. /\ \A x \in Users : IsOpen(x) /\ file[x].ino = i =>
             ~CanWrite(file[x].flags) /\ ~file[x].dirty /\ table[i].links # 0
        /\ c = FileOf(BytesOn(data[i], table[i].size), table[i])
    BY <1>5, NoWritersThen
  <1>7. \A x \in Users : IsOpen(x) /\ file[x].ino = i => ~CanWrite(flags) /\ "TRUNC" \notin flags
    BY <1>2, <1>5, OpenersIs
  <1> HIDE DEF row, flags
  <1>8. /\ w \in Worlds /\ w.f.ino = i /\ w.f.flags = flags /\ w.f.way = way
        /\ w.f.inode = row /\ w.f.pos = 0 /\ w.f.buf = NoBuf /\ ~w.f.dirty
        /\ w.row = row /\ w.data = data[i]
    <2>1. /\ i \in Nat /\ flags \in Flags /\ way \in {"here", "at", "both"}
          /\ row \in Row /\ data[i] \in Data
      BY <1>2, <1>3, <1>4
    <2> HIDE DEF w
    <2>2. PICK d \in Data : d = data[i]
      BY <2>1
    <2>3. w = Opened(i, flags, way, row, d)
      BY <2>2 DEF w
    <2> QED
      BY <2>1, <2>2, <2>3, OpenedIs
  <1> HIDE DEF w
  <1>9. /\ Good(v) /\ v.f.ino = i /\ v.f.flags = flags /\ v.f.way = way /\ v.f.pos = 0
        /\ v.row = [row EXCEPT !.size = IF "TRUNC" \in flags THEN 0 ELSE @]
        /\ "TRUNC" \notin flags => v.data = data[i]
        /\ \A k \in 0 .. MaxSize - 1 : "TRUNC" \notin flags => Seen(v, k) = data[i][k]
    <2>1. w.f.flags \in Flags /\ w.row.size <= MaxSize /\ w.row.links \in 1 .. MaxLinks
          /\ \A k \in 0 .. MaxSize - 1 : w.row.size <= k => w.data[k] = 0
      BY <1>2, <1>3, <1>4, <1>8
    <2>2. v = IF "TRUNC" \in w.f.flags THEN SetSize(w, 0) ELSE w
      BY <1>8
    <2> HIDE DEF v
    <2>3. /\ Good(v) /\ v.f.ino = w.f.ino /\ v.f.flags = w.f.flags /\ v.f.way = w.f.way
          /\ v.f.pos = 0
          /\ v.row = [w.row EXCEPT !.size = IF "TRUNC" \in w.f.flags THEN 0 ELSE @]
          /\ "TRUNC" \notin w.f.flags => v.data = w.data
          /\ \A k \in 0 .. MaxSize - 1 : "TRUNC" \notin w.f.flags => Seen(v, k) = w.data[k]
      BY <1>8, <2>1, <2>2, TruncatedIs
    <2> QED
      BY <1>8, <2>3
  <1> HIDE DEF v
  <1>10. /\ v.row.size = (IF "TRUNC" \in flags THEN 0 ELSE table[i].size)
         /\ v.row.links = row.links /\ v.row.perm = table[i].perm
    BY <1>3, <1>9 DEF Row
  <1>11. Commits(u, i, v, 0)
    <2>1. \A x \in Users : x # u /\ IsOpen(x) /\ file[x].ino = i =>
             /\ ~CanWrite(file[x].flags) /\ ~CanWrite(v.f.flags)
             /\ v.row.size = table[i].size /\ v.data = data[i]
      BY <1>6, <1>7, <1>9, <1>10
    <2> QED
      BY <1>1, <1>2, <1>9, <2>1 DEF Commits
  <1>12. 0 \in 0 .. MaxSize
    BY HandlesAssumption
  <1>13. HInv'
    BY <1>11, <1>12, CommitKeeps
  <1>14. /\ Contents' = [Contents EXCEPT ![i] = FileOf(BytesIn(v), v.row)]
         /\ Descs' = [Descs EXCEPT ![u] = DescOf(v.f, 0)]
    BY <1>11, <1>12, <1>13, CommitShows
  <1>15. BytesIn(v) = IF "TRUNC" \in flags THEN <<>> ELSE BytesOn(data[i], table[i].size)
    <2>1. CASE "TRUNC" \in flags
      <3>1. BytesIn(v) = [k \in 1 .. 0 |-> Seen(v, k - 1)]
        BY <1>10, <2>1 DEF BytesIn
      <3> QED
        BY <2>1, <3>1, NoBytes
    <2>2. CASE "TRUNC" \notin flags
      <3>1. table[i].size \in 0 .. MaxSize /\ MaxSize \in Nat
        BY RowsOk, HandlesAssumption DEF RowOk, Row
      <3>2. \A k \in 1 .. table[i].size : k - 1 \in 0 .. MaxSize - 1
        BY <3>1
      <3>3. \A k \in 1 .. table[i].size : Seen(v, k - 1) = data[i][k - 1]
        BY <1>9, <2>2, <3>2
      <3> QED
        BY <1>10, <2>2, <3>3 DEF BytesIn, BytesOn
    <2> QED
      BY <2>1, <2>2
  <1>16. c.bytes = BytesOn(data[i], table[i].size) /\ c.links = table[i].links /\ c.perm = table[i].perm
    BY <1>6 DEF FileOf
  <1> HIDE DEF c
  <1>17. FileOf(BytesIn(v), v.row) =
            [bytes |-> IF "TRUNC" \in flags THEN <<>> ELSE c.bytes,
             links |-> IF c.links = 0 THEN 1 ELSE c.links, perm |-> c.perm]
    BY <1>3, <1>10, <1>15, <1>16 DEF FileOf
  <1>18. DescOf(v.f, 0) = [ino |-> i, flags |-> flags, offset |-> 0]
    BY <1>9 DEF DescOf
  <1>19. ~Posix!IsOpen(u)
    BY <1>1, ClosedDesc
  <1>20. c.links > 0 \/ "CREAT" \in flags
    BY <1>1, <1>16, RowsOk DEF RowOk, Row
  <1>21. Posix!Open(u, i, flags)
    BY <1>14, <1>17, <1>18, <1>19, <1>20 DEF Open, Quiet, Posix!Open, Posix!Quiet, c
  <1> QED
    BY <1>13, <1>21 DEF flags

-----------------------------------------------------------------------------
(* Names, and the start *)

\* A step of link or unlink, in terms of Settles.
LEMMA NamesSettle ==
    ASSUME HInv, NEW i \in Inodes, Writers(i) = {}, NEW row, RowOk(row), NEW d \in Data,
           \A k \in 0 .. MaxSize - 1 : row.size <= k => d[k] = 0,
           table' = [table EXCEPT ![i] = row], data' = [data EXCEPT ![i] = d],
           file' = file, offset' = offset,
           Openers(i) # {} => row.links # 0 /\ row.size = table[i].size /\ d = data[i]
    PROVE  /\ HInv' /\ Descs' = Descs
           /\ Contents' = [Contents EXCEPT ![i] = FileOf(BytesOn(d, row.size), row)]
  <1>1. \A u \in Users : IsOpen(u) /\ file[u].ino = i => ~CanWrite(file[u].flags) /\ Openers(i) # {}
    BY NoWritersThen, OpenersIs
  <1>2. file' \in [Users -> Handle] /\ offset' \in [Users -> 0 .. MaxSize]
    BY DEF HInv
  <1>3. Settles(i, row, d)
    BY <1>1, <1>2 DEF Settles
  <1>4. Descs' = Descs
    BY DEF Descs
  <1> QED
    BY <1>3, <1>4, SettlesKeeps

\* Without other habits nobody links or unlinks a file that one writes.
LEMMA MayChangeIs ==
    ASSUME Habits = {}, NEW i \in Inodes, MayChange(i, {})
    PROVE  Writers(i) = {}
  BY DEF MayChange

\* link is the link of node.
LEMMA LinkActs ==
    ASSUME HInv, Habits = {}, NEW i \in Inodes, Link(i)
    PROVE  HInv' /\ Posix!Link(i)
  <1> DEFINE row == [table[i] EXCEPT !.links = @ + 1]
             d == data[i]
             s == BytesOn(d, table[i].size)
             c == Contents[i]
  <1>1. /\ table[i].links \in 1 .. MaxLinks - 1 /\ Writers(i) = {}
        /\ table' = [table EXCEPT ![i] = row] /\ data' = data /\ file' = file /\ offset' = offset
    BY MayChangeIs DEF Link
  <1>2. /\ RowOk(table[i]) /\ table[i] \in Row /\ d \in Data /\ data = [data EXCEPT ![i] = d]
        /\ \A k \in 0 .. MaxSize - 1 : table[i].size <= k => d[k] = 0
    BY RowsOk
  <1>3. /\ row \in Row /\ row.size = table[i].size /\ row.links = table[i].links + 1
        /\ row.perm = table[i].perm
    BY <1>2 DEF Row
  <1>4. RowOk(row) /\ row.links # 0
    BY <1>1, <1>2, <1>3, HandlesAssumption DEF RowOk
  <1>5. c = FileOf(s, table[i])
    BY <1>1, NoWritersThen
  <1>6. /\ HInv' /\ Descs' = Descs
        /\ Contents' = [Contents EXCEPT ![i] = FileOf(BytesOn(d, row.size), row)]
    <2>1. /\ \A k \in 0 .. MaxSize - 1 : row.size <= k => d[k] = 0
          /\ data' = [data EXCEPT ![i] = d] /\ d \in Data /\ d = data[i]
          /\ table' = [table EXCEPT ![i] = row] /\ row.links # 0 /\ row.size = table[i].size
      BY <1>1, <1>2, <1>3, <1>4
    <2>2. Openers(i) # {} => row.links # 0 /\ row.size = table[i].size /\ d = data[i]
      BY <2>1
    <2>3. table' = [table EXCEPT ![i] = row] /\ file' = file /\ offset' = offset /\ Writers(i) = {}
      BY <1>1
    <2> HIDE DEF row, d
    <2> QED
      BY <1>4, <2>1, <2>2, <2>3, NamesSettle
  <1> HIDE DEF row, d, c
  <1>7. FileOf(s, row) = [c EXCEPT !.links = @ + 1] /\ c.links > 0
    <2> HIDE DEF s
    <2> QED
      BY <1>1, <1>2, <1>3, <1>5 DEF FileOf, Row
  <1>8. Contents' = [Contents EXCEPT ![i].links = @ + 1]
    BY <1>3, <1>6, <1>7 DEF c
  <1> QED
    BY <1>6, <1>7, <1>8 DEF Link, Quiet, Posix!Link, Posix!Quiet, c

\* unlink is the unlink of node.
LEMMA UnlinkActs ==
    ASSUME HInv, Habits = {}, NEW i \in Inodes, Unlink(i)
    PROVE  HInv' /\ Posix!Unlink(i)
  <1> DEFINE last == table[i].links = 1
             row == IF last THEN NoInode ELSE [table[i] EXCEPT !.links = @ - 1]
             d == IF last THEN Zeros ELSE data[i]
             s == BytesOn(data[i], table[i].size)
             c == Contents[i]
  <1>1. /\ RowOk(table[i]) /\ table[i] \in Row /\ table[i].links \in Nat /\ data[i] \in Data
        /\ data = [data EXCEPT ![i] = data[i]]
        /\ \A k \in 0 .. MaxSize - 1 : table[i].size <= k => data[i][k] = 0
    BY RowsOk DEF Row
  <1>2. /\ table[i].links > 0 /\ Writers(i) = {} /\ file' = file /\ offset' = offset
        /\ (last => Openers(i) = {})
        /\ table' = [table EXCEPT ![i] = row] /\ data' = [data EXCEPT ![i] = d]
    <2>1. table[i].links > 0 /\ Writers(i) = {} /\ file' = file /\ offset' = offset
      BY MayChangeIs DEF Unlink
    <2>2. CASE last
      BY <1>1, <2>1, <2>2 DEF Unlink
    <2>3. CASE ~last
      <3>1. table[i].links > 1
        BY <1>1, <2>1, <2>3
      <3>2. table' = [table EXCEPT ![i].links = @ - 1] /\ data' = data
        BY <3>1 DEF Unlink
      <3> QED
        BY <1>1, <2>1, <2>3, <3>2
    <2> QED
      BY <2>1, <2>2, <2>3
  <1>3. NoInode \in Row /\ NoInode.size = 0 /\ NoInode.links = 0 /\ NoInode.perm = 0 /\ Zeros \in Data
        /\ \A k \in 0 .. MaxSize - 1 : Zeros[k] = 0
    BY DEF NoInode, Row, Perm, Zeros, Data, Byte
  <1>4. ~last => /\ row \in Row /\ row.size = table[i].size /\ row.links = table[i].links - 1
                 /\ row.links # 0 /\ row.perm = table[i].perm /\ d = data[i]
    BY <1>1, <1>2 DEF Row
  <1>5. RowOk(row)
    <2>1. CASE last
      BY <1>3, <2>1, HandlesAssumption DEF RowOk
    <2>2. CASE ~last
      <3>1. row.links <= MaxLinks
        BY <1>1, <1>4, <2>2, HandlesAssumption DEF RowOk
      <3> HIDE DEF row
      <3> QED
        BY <1>1, <1>4, <2>2, <3>1 DEF RowOk
    <2> QED
      BY <2>1, <2>2
  <1>6. d \in Data /\ \A k \in 0 .. MaxSize - 1 : row.size <= k => d[k] = 0
    BY <1>1, <1>3, <1>4
  <1>7. Openers(i) # {} => row.links # 0 /\ row.size = table[i].size /\ d = data[i]
    BY <1>2, <1>4
  <1>8. c = FileOf(s, table[i])
    BY <1>2, NoWritersThen
  <1>9. c.links = table[i].links /\ c.links > 0
    BY <1>2, <1>8 DEF FileOf
  <1>10. FileOf(BytesOn(d, row.size), row) =
            IF c.links = 1 THEN Posix!Free ELSE [c EXCEPT !.links = @ - 1]
    <2>1. CASE last
      <3>1. BytesOn(d, row.size) = [k \in 1 .. 0 |-> d[k - 1]]
        BY <1>3, <2>1 DEF BytesOn
      <3>2. BytesOn(d, row.size) = <<>>
        BY <3>1, NoBytes
      <3>3. row = NoInode
        BY <2>1
      <3> HIDE DEF d, c, row
      <3> QED
        BY <1>3, <1>9, <2>1, <3>2, <3>3 DEF FileOf, Posix!Free
    <2>2. CASE ~last
      <3>1. BytesOn(d, row.size) = s
        BY <1>4, <2>2
      <3> HIDE DEF d, c, row, s
      <3> QED
        BY <1>4, <1>8, <1>9, <2>2, <3>1 DEF FileOf
    <2> QED
      BY <2>1, <2>2
  <1> HIDE DEF row, d, c, s, last
  <1>11. /\ HInv' /\ Descs' = Descs
         /\ Contents' = [Contents EXCEPT ![i] = FileOf(BytesOn(d, row.size), row)]
    BY <1>2, <1>5, <1>6, <1>7, NamesSettle
  <1>12. Contents' = [Contents EXCEPT ![i] = IF c.links = 1 THEN Posix!Free ELSE [c EXCEPT !.links = @ - 1]]
    BY <1>10, <1>11
  <1> QED
    BY <1>9, <1>11, <1>12 DEF Unlink, Quiet, Posix!Unlink, Posix!Quiet, c

\* The first state.
LEMMA Inits ==
    ASSUME Init
    PROVE  HInv /\ Posix!Init
  <1>1. MaxSize \in Nat /\ MaxLinks \in Nat
    BY HandlesAssumption
  <1>2. NoInode \in Row /\ NoInode.size = 0 /\ NoInode.links = 0 /\ NoInode.perm = 0 /\ Zeros \in Data
        /\ \A k \in 0 .. MaxSize - 1 : Zeros[k] = 0
    BY DEF NoInode, Row, Perm, Zeros, Data, Byte
  <1>3. Disk
    <2>1. /\ table \in [Inodes -> Row] /\ data \in [Inodes -> Data]
          /\ \A i \in Inodes : table[i] = NoInode /\ data[i] = Zeros
      BY <1>2 DEF Init
    <2> QED
      BY <1>1, <1>2, <2>1 DEF Disk
  <1>4. /\ \A u \in Users : file[u] = Closed /\ offset[u] = 0 /\ ~IsOpen(u)
        /\ file \in [Users -> Handle] /\ offset \in [Users -> 0 .. MaxSize]
    BY <1>1, ClosedIs DEF Init, IsOpen
  <1>5. \A u \in Users : Held(u)
    BY <1>4 DEF Held
  <1>6. Alone
    BY <1>4 DEF Alone
  <1>7. HInv
    BY <1>3, <1>4, <1>5, <1>6 DEF HInv
  <1>8. ASSUME NEW i \in Inodes PROVE Contents[i] = Posix!Free
    <2>1. table[i] = NoInode
      BY DEF Init
    <2>2. Bytes(i) = [k \in 1 .. 0 |-> Byt(i, k - 1)]
      BY <1>2, <2>1 DEF Bytes
    <2>3. Bytes(i) = <<>>
      BY <2>2, NoBytes
    <2> QED
      BY <1>2, <2>1, <2>3 DEF Contents, Posix!Free
  <1>9. \A u \in Users : Descs[u] = Posix!Closed
    BY <1>4, <1>7, ClosedDesc
  <1>10. Contents = [i \in Inodes |-> Posix!Free] /\ Descs = [u \in Users |-> Posix!Closed]
    BY <1>8, <1>9, DescsAre
  <1> QED
    BY <1>7, <1>10 DEF Init, Posix!Init

-----------------------------------------------------------------------------
(* The theorems *)

\* Every step keeps the invariant, and is a step of PosixFiles or shows nothing.
LEMMA Steps ==
    ASSUME HInv, Answered, Habits = {}, [Next]_vars
    PROVE  HInv' /\ Answered' /\ [Posix!Next]_(Posix!vars)
  <1>0. Positions = Posix!Positions /\ Strings = Posix!Strings
    BY DEF Positions, Strings, Posix!Positions, Posix!Strings, Posix!Here, Here
  <1>1. ASSUME NEW u \in Users, NEW i \in Inodes, NEW mode \in OpenModes, NEW way \in Ways,
               Open(u, i, mode, way)
        PROVE  HInv' /\ Answered' /\ Posix!Next
    <2>1. HInv' /\ Posix!Open(u, i, FlagsOf[mode])
      BY <1>1, OpenActs
    <2>2. FlagsOf[mode] \in {FlagsOf[m] : m \in OpenModes}
      OBVIOUS
    <2>3. Answered'
      BY <1>1, QuietAnswers DEF Open
    <2> QED
      BY <2>1, <2>2, <2>3 DEF Posix!Next
  <1>2. ASSUME NEW u \in Users, NEW n \in 1 .. MaxCall, NEW p \in Positions,
               Read(u, n, p) \/ ReadRejects(u, n, p)
        PROVE  HInv' /\ Answered' /\ Posix!Next
    <2>1. HInv' /\ (Posix!Read(u, n, p) \/ Posix!ReadRejects(u, n, p))
      BY <1>2, ReadActs, ReadRejectsActs
    <2>2. Answered'
      BY <1>2, ReadActs, QuietAnswers DEF ReadRejects
    <2> QED
      BY <1>0, <2>1, <2>2 DEF Posix!Next
  <1>3. ASSUME NEW u \in Users, NEW s \in Strings, NEW p \in Positions,
               Write(u, s, p) \/ WriteRejects(u, s, p)
        PROVE  HInv' /\ Answered' /\ Posix!Next
    <2>1. HInv' /\ (Posix!Write(u, s, p) \/ Posix!WriteRejects(u, s, p))
      BY <1>3, WriteActs, WriteRejectsActs
    <2>2. Answered'
      BY <1>3, QuietAnswers DEF Write, WriteRejects
    <2> QED
      BY <1>0, <2>1, <2>2 DEF Posix!Next
  <1>4. ASSUME NEW u \in Users, NEW perm \in Perm, Chmod(u, perm)
        PROVE  HInv' /\ Answered' /\ Posix!Next
    <2>1. Answered'
      BY <1>4, QuietAnswers DEF Chmod
    <2> QED
      BY <1>4, <2>1, ChmodStep DEF Posix!Next
  <1>5. ASSUME NEW u \in Users, Close(u) \/ CloseRejects(u)
        PROVE  HInv' /\ Answered' /\ Posix!Next
    <2>1. Answered'
      BY <1>5, QuietAnswers DEF Close, CloseRejects, Free
    <2>2. HInv' /\ (Posix!Close(u) \/ Posix!CloseRejects(u))
      BY <1>5, CloseActs, CloseRejectsActs
    <2> QED
      BY <2>1, <2>2 DEF Posix!Next
  <1>6. ASSUME NEW i \in Inodes, Link(i) \/ Unlink(i)
        PROVE  HInv' /\ Answered' /\ Posix!Next
    <2>1. Answered'
      BY <1>6, QuietAnswers DEF Link, Unlink
    <2>2. HInv' /\ (Posix!Link(i) \/ Posix!Unlink(i))
      BY <1>6, LinkActs, UnlinkActs
    <2> QED
      BY <2>1, <2>2 DEF Posix!Next
  <1>9. CASE UNCHANGED vars
    <2>1. table' = table /\ data' = data /\ file' = file /\ offset' = offset /\ answer' = answer
      BY <1>9 DEF vars
    <2>2. HInv' /\ Answered'
      BY <2>1 DEF HInv, Disk, Held, Alone, IsOpen, World, Answered
    <2>3. \A i \in Inodes : Openers(i)' = Openers(i) /\ \A u \in Openers(i) : file'[u] = file[u]
      BY <2>1 DEF Openers
    <2>4. \A i \in Inodes : Bytes(i)' = Bytes(i)
      BY <2>1, <2>3, BytesKept
    <2>5. Contents' = Contents /\ Descs' = Descs
      BY <2>1, <2>4 DEF Contents, Descs
    <2> QED
      BY <2>1, <2>2, <2>5 DEF Posix!vars
  <1>10. CASE Next
    <2>1. \/ \E u \in Users, i \in Inodes, mode \in OpenModes, way \in Ways : Open(u, i, mode, way)
          \/ \E u \in Users, n \in 1 .. MaxCall, p \in Positions : Read(u, n, p) \/ ReadRejects(u, n, p)
          \/ \E u \in Users, s \in Strings, p \in Positions : Write(u, s, p) \/ WriteRejects(u, s, p)
          \/ \E u \in Users, perm \in Perm : Chmod(u, perm)
          \/ \E u \in Users : Close(u) \/ CloseRejects(u)
          \/ \E i \in Inodes : Link(i) \/ Unlink(i)
      BY <1>10 DEF Next
    <2> QED
      BY <1>1, <1>2, <1>3, <1>4, <1>5, <1>6, <2>1
  <1> QED
    BY <1>9, <1>10

\* The invariant implies the types.
LEMMA Types ==
    ASSUME HInv, Answered
    PROVE  TypeOK
  <1>1. MaxSize \in Nat /\ MaxLinks \in Nat
    BY HandlesAssumption
  <1>2. table \in [Inodes -> [size : 0 .. MaxSize, links : 0 .. MaxLinks, perm : Perm]]
    <2>1. table \in [Inodes -> Row] /\ \A i \in Inodes : table[i].size <= MaxSize /\ table[i].links <= MaxLinks
      BY DEF HInv, Disk
    <2>2. \A i \in Inodes : table[i] \in [size : 0 .. MaxSize, links : 0 .. MaxLinks, perm : Perm]
      BY <1>1, <2>1 DEF Row
    <2> QED
      BY <2>1, <2>2
  <1>3. data \in [Inodes -> [0 .. MaxSize - 1 -> Byte]]
    BY DEF HInv, Disk, Data
  <1>4. ASSUME NEW u \in Users, IsOpen(u)
        PROVE  /\ file[u].ino \in Inodes /\ file[u].pos \in 0 .. MaxSize
               /\ file[u].buf = NoBuf \/ file[u].buf \in [0 .. BlockSize - 1 -> Byte]
               /\ file[u].dirty => file[u].buf # NoBuf
    <2>1. file[u].ino \in Inodes /\ Good(World(u)) /\ World(u).f = file[u]
      BY <1>4, WorldIs DEF HInv, Held
    <2>2. file[u].pos \in 0 .. MaxSize
      BY <2>1, GoodTypes
    <2>3. file[u] \in Handle
      BY DEF HInv
    <2>4. file[u].buf = NoBuf \/ file[u].buf \in [0 .. BlockSize - 1 -> Byte]
      BY <2>3 DEF Handle, Buf
    <2>5. file[u].dirty => file[u].buf # NoBuf
      BY <2>1 DEF Good, Sound, Agrees
    <2> QED
      BY <2>1, <2>2, <2>4, <2>5
  <1>5. offset \in [Users -> 0 .. MaxSize]
    BY DEF HInv
  <1> QED
    BY <1>2, <1>3, <1>4, <1>5 DEF TypeOK, Answered

\* While no file is written through two descriptors or read while it is written
\* (Habits = {}), the inode table, the data, the open files and their offsets keep
\* their types: no position passes the end of the largest file, and a dirty buffer
\* is one that was loaded.
THEOREM TypeCorrect ==
    ASSUME Habits = {}
    PROVE  Spec => []TypeOK
  <1>1. Init => HInv /\ Answered
    BY Inits, HandlesAssumption DEF Init, Answered
  <1>2. HInv /\ Answered /\ [Next]_vars => HInv' /\ Answered'
    BY Steps
  <1>3. HInv /\ Answered => TypeOK
    BY Types
  <1> QED
    BY <1>1, <1>2, <1>3, PTL DEF Spec

\* And the program sees the files of node: every read, write, chmod, open, link,
\* unlink and close of src/glue.c, whatever the copies of the inode and the buffers
\* hold and wherever a flush fails, is the step that PosixFiles describes; a read
\* returns the bytes that the file holds then.
THEOREM AsPosix ==
    ASSUME Habits = {}
    PROVE  Spec => ImplementsPosix
  <1>1. Init => HInv /\ Answered /\ Posix!Init
    BY Inits, HandlesAssumption DEF Init, Answered
  <1>2. HInv /\ Answered /\ [Next]_vars => HInv' /\ Answered' /\ [Posix!Next]_(Posix!vars)
    BY Steps
  <1> QED
    BY <1>1, <1>2, PTL DEF Spec, ImplementsPosix, Posix!Spec

==============================================================================
