------------------------------ MODULE Handles ------------------------------
(***************************************************************************)
(* Open files: read, write, chmod and close of src/glue.c on an            *)
(* ext2_file_t, with what lib/fs.js passes them.                           *)
(*                                                                         *)
(* An ext2_file_t (src/ext2fs.h) holds a copy of the inode, made when it   *)
(* was opened, a position and a buffer of one block.  libext2fs reads and  *)
(* extends the file through that copy and writes it back to the inode      *)
(* table; the glue reads the inode again before it changes an attribute.   *)
(* So two ext2_file_t of one inode may disagree.  Habits names what a      *)
(* program may do that makes them disagree for good.                       *)
(*                                                                         *)
(* A C call is one step (OneCallAtATime of OpQueue).  Blocks are kept with *)
(* their file: which disk block holds them is left to libext2fs.           *)
(***************************************************************************)
EXTENDS Integers, Sequences, FiniteSets

CONSTANTS Users,      \* tasks of the program, each with at most one descriptor
          Inodes,     \* inode numbers
          BlockSize,
          MaxSize,    \* bound: no file grows beyond this many bytes
          MaxCall,    \* bound: bytes of one read or write
          MaxLinks,   \* bound: names of one file
          OpenModes,  \* how files are opened, a subset of DOMAIN FlagsOf
          Habits

AllHabits == {"twoWriters",         \* two descriptors write to a file
              "readWhileWritten",   \* one reads what another one writes
              "changeWhileWritten", \* chmod, link or unlink of a file another one writes
              "unlinkOpen",         \* the last name goes while the file is open
              "mixPositions"}       \* calls with and without a position on a descriptor

\* stringToFlags, and O_NOATIME that a program may pass as a number.
FlagsOf == [r       |-> {},
            rPlus   |-> {"RDWR"},
            w       |-> {"WRONLY", "CREAT", "TRUNC"},
            wPlus   |-> {"RDWR", "CREAT", "TRUNC"},
            a       |-> {"WRONLY", "CREAT", "APPEND"},
            aPlus   |-> {"RDWR", "CREAT", "APPEND"},
            noatime |-> {"NOATIME"}]

ASSUME HandlesAssumption ==
    /\ Inodes \subseteq Nat \ {0}
    /\ BlockSize \in Nat \ {0} /\ MaxSize \in Nat \ {0}
    /\ MaxCall \in 1 .. MaxSize /\ MaxLinks \in Nat \ {0}
    /\ OpenModes \subseteq DOMAIN FlagsOf
    /\ Habits \subseteq AllHabits

VARIABLES table,    \* the inode table: [size, links, perm]
          data,     \* the bytes of each file on the disk
          file,     \* the ext2_file_t of each user, or Closed
          offset,   \* history: the offset a descriptor of node would have
          answer    \* history: the bytes that the last call read

vars == <<table, data, file, offset, answer>>

Byte == {0, 1}
Perm == {0, 1}
Here == -1
Zeros == [k \in 0 .. MaxSize - 1 |-> 0]
NoInode == [size |-> 0, links |-> 0, perm |-> 0]
NoBuf == <<>>       \* EXT2_FILE_BUF_VALID is off
Closed == [ino |-> 0, flags |-> {}, way |-> "closed", inode |-> NoInode,
           pos |-> 0, blockno |-> 0, buf |-> NoBuf, dirty |-> FALSE]

IsOpen(u) == file[u] # Closed
Openers(i) == {u \in Users : file[u].ino = i}
CanWrite(flags) == flags \cap {"WRONLY", "RDWR"} # {}
Writers(i) == {u \in Openers(i) : CanWrite(file[u].flags)}

Init == /\ table = [i \in Inodes |-> NoInode]
        /\ data = [i \in Inodes |-> Zeros]
        /\ file = [u \in Users |-> Closed]
        /\ offset = [u \in Users |-> 0]
        /\ answer = <<>>

-----------------------------------------------------------------------------
(* libext2fs on w: an ext2_file_t f, the table row and the data of its file, *)
(* and the bytes a read has got so far.                                      *)

World(u) == [f |-> file[u], row |-> table[file[u].ino], data |-> data[file[u].ino], got |-> <<>>]

ReadInode(w)  == [w EXCEPT !.f.inode = w.row]
WriteInode(w) == [w EXCEPT !.row = w.f.inode]

InBlock(k, b) == k \div BlockSize = b
Flush(w) ==
    IF ~w.f.dirty THEN w
    ELSE [w EXCEPT !.f.dirty = FALSE,
                   !.data = [k \in DOMAIN @ |-> IF InBlock(k, w.f.blockno)
                                                THEN w.f.buf[k % BlockSize] ELSE @[k]]]

\* The buffer follows the position to another block.
SyncPosition(w) ==
    IF InBlock(w.f.pos, w.f.blockno) THEN w
    ELSE [Flush(w) EXCEPT !.f.blockno = w.f.pos \div BlockSize, !.f.buf = NoBuf]

LoadBuffer(w) ==
    IF w.f.buf # NoBuf THEN w
    ELSE LET at(k) == w.f.blockno * BlockSize + k
         IN [w EXCEPT !.f.buf = [k \in 0 .. BlockSize - 1 |->
                                    IF at(k) < MaxSize THEN w.data[at(k)] ELSE 0]]

\* ext2fs_file_set_size2: the copy of the inode is written back, and what lies
\* beyond the size is zeroed or freed.
SetSize(w, size) ==
    WriteInode([w EXCEPT !.f.inode.size = size,
                         !.data = [k \in DOMAIN @ |-> IF k < size THEN @[k] ELSE 0]])

\* ext2fs_file_read, up to the size in the copy of the inode.
ReadByte(w) ==
    IF w.f.pos >= w.f.inode.size THEN w
    ELSE LET v == LoadBuffer(SyncPosition(w))
         IN [v EXCEPT !.got = Append(@, v.f.buf[v.f.pos % BlockSize]), !.f.pos = @ + 1]
FileRead(w, n) ==
    LET after[k \in 0 .. n] == IF k = 0 THEN w ELSE ReadByte(after[k - 1]) IN after[n]

WriteByte(w, b) ==
    LET v == LoadBuffer(SyncPosition(w))
    IN [v EXCEPT !.f.buf[v.f.pos % BlockSize] = b, !.f.dirty = TRUE, !.f.pos = @ + 1]
\* ext2fs_file_write.
FileWrite(w, s) ==
    LET after[k \in 0 .. Len(s)] == IF k = 0 THEN w ELSE WriteByte(after[k - 1], s[k])
        v == after[Len(s)]
    IN IF s # <<>> /\ v.f.inode.size < v.f.pos THEN SetSize(v, v.f.pos) ELSE v

\* The flush of SyncPosition fails, and ends a read or a write.
Stuck(w) == w.f.dirty /\ ~InBlock(w.f.pos, w.f.blockno)

-----------------------------------------------------------------------------
(* src/glue.c *)

\* Slip: EXT2_SEEK_CUR for EXT2_SEEK_SET.
SeekFromHere(f, p) == IF p = Here THEN f ELSE [f EXCEPT !.pos = @ + p]
\* ext2fs_file_llseek, unless the call has no position.
Seek(f, p) == IF p = Here THEN f ELSE [f EXCEPT !.pos = p]
SeekEnd(f) == [f EXCEPT !.pos = f.inode.size]

\* update_xtime; the times themselves are left out.  Slip: the inode is not
\* read again.
UpdateXtimeCached(w) == WriteInode(w)
UpdateXtime(w) == WriteInode(ReadInode(w))

\* node_ext2fs_read of n bytes: to the end of ext2fs_file_read, and the rest.
ReadAt(w, n, p) == FileRead([w EXCEPT !.f = Seek(@, p)], n)
ReadCall(w, n, p) ==
    LET v == ReadAt(w, n, p) IN IF "NOATIME" \in w.f.flags THEN v ELSE UpdateXtime(v)

\* node_ext2fs_write of s: to the end of ext2fs_file_write, and up to the last flush.
WriteAt(w, s, p) ==
    FileWrite([w EXCEPT !.f = IF "APPEND" \in @.flags THEN SeekEnd(@) ELSE Seek(@, p)], s)
WriteCall(w, s, p) ==
    LET v == WriteAt(w, s, p) IN IF "CREAT" \in w.f.flags THEN UpdateXtime(v) ELSE v

\* node_ext2fs_chmod; chown does the same to the owner.
ChmodCall(w, perm) ==
    LET v == ReadInode(w) IN WriteInode([v EXCEPT !.f.inode.perm = perm])

-----------------------------------------------------------------------------
(* What the program does *)

Commit(u, w) == /\ file'  = [file EXCEPT ![u] = w.f]
                /\ table' = [table EXCEPT ![w.f.ino] = w.row]
                /\ data'  = [data EXCEPT ![w.f.ino] = w.data]

\* Unless it has other habits, the program opens a file for writing alone.
MayOpen(i, flags) ==
    /\ CanWrite(flags) /\ Writers(i) # {} => "twoWriters" \in Habits
    /\ CanWrite(flags) /\ Openers(i) # Writers(i) => "readWhileWritten" \in Habits
    /\ ~CanWrite(flags) /\ Writers(i) # {} => "readWhileWritten" \in Habits

\* A call that returns no bytes.
Quiet == answer' = <<>>

MayChange(i, by) == Writers(i) \subseteq by \/ "changeWhileWritten" \in Habits

MayPass(u, p) == CASE file[u].way = "here" -> p = Here
                   [] file[u].way = "at"   -> p # Here
                   [] OTHER                -> TRUE
Ways == IF "mixPositions" \in Habits THEN {"both"} ELSE {"here", "at"}

\* open.  A new file gets an inode (CreateFile of Namespace).
Open(u, i, mode, way) ==
    LET flags == FlagsOf[mode]
        row == IF table[i].links = 0 THEN [size |-> 0, links |-> 1, perm |-> 0] ELSE table[i]
        f == [Closed EXCEPT !.ino = i, !.flags = flags, !.way = way, !.inode = row]
        w == [f |-> f, row |-> row, data |-> data[i], got |-> <<>>]
    IN /\ ~IsOpen(u) /\ MayOpen(i, flags)
       /\ table[i].links = 0 => "CREAT" \in flags
       /\ Commit(u, IF "TRUNC" \in flags THEN SetSize(w, 0) ELSE w)
       /\ offset' = [offset EXCEPT ![u] = 0]
       /\ Quiet

MayRead(u, p) ==
    IsOpen(u) /\ MayPass(u, p) /\ "WRONLY" \notin file[u].flags      \* EBADF
Skip(u, p, w) == /\ Commit(u, w)
                 /\ offset' = [offset EXCEPT ![u] = IF p = Here THEN @ + Len(w.got) ELSE @]

Read(u, n, p) ==
    /\ MayRead(u, p)
    /\ LET w == ReadCall(World(u), n, p) IN Skip(u, p, w) /\ answer' = w.got

\* The program gets the error instead of the bytes.
ReadRejects(u, n, p) ==
    /\ MayRead(u, p)
    /\ \E k \in 0 .. n - 1 :
          LET w == ReadAt(World(u), k, p)
          IN w.f.pos < w.f.inode.size /\ Stuck(w) /\ Skip(u, p, w)
    /\ Quiet

MayWrite(u, p) ==
    IsOpen(u) /\ MayPass(u, p) /\ CanWrite(file[u].flags)            \* EBADF
Moved(u, p, w, n) ==
    offset' = [offset EXCEPT ![u] = IF p # Here THEN @
                                    ELSE IF "APPEND" \in w.f.flags THEN w.row.size ELSE @ + n]

\* node_ext2fs_write returns the count even if its last flush fails; the
\* buffer stays dirty then.
Write(u, s, p) ==
    /\ MayWrite(u, p)
    /\ LET w == WriteCall(World(u), s, p)
       IN /\ w.f.pos <= MaxSize
          /\ Commit(u, w) \/ Commit(u, Flush(w))
          /\ Moved(u, p, w, Len(s))
    /\ Quiet

\* Another flush fails after k bytes.
WriteRejects(u, s, p) ==
    /\ MayWrite(u, p)
    /\ \E k \in 0 .. Len(s) - 1 :
          LET w == WriteAt(World(u), SubSeq(s, 1, k), p)
          IN w.f.pos <= MaxSize /\ Stuck(w) /\ Commit(u, w) /\ Moved(u, p, w, k)
    /\ Quiet

Chmod(u, perm) ==
    /\ IsOpen(u) /\ MayChange(file[u].ino, {u})
    /\ Commit(u, ChmodCall(World(u), perm))
    /\ Quiet /\ UNCHANGED offset

\* link and unlink change the inode in the table (LinkIn, RemoveInode of
\* Namespace).
Link(i) == /\ table[i].links \in 1 .. MaxLinks - 1
           /\ MayChange(i, {})
           /\ table' = [table EXCEPT ![i].links = @ + 1]
           /\ Quiet /\ UNCHANGED <<data, file, offset>>

Unlink(i) ==
    /\ table[i].links > 0 /\ MayChange(i, {})
    /\ IF table[i].links > 1
       THEN table' = [table EXCEPT ![i].links = @ - 1] /\ UNCHANGED data
       ELSE /\ Openers(i) = {} \/ "unlinkOpen" \in Habits
            /\ table' = [table EXCEPT ![i] = NoInode]
            /\ data' = [data EXCEPT ![i] = Zeros]
    /\ Quiet /\ UNCHANGED <<file, offset>>

Free(u) == /\ file' = [file EXCEPT ![u] = Closed]
           /\ offset' = [offset EXCEPT ![u] = 0]
           /\ Quiet /\ UNCHANGED table

\* ext2fs_file_close flushes, and frees the file whatever comes of that.
Close(u) == /\ IsOpen(u)
            /\ data' = [data EXCEPT ![file[u].ino] = Flush(World(u)).data]
            /\ Free(u)
CloseRejects(u) == IsOpen(u) /\ file[u].dirty /\ Free(u) /\ UNCHANGED data

Positions == {Here} \cup 0 .. MaxSize
Strings == UNION {[1 .. n -> Byte] : n \in 1 .. MaxCall}

Next == \/ \E u \in Users :
             \/ \E i \in Inodes, mode \in OpenModes, way \in Ways : Open(u, i, mode, way)
             \/ \E n \in 1 .. MaxCall, p \in Positions : Read(u, n, p) \/ ReadRejects(u, n, p)
             \/ \E s \in Strings, p \in Positions : Write(u, s, p) \/ WriteRejects(u, s, p)
             \/ \E perm \in Perm : Chmod(u, perm)
             \/ Close(u)
             \/ CloseRejects(u)
        \/ \E i \in Inodes : Link(i) \/ Unlink(i)

Spec == Init /\ [][Next]_vars

-----------------------------------------------------------------------------
(* Properties *)

TypeOK ==
    /\ table \in [Inodes -> [size : 0 .. MaxSize, links : 0 .. MaxLinks, perm : Perm]]
    /\ data \in [Inodes -> [0 .. MaxSize - 1 -> Byte]]
    /\ \A u \in Users :
         IsOpen(u) => /\ file[u].ino \in Inodes /\ file[u].pos \in 0 .. MaxSize
                      /\ file[u].buf = NoBuf \/ file[u].buf \in [0 .. BlockSize - 1 -> Byte]
                      /\ file[u].dirty => file[u].buf # NoBuf
    /\ offset \in [Users -> 0 .. MaxSize]
    /\ answer \in Seq(Byte) /\ Len(answer) <= MaxCall

\* The bytes of a file: those on the disk, and those still in a dirty buffer.
Byt(i, k) ==
    LET holders == {u \in Openers(i) : file[u].dirty /\ InBlock(k, file[u].blockno)}
    IN IF holders = {} THEN data[i][k]
       ELSE file[CHOOSE u \in holders : TRUE].buf[k % BlockSize]
Bytes(i) == [k \in 1 .. table[i].size |-> Byt(i, k - 1)]

Contents == [i \in Inodes |-> [bytes |-> Bytes(i), links |-> table[i].links, perm |-> table[i].perm]]
Descs == [u \in Users |-> [ino |-> file[u].ino, flags |-> file[u].flags, offset |-> offset[u]]]

Posix == INSTANCE PosixFiles WITH
    Files <- Inodes,
    Flags <- {FlagsOf[mode] : mode \in OpenModes},
    file <- Contents,
    desc <- Descs,
    answer <- answer

\* Whatever the copies of the inode and the buffers hold, the program sees the
\* files of node's fs: each write, chmod, link and truncation is there for all,
\* a read returns the bytes of the file as they are now, and nothing is undone by
\* what a descriptor remembers, whichever flush fails.
ImplementsPosix == Posix!Spec

\* An append makes the file longer by what is appended: it overwrites nothing.
AppendsAtEnd ==
    [][\A u \in Users, s \in Strings, p \in Positions :
          Write(u, s, p) /\ "APPEND" \in file[u].flags =>
              table'[file[u].ino].size = table[file[u].ino].size + Len(s)]_vars

=============================================================================
