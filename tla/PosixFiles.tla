----------------------------- MODULE PosixFiles -----------------------------
(***************************************************************************)
(* What the fs of node promises about open files, and what Handles is      *)
(* checked against: a file is one sequence of bytes with its attributes,   *)
(* which all descriptors see at once, a read gets them as they are, and a  *)
(* descriptor has an offset that only calls without a position use and     *)
(* move.                                                                   *)
(***************************************************************************)
EXTENDS Integers, Sequences

CONSTANTS Users,    \* each has at most one descriptor
          Files, MaxSize, MaxCall,
          Byte, Perm,
          Flags     \* the sets of flags that files are opened with

VARIABLES file,     \* [bytes, links, perm] of each file; free with no links
          desc,     \* [ino, flags, offset] of each user, or Closed
          answer    \* the bytes that the last call read

vars == <<file, desc, answer>>

Here == -1
Closed == [ino |-> 0, flags |-> {}, offset |-> 0]
Free == [bytes |-> <<>>, links |-> 0, perm |-> 0]

IsOpen(u) == desc[u] # Closed
BytesOf(u) == file[desc[u].ino].bytes
Start(u, p) == IF p = Here THEN desc[u].offset ELSE p

\* s with t written at offset at, and zeros in a gap between the two.
Overlay(s, at, t) ==
    LET end == IF at + Len(t) > Len(s) THEN at + Len(t) ELSE Len(s)
    IN [k \in 1 .. end |-> IF k > at /\ k <= at + Len(t) THEN t[k - at]
                           ELSE IF k <= Len(s) THEN s[k] ELSE 0]

\* The n bytes of s from offset at on, or as many as there are.
Slice(s, at, n) == SubSeq(s, at + 1, IF at + n < Len(s) THEN at + n ELSE Len(s))

\* A call that returns no bytes.
Quiet == answer' = <<>>

Init == /\ file = [i \in Files |-> Free]
        /\ desc = [u \in Users |-> Closed]
        /\ answer = <<>>

Open(u, i, flags) ==
    /\ Quiet /\ ~IsOpen(u)
    /\ file[i].links > 0 \/ "CREAT" \in flags
    /\ file' = [file EXCEPT ![i] = [bytes |-> IF "TRUNC" \in flags THEN <<>> ELSE @.bytes,
                                    links |-> IF @.links = 0 THEN 1 ELSE @.links,
                                    perm  |-> @.perm]]
    /\ desc' = [desc EXCEPT ![u] = [ino |-> i, flags |-> flags, offset |-> 0]]

MayRead(u) == IsOpen(u) /\ "WRONLY" \notin desc[u].flags
Skip(u, t, p) == desc' = [desc EXCEPT ![u].offset = IF p = Here THEN @ + Len(t) ELSE @]

Read(u, n, p) ==
    LET t == Slice(BytesOf(u), Start(u, p), n)
    IN MayRead(u) /\ answer' = t /\ Skip(u, t, p) /\ UNCHANGED file

\* A read that rejects returns nothing, and may have skipped some bytes.
ReadRejects(u, n, p) ==
    /\ Quiet /\ MayRead(u)
    /\ \E k \in 0 .. n - 1 : Skip(u, Slice(BytesOf(u), Start(u, p), k), p)
    /\ UNCHANGED file

MayWrite(u) == IsOpen(u) /\ desc[u].flags \cap {"WRONLY", "RDWR"} # {}
Where(u, p) == IF "APPEND" \in desc[u].flags THEN Len(BytesOf(u)) ELSE Start(u, p)
Put(u, s, p) ==
    LET at == Where(u, p)
    IN /\ at + Len(s) <= MaxSize
       /\ file' = [file EXCEPT ![desc[u].ino].bytes = IF s = <<>> THEN @ ELSE Overlay(@, at, s)]
       /\ desc' = [desc EXCEPT ![u].offset = IF p = Here THEN at + Len(s) ELSE @]

Write(u, s, p) == Quiet /\ MayWrite(u) /\ Put(u, s, p)

\* A write that rejects has written as much of s as it has moved the offset.
WriteRejects(u, s, p) ==
    Quiet /\ MayWrite(u) /\ \E k \in 0 .. Len(s) - 1 : Put(u, SubSeq(s, 1, k), p)

Chmod(u, perm) == /\ Quiet /\ IsOpen(u)
                  /\ file' = [file EXCEPT ![desc[u].ino].perm = perm]
                  /\ UNCHANGED desc

Link(i) == /\ Quiet /\ file[i].links > 0
           /\ file' = [file EXCEPT ![i].links = @ + 1]
           /\ UNCHANGED desc

\* The last name of a file that nobody has open.
Unlink(i) == /\ Quiet /\ file[i].links > 0
             /\ file' = IF file[i].links = 1 THEN [file EXCEPT ![i] = Free]
                                            ELSE [file EXCEPT ![i].links = @ - 1]
             /\ UNCHANGED desc

Close(u) == Quiet /\ IsOpen(u) /\ desc' = [desc EXCEPT ![u] = Closed] /\ UNCHANGED file

\* A close that rejects may have lost bytes, but nothing else.
CloseRejects(u) ==
    /\ Quiet /\ IsOpen(u)
    /\ desc' = [desc EXCEPT ![u] = Closed]
    /\ \E s \in [1 .. Len(BytesOf(u)) -> Byte] : file' = [file EXCEPT ![desc[u].ino].bytes = s]

Strings == UNION {[1 .. n -> Byte] : n \in 1 .. MaxCall}

Positions == {Here} \cup 0 .. MaxSize

Next == \/ \E i \in Files : Link(i) \/ Unlink(i)
        \/ \E u \in Users :
             \/ Close(u)
             \/ \E perm \in Perm : Chmod(u, perm)
             \/ \E i \in Files, flags \in Flags : Open(u, i, flags)
             \/ \E n \in 1 .. MaxCall, p \in Positions : Read(u, n, p) \/ ReadRejects(u, n, p)
             \/ \E s \in Strings, p \in Positions : Write(u, s, p) \/ WriteRejects(u, s, p)
             \/ CloseRejects(u)

Spec == Init /\ [][Next]_vars

=============================================================================
