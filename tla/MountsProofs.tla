---------------------------- MODULE MountsProofs ----------------------------
(***************************************************************************)
(* For any number of disks, users and pointers, and whatever calls fail:   *)
(* the blocks of a mounted filesystem are those of its own disk; and, in   *)
(* the second half, its open files are those that C has.                   *)
(*                                                                         *)
(* The id of a disk lives from setObject to deleteObject (HeldInv), and C  *)
(* uses it from mount to umount (FsInv).  That the first span covers the   *)
(* second rests on each disk having at most one call on its way (OneCall), *)
(* of the kind its phase says (CallsMatch).  That no other disk gets the   *)
(* id while it is taken rests on the ids given out being those in use and  *)
(* those in the pool, each once (IdInv).                                   *)
(***************************************************************************)
EXTENDS Mounts, FunctionTheorems, FiniteSetTheorems, SequenceTheorems, TLAPS

\* A sequence of anything: which file a request is about does not matter here.
IsSeq(s) == \E S : s \in Seq(S)

Whats == {"mount", "path", "open", "buffer", "read", "close", "umount"}
IsRequest(r) == /\ DOMAIN r = {"who", "what", "ptr"}
                /\ r.who \in Disks \cup Users /\ r.what \in Whats
                /\ r.what \in {"mount", "umount"} => r.who \in Disks

Waits(d, i) == i \in 1 .. Len(line) /\ line[i].who = d
Done(d, i) == i \in 1 .. Len(answered) /\ answered[i].req.who = d

LinesInv ==
    /\ IsSeq(line) /\ \A i \in 1 .. Len(line) : IsRequest(line[i])
    /\ IsSeq(answered) /\ \A i \in 1 .. Len(answered) : IsRequest(answered[i].req)

\* A disk waits for one call of C at a time.
OneCall == \A d \in Disks : \A i, j \in Nat :
    /\ Waits(d, i) /\ Waits(d, j) => i = j
    /\ Done(d, i) /\ Done(d, j) => i = j
    /\ ~(Waits(d, i) /\ Done(d, j))

\* That call is the one its phase is named for.
Fits(d, what) == \/ what = "mount"  /\ fs[d] = "mounting"
                 \/ what = "close"  /\ fs[d] = "closing"
                 \/ what = "umount" /\ fs[d] = "unmounting"
CallsMatch == \A d \in Disks : \A i \in Nat :
    /\ Waits(d, i) => Fits(d, line[i].what)
    /\ Done(d, i)  => Fits(d, answered[i].req.what)

\* C has no filesystem of a disk before its mount, after its umount, or while the
\* answer that says so is on its way.
FsInv == \A d \in Disks :
    /\ fs[d] = "unmounted" => d \notin cFs
    /\ \A i \in Nat :
         /\ Waits(d, i) /\ line[i].what = "mount" => d \notin cFs
         /\ Done(d, i) /\ answered[i].req.what = "mount" /\ ~answered[i].ok => d \notin cFs
         /\ Done(d, i) /\ answered[i].req.what = "umount" /\ answered[i].ok => d \notin cFs

\* JavaScript keeps the id of every disk that is not unmounted.
HeldInv == \A d \in Disks : fs[d] = "unmounted" <=> diskId[d] = None

\* The ids given out are those of the disks and those in the pool, each once.
IdInv ==
    /\ ids.next \in 0 .. Cardinality(Disks)
    /\ ids.pool \in Seq(1 .. ids.next)
    /\ ids.objects \in [Ids -> Disks \cup {None}]
    /\ \A k, l \in 1 .. Len(ids.pool) : ids.pool[k] = ids.pool[l] => k = l
    /\ \A k \in 1 .. Len(ids.pool) : ids.objects[ids.pool[k]] = None
    /\ \A i \in 1 .. ids.next : \/ ids.objects[i] # None /\ diskId[ids.objects[i]] = i
                                \/ \E k \in 1 .. Len(ids.pool) : ids.pool[k] = i
    /\ \A d \in Disks : diskId[d] # None =>
         diskId[d] \in 1 .. ids.next /\ ids.objects[diskId[d]] = d

Shape == /\ fs \in [Disks -> {"unmounted", "mounting", "mounted", "closing", "unmounting"}]
         /\ diskId \in [Disks -> Ids \cup {None}]
         /\ DOMAIN ids = {"pool", "next", "objects"}

IInv == Shape /\ LinesInv /\ OneCall /\ CallsMatch /\ FsInv /\ HeldInv /\ IdInv

-----------------------------------------------------------------------------
(* Lines of requests *)

\* What the assumption says of the constants.
LEMMA Constants ==
    /\ None \notin Disks /\ None \notin Nat /\ Disks \cap Users = {}
    /\ IsFiniteSet(Disks) /\ Cardinality(Disks) \in Nat /\ DiskOf \in [Users -> Disks]
  BY MountsAssumption, FS_CardinalityType DEF MountsAssumption

\* Every sequence has a length.
LEMMA SeqLen == ASSUME NEW s, IsSeq(s) PROVE Len(s) \in Nat
  BY DEF IsSeq

\* What Append does to a sequence of anything.
LEMMA Appended ==
    ASSUME NEW s, IsSeq(s), NEW e
    PROVE  /\ IsSeq(Append(s, e)) /\ Len(Append(s, e)) = Len(s) + 1
           /\ \A i \in 1 .. Len(s) : Append(s, e)[i] = s[i]
           /\ Append(s, e)[Len(s) + 1] = e
  <1>1. PICK S : s \in Seq(S)
    BY DEF IsSeq
  <1>2. s \in Seq(S \cup {e}) /\ e \in S \cup {e}
    BY <1>1
  <1>3. Append(s, e) \in Seq(S \cup {e})
    BY <1>2
  <1>4. IsSeq(Append(s, e))
    BY <1>3, Zenon DEF IsSeq
  <1> QED
    BY <1>2, <1>4

\* What Tail does to one.
LEMMA Shortened ==
    ASSUME NEW s, IsSeq(s), s # <<>>
    PROVE  /\ IsSeq(Tail(s)) /\ Len(s) \in Nat \ {0} /\ Len(Tail(s)) = Len(s) - 1
           /\ \A i \in 1 .. Len(s) - 1 : Tail(s)[i] = s[i + 1]
           /\ Head(s) = s[1]
  <1>1. PICK S : s \in Seq(S)
    BY DEF IsSeq
  <1>2. Tail(s) \in Seq(S)
    BY <1>1
  <1>3. IsSeq(Tail(s))
    BY <1>2, Zenon DEF IsSeq
  <1> QED
    BY <1>1, <1>3

\* A call is made: the requests that wait are those that waited and r.
LEMMA LineGrows ==
    ASSUME LinesInv, NEW r, IsRequest(r), line' = Append(line, r)
    PROVE  /\ IsSeq(line)' /\ \A i \in 1 .. Len(line') : IsRequest(line[i])'
           /\ \A i, d : Waits(d, i)' => /\ \/ Waits(d, i) /\ line'[i] = line[i]
                                           \/ i = Len(line) + 1 /\ r.who = d /\ line'[i] = r
  <1>1. \A i \in 1 .. Len(line') : \/ i \in 1 .. Len(line) /\ line'[i] = line[i]
                                   \/ i = Len(line) + 1 /\ line'[i] = r
    BY Appended, SeqLen DEF LinesInv
  <1>2. \A i \in 1 .. Len(line') : IsRequest(line[i])'
    BY <1>1 DEF LinesInv, IsRequest
  <1> QED
    BY <1>1, <1>2, Appended DEF LinesInv, Waits

\* The oldest call is taken.
LEMMA LineShrinks ==
    ASSUME LinesInv, line # <<>>, line' = Tail(line)
    PROVE  /\ IsSeq(line)' /\ \A i \in 1 .. Len(line') : IsRequest(line[i])'
           /\ IsRequest(Head(line)) /\ \A d : Head(line).who = d => Waits(d, 1)
           /\ Head(line) = line[1]
           /\ \A i, d : Waits(d, i)' =>
                i \in Nat \ {0} /\ i + 1 \in Nat /\ i + 1 # 1 /\ Waits(d, i + 1) /\ line'[i] = line[i + 1]
  <1>1. /\ IsSeq(Tail(line)) /\ Len(line) \in Nat \ {0} /\ Len(Tail(line)) = Len(line) - 1
        /\ \A i \in 1 .. Len(line) - 1 : Tail(line)[i] = line[i + 1]
        /\ Head(line) = line[1]
    BY Shortened DEF LinesInv
  <1>2. \A i \in 1 .. Len(line') : i + 1 \in 1 .. Len(line) /\ line'[i] = line[i + 1]
    BY <1>1
  <1>3. \A i \in 1 .. Len(line') : IsRequest(line[i])'
    BY <1>2 DEF LinesInv, IsRequest
  <1> QED
    BY <1>1, <1>2, <1>3 DEF LinesInv, Waits

\* The answer a is on its way.
LEMMA AnsweredGrows ==
    ASSUME LinesInv, NEW a, IsRequest(a.req), answered' = Append(answered, a)
    PROVE  /\ IsSeq(answered)' /\ \A i \in 1 .. Len(answered') : IsRequest(answered[i].req)'
           /\ \A i, d : Done(d, i)' => /\ \/ Done(d, i) /\ answered'[i] = answered[i]
                                          \/ /\ i = Len(answered) + 1 /\ a.req.who = d
                                             /\ answered'[i] = a
  <1>1. \A i \in 1 .. Len(answered') : \/ i \in 1 .. Len(answered) /\ answered'[i] = answered[i]
                                       \/ i = Len(answered) + 1 /\ answered'[i] = a
    BY Appended, SeqLen DEF LinesInv
  <1>2. \A i \in 1 .. Len(answered') : IsRequest(answered[i].req)'
    BY <1>1 DEF LinesInv, IsRequest
  <1> QED
    BY <1>1, <1>2, Appended DEF LinesInv, Done

\* The oldest answer is taken.
LEMMA AnsweredShrinks ==
    ASSUME LinesInv, answered # <<>>, answered' = Tail(answered)
    PROVE  /\ IsSeq(answered)' /\ \A i \in 1 .. Len(answered') : IsRequest(answered[i].req)'
           /\ IsRequest(Head(answered).req) /\ Head(answered) = answered[1]
           /\ \A d : Head(answered).req.who = d => Done(d, 1)
           /\ \A i, d : Done(d, i)' =>
                /\ i \in Nat \ {0} /\ i + 1 \in Nat /\ i + 1 # 1
                /\ Done(d, i + 1) /\ answered'[i] = answered[i + 1]
  <1>1. /\ IsSeq(Tail(answered)) /\ Len(answered) \in Nat \ {0}
        /\ Len(Tail(answered)) = Len(answered) - 1
        /\ \A i \in 1 .. Len(answered) - 1 : Tail(answered)[i] = answered[i + 1]
        /\ Head(answered) = answered[1]
    BY Shortened DEF LinesInv
  <1>2. \A i \in 1 .. Len(answered') : i + 1 \in 1 .. Len(answered) /\ answered'[i] = answered[i + 1]
    BY <1>1
  <1>3. \A i \in 1 .. Len(answered') : IsRequest(answered[i].req)'
    BY <1>2 DEF LinesInv, IsRequest
  <1> QED
    BY <1>1, <1>2, <1>3 DEF LinesInv, Done

-----------------------------------------------------------------------------
(* The ids *)

\* While a disk has no id and the pool is empty, the counter can go on: every id up
\* to it is that of another disk.
LEMMA IdLeft ==
    ASSUME Shape, IdInv, NEW d \in Disks, diskId[d] = None, ids.pool = <<>>
    PROVE  ids.next + 1 \in Ids
  <1> DEFINE S == 1 .. ids.next
             T == Disks \ {d}
             f == [i \in S |-> ids.objects[i]]
  <1>1. S \subseteq Ids /\ ids.next \in Nat
    BY Constants DEF IdInv, Ids
  <1>2. \A i \in S : ids.objects[i] # None /\ diskId[ids.objects[i]] = i
    BY DEF IdInv
  <1>3. \A i \in S : ids.objects[i] \in T
    BY <1>1, <1>2, Constants DEF IdInv
  <1>4. f \in [S -> T] /\ \A i, j \in S : f[i] = f[j] => i = j
    BY <1>2, <1>3
  <1>5. f \in Injection(S, T)
    BY <1>4 DEF Injection, IsInjective
  <1>6. IsFiniteSet(T) /\ Cardinality(T) = Cardinality(Disks) - 1
    BY Constants, FS_RemoveElement
  <1>7. Cardinality(S) <= Cardinality(T)
    BY <1>5, <1>6, FS_Injection
  <1>8. Cardinality(S) = ids.next
    BY <1>1, FS_Interval
  <1> QED
    BY <1>1, <1>6, <1>7, <1>8, Constants DEF Ids

\* What idPool.shift() takes and leaves.
LEMMA PoolShortened ==
    ASSUME NEW S, NEW p \in Seq(S), p # <<>>
    PROVE  /\ Len(p) \in Nat \ {0} /\ Head(p) = p[1] /\ Head(p) \in S
           /\ Tail(p) \in Seq(S) /\ Len(Tail(p)) = Len(p) - 1
           /\ \A k \in 1 .. Len(Tail(p)) : Tail(p)[k] = p[k + 1] /\ k + 1 \in 1 .. Len(p)
  OBVIOUS

\* setObject: d gets an id that no disk has.
LEMMA IdTaken ==
    ASSUME Shape, IdInv, NEW d \in Disks, diskId[d] = None, SetObject(d)
    PROVE  /\ IdInv' /\ diskId' \in [Disks -> Ids \cup {None}]
           /\ DOMAIN ids' = {"pool", "next", "objects"}
           /\ diskId'[d] # None /\ \A e \in Disks \ {d} : diskId'[e] = diskId[e]
  <1> DEFINE r == ReserveId(ids)
  <1>1. /\ ids.next \in Nat /\ Cardinality(Disks) \in Nat /\ ids.next <= Cardinality(Disks)
        /\ ids.pool \in Seq(1 .. ids.next) /\ ids.objects \in [Ids -> Disks \cup {None}]
        /\ diskId \in [Disks -> Ids \cup {None}] /\ 1 .. ids.next \subseteq Ids
    BY Constants DEF IdInv, Shape, Ids
  <1>2. /\ ids' = [pool |-> r.pool, next |-> r.next, objects |-> [ids.objects EXCEPT ![r.id] = d]]
        /\ diskId' = [diskId EXCEPT ![d] = r.id]
    BY DEF SetObject
  <1>3. CASE ids.pool = <<>>
    <2>1. r.id = ids.next + 1 /\ r.pool = <<>> /\ r.next = ids.next + 1
      BY <1>3 DEF ReserveId
    <2>2. ids.next + 1 \in Ids
      BY <1>3, IdLeft
    <2>3. /\ ids'.pool = <<>> /\ ids'.next = ids.next + 1 /\ Len(ids'.pool) = 0
          /\ ids'.objects \in [Ids -> Disks \cup {None}] /\ ids'.objects[ids.next + 1] = d
          /\ \A i \in 1 .. ids.next : ids'.objects[i] = ids.objects[i]
      BY <1>1, <1>2, <2>1, <2>2
    <2>4. /\ diskId' \in [Disks -> Ids \cup {None}] /\ diskId'[d] = ids.next + 1
          /\ \A e \in Disks \ {d} : diskId'[e] = diskId[e]
      BY <1>1, <1>2, <2>1, <2>2
    <2>5. ids'.next \in 0 .. Cardinality(Disks)
      BY <2>2, <2>3, <1>1 DEF Ids
    <2>6. ASSUME NEW i \in 1 .. ids'.next
          PROVE  ids'.objects[i] # None /\ diskId'[ids'.objects[i]] = i
      <3>1. CASE i = ids.next + 1
        BY <3>1, <2>3, <2>4, Constants
      <3>2. CASE i \in 1 .. ids.next
        <4>1. ids.objects[i] # None /\ diskId[ids.objects[i]] = i
          BY <3>2, <1>3 DEF IdInv
        <4>2. ids.objects[i] # d
          BY <4>1, <1>1, Constants
        <4>3. ids.objects[i] \in Disks /\ ids'.objects[i] = ids.objects[i]
          BY <3>2, <4>1, <1>1, <2>3
        <4> QED
          BY <4>1, <4>2, <4>3, <2>4
      <3> QED
        BY <3>1, <3>2, <2>3, <1>1
    <2>7. ASSUME NEW e \in Disks, diskId'[e] # None
          PROVE  diskId'[e] \in 1 .. ids'.next /\ ids'.objects[diskId'[e]] = e
      BY <2>7, <2>3, <2>4, <1>1 DEF IdInv
    <2>8. ids'.pool \in Seq(1 .. ids'.next)
      BY <2>3
    <2>9. IdInv'
      BY <2>3, <2>5, <2>6, <2>7, <2>8 DEF IdInv, Ids
    <2> QED
      BY <1>2, <2>4, <2>9, <1>1, Constants
  <1>4. CASE ids.pool # <<>>
    <2>1. r.id = Head(ids.pool) /\ r.pool = Tail(ids.pool) /\ r.next = ids.next
      BY <1>4 DEF ReserveId
    <2>2. /\ Len(ids.pool) \in Nat \ {0} /\ r.id = ids.pool[1] /\ r.id \in 1 .. ids.next
          /\ r.pool \in Seq(1 .. ids.next) /\ Len(r.pool) = Len(ids.pool) - 1
          /\ \A k \in 1 .. Len(r.pool) : r.pool[k] = ids.pool[k + 1] /\ k + 1 \in 1 .. Len(ids.pool)
      <3>1. /\ Len(ids.pool) \in Nat \ {0} /\ Head(ids.pool) = ids.pool[1]
            /\ Head(ids.pool) \in 1 .. ids.next
            /\ Tail(ids.pool) \in Seq(1 .. ids.next) /\ Len(Tail(ids.pool)) = Len(ids.pool) - 1
            /\ \A k \in 1 .. Len(Tail(ids.pool)) :
                  Tail(ids.pool)[k] = ids.pool[k + 1] /\ k + 1 \in 1 .. Len(ids.pool)
        BY <1>1, <1>4, PoolShortened
      <3> QED
        BY <2>1, <3>1
    <2>3. /\ ids'.pool = r.pool /\ ids'.next = ids.next
          /\ ids'.objects \in [Ids -> Disks \cup {None}] /\ ids'.objects[r.id] = d
          /\ \A i \in 1 .. ids.next : i # r.id => ids'.objects[i] = ids.objects[i]
      BY <1>1, <1>2, <2>1, <2>2
    <2>4. /\ diskId' \in [Disks -> Ids \cup {None}] /\ diskId'[d] = r.id
          /\ \A e \in Disks \ {d} : diskId'[e] = diskId[e]
      BY <1>1, <1>2, <2>2
    <2>5. ASSUME NEW k \in 1 .. Len(r.pool)
          PROVE  /\ r.pool[k] # r.id /\ r.pool[k] \in 1 .. ids.next
                 /\ ids'.objects[r.pool[k]] = None
      <3>1. k + 1 \in 1 .. Len(ids.pool) /\ 1 \in 1 .. Len(ids.pool) /\ k + 1 # 1
        BY <2>2
      <3>2. ids.pool[k + 1] # ids.pool[1] /\ ids.objects[ids.pool[k + 1]] = None
        BY <3>1 DEF IdInv
      <3>3. ids.pool[k + 1] \in 1 .. ids.next
        BY <3>1, <1>1
      <3> QED
        BY <3>2, <3>3, <2>2, <2>3
    <2>6. ASSUME NEW k \in 1 .. Len(r.pool), NEW l \in 1 .. Len(r.pool), r.pool[k] = r.pool[l]
          PROVE  k = l
      <3>1. k + 1 \in 1 .. Len(ids.pool) /\ l + 1 \in 1 .. Len(ids.pool)
            /\ ids.pool[k + 1] = ids.pool[l + 1]
        BY <2>2, <2>6
      <3>2. k + 1 = l + 1
        BY <3>1 DEF IdInv
      <3> QED
        BY <3>2, <2>2
    <2>8. ids.objects[r.id] = None
      BY <2>2 DEF IdInv
    <2>9. ASSUME NEW i \in 1 .. ids.next
          PROVE  \/ ids'.objects[i] # None /\ diskId'[ids'.objects[i]] = i
                 \/ \E k \in 1 .. Len(r.pool) : r.pool[k] = i
      <3>1. CASE i = r.id
        BY <3>1, <2>3, <2>4, Constants
      <3>2. CASE i # r.id /\ ids.objects[i] # None /\ diskId[ids.objects[i]] = i
        <4>1. ids.objects[i] \in Disks /\ ids.objects[i] # d /\ i \in Nat
          BY <3>2, <1>1, Constants
        <4> QED
          BY <3>2, <4>1, <2>3, <2>4
      <3>3. CASE i # r.id /\ \E k \in 1 .. Len(ids.pool) : ids.pool[k] = i
        <4>1. PICK k \in 1 .. Len(ids.pool) : ids.pool[k] = i
          BY <3>3
        <4>2. k # 1 /\ k - 1 \in 1 .. Len(r.pool)
          BY <4>1, <3>3, <2>2
        <4>3. r.pool[k - 1] = ids.pool[(k - 1) + 1]
          BY <4>2, <2>2
        <4> QED
          BY <4>1, <4>2, <4>3
      <3> QED
        BY <3>1, <3>2, <3>3 DEF IdInv
    <2>10. ASSUME NEW e \in Disks, diskId'[e] # None
           PROVE  diskId'[e] \in 1 .. ids.next /\ ids'.objects[diskId'[e]] = e
      <3>1. CASE e = d
        BY <3>1, <2>2, <2>3, <2>4
      <3>2. CASE e # d
        <4>1. diskId'[e] = diskId[e] /\ diskId[e] \in 1 .. ids.next /\ ids.objects[diskId[e]] = e
          BY <3>2, <2>4, <2>10 DEF IdInv
        <4>2. diskId[e] # r.id
          BY <4>1, <2>8, Constants
        <4> QED
          BY <4>1, <4>2, <2>3
      <3> QED
        BY <3>1, <3>2
    <2>11. /\ \A k, l \in 1 .. Len(ids'.pool) : ids'.pool[k] = ids'.pool[l] => k = l
           /\ \A k \in 1 .. Len(ids'.pool) : ids'.objects[ids'.pool[k]] = None
      BY <2>3, <2>5, <2>6
    <2>12. /\ ids'.next \in 0 .. Cardinality(Disks) /\ ids'.pool \in Seq(1 .. ids'.next)
           /\ ids'.objects \in [Ids -> Disks \cup {None}]
      BY <1>1, <2>2, <2>3
    <2>13. \A i \in 1 .. ids'.next : \/ ids'.objects[i] # None /\ diskId'[ids'.objects[i]] = i
                                     \/ \E k \in 1 .. Len(ids'.pool) : ids'.pool[k] = i
      BY <2>3, <2>9
    <2>14. IdInv'
      BY <2>3, <2>10, <2>11, <2>12, <2>13 DEF IdInv, Ids
    <2> QED
      BY <1>2, <2>2, <2>4, <2>14, <1>1, Constants
  <1> QED
    BY <1>3, <1>4

\* deleteObject: the id of d goes to the pool.
LEMMA IdGivenBack ==
    ASSUME Shape, IdInv, NEW d \in Disks, diskId[d] # None,
           DeleteObject(diskId[d]), diskId' = [diskId EXCEPT ![d] = None]
    PROVE  /\ IdInv' /\ diskId' \in [Disks -> Ids \cup {None}]
           /\ DOMAIN ids' = {"pool", "next", "objects"}
           /\ diskId'[d] = None /\ \A e \in Disks \ {d} : diskId'[e] = diskId[e]
  <1> DEFINE x == diskId[d]
             n == Len(ids.pool)
  <1>1. /\ ids.next \in Nat /\ ids.pool \in Seq(1 .. ids.next) /\ n \in Nat
        /\ ids.objects \in [Ids -> Disks \cup {None}] /\ 1 .. ids.next \subseteq Ids
        /\ diskId \in [Disks -> Ids \cup {None}] /\ x \in 1 .. ids.next /\ ids.objects[x] = d
    BY Constants DEF IdInv, Shape, Ids
  <1>2. /\ DOMAIN ids' = {"pool", "next", "objects"} /\ ids'.next = ids.next
        /\ ids'.pool = Append(ids.pool, x) /\ ids'.objects = [ids.objects EXCEPT ![x] = None]
    BY DEF DeleteObject, Shape
  <1>3. /\ diskId' \in [Disks -> Ids \cup {None}] /\ diskId'[d] = None
        /\ \A e \in Disks \ {d} : diskId'[e] = diskId[e]
    BY <1>1
  <1>4. /\ ids'.pool \in Seq(1 .. ids.next) /\ Len(ids'.pool) = n + 1 /\ ids'.pool[n + 1] = x
        /\ \A k \in 1 .. n : ids'.pool[k] = ids.pool[k] /\ ids'.pool[k] \in 1 .. ids.next
    <2> HIDE DEF x
    <2> QED
      BY <1>1, <1>2
  <1>5. /\ ids'.objects \in [Ids -> Disks \cup {None}] /\ ids'.objects[x] = None
        /\ \A i \in 1 .. ids.next : i # x => ids'.objects[i] = ids.objects[i]
    BY <1>1, <1>2
  <1>6. \A k \in 1 .. n : ids.pool[k] # x
    BY <1>1, Constants DEF IdInv
  <1>7. \A k, l \in 1 .. Len(ids'.pool) : ids'.pool[k] = ids'.pool[l] => k = l
    <2> SUFFICES ASSUME NEW k \in 1 .. n + 1, NEW l \in 1 .. n + 1, ids'.pool[k] = ids'.pool[l]
                 PROVE  k = l
      BY <1>4
    <2>1. CASE k \in 1 .. n /\ l \in 1 .. n
      BY <2>1, <1>4 DEF IdInv
    <2>2. CASE k = n + 1 \/ l = n + 1
      <3>1. ids'.pool[n + 1] = x /\ \A m \in 1 .. n : ids'.pool[m] # x
        BY <1>4, <1>6
      <3> QED
        BY <2>2, <3>1, <1>1
    <2>3. (k \in 1 .. n \/ k = n + 1) /\ (l \in 1 .. n \/ l = n + 1)
      <3> HIDE DEF n
      <3> QED
        BY <1>1
    <2> QED
      BY <2>1, <2>2, <2>3, Zenon
  <1>8. \A k \in 1 .. Len(ids'.pool) : ids'.objects[ids'.pool[k]] = None
    <2> SUFFICES ASSUME NEW k \in 1 .. n + 1 PROVE ids'.objects[ids'.pool[k]] = None
      BY <1>4
    <2>1. CASE k \in 1 .. n
      <3>1. ids'.pool[k] = ids.pool[k] /\ ids.pool[k] \in 1 .. ids.next /\ ids.pool[k] # x
        BY <2>1, <1>4, <1>6
      <3>2. ids.objects[ids.pool[k]] = None
        BY <2>1 DEF IdInv
      <3> QED
        BY <3>1, <3>2, <1>5
    <2> QED
      BY <2>1, <1>1, <1>4, <1>5
  <1>9. ASSUME NEW i \in 1 .. ids.next
        PROVE  \/ ids'.objects[i] # None /\ diskId'[ids'.objects[i]] = i
               \/ \E k \in 1 .. Len(ids'.pool) : ids'.pool[k] = i
    <2>1. CASE i = x
      <3>1. n + 1 \in 1 .. Len(ids'.pool)
        BY <1>1, <1>4
      <3> QED
        BY <2>1, <3>1, <1>4
    <2>2. CASE i # x /\ ids.objects[i] # None /\ diskId[ids.objects[i]] = i
      <3>1. ids.objects[i] \in Disks /\ ids'.objects[i] = ids.objects[i]
        BY <2>2, <1>1, <1>5
      <3>2. ids.objects[i] # d
        BY <2>2
      <3>3. diskId'[ids.objects[i]] = diskId[ids.objects[i]]
        BY <3>1, <3>2, <1>3, Zenon
      <3> QED
        BY <2>2, <3>1, <3>3, Zenon
    <2>3. CASE i # x /\ \E k \in 1 .. n : ids.pool[k] = i
      <3>1. PICK k \in 1 .. n : ids.pool[k] = i
        BY <2>3
      <3>2. ids'.pool[k] = i
        BY <3>1, <1>4
      <3>3. n \in Nat /\ Len(ids'.pool) = n + 1
        BY <1>1, <1>4
      <3> HIDE DEF n
      <3>4. k \in 1 .. Len(ids'.pool)
        BY <3>3
      <3> QED
        BY <3>2, <3>4
    <2> QED
      BY <2>1, <2>2, <2>3 DEF IdInv
  <1>10. ASSUME NEW e \in Disks, diskId'[e] # None
         PROVE  diskId'[e] \in 1 .. ids.next /\ ids'.objects[diskId'[e]] = e
    <2>1. e # d /\ diskId'[e] = diskId[e] /\ diskId[e] \in 1 .. ids.next /\ ids.objects[diskId[e]] = e
      BY <1>3, <1>10 DEF IdInv
    <2> QED
      BY <2>1, <1>1, <1>5
  <1>11. IdInv'
    BY <1>2, <1>4, <1>5, <1>7, <1>8, <1>9, <1>10 DEF IdInv, Ids
  <1> QED
    BY <1>2, <1>3, <1>11

-----------------------------------------------------------------------------
(* One call at a time *)

\* No call of d is on its way, but for the answer that is being taken.
Unasked(d) == /\ \A i \in Nat : ~Waits(d, i)
              /\ \A i \in Nat : ~Done(d, i)'

\* What a step of JavaScript does to the lines: it takes an answer or none, and makes
\* a call or none; a disk that makes one, or changes its phase, has no other.
AnswerTaken == \/ answered' = answered
               \/ answered # <<>> /\ answered' = Tail(answered)
CallMade == \/ line' = line
            \/ \E r : /\ IsRequest(r) /\ line' = Append(line, r)
                      /\ r.who \in Disks => /\ Unasked(r.who) /\ Fits(r.who, r.what)'
                                            /\ r.what = "mount" => r.who \notin cFs
PhasesMoved == \A d \in Disks : /\ fs'[d] = fs[d] \/ Unasked(d)
                                /\ fs'[d] = "unmounted" => d \notin cFs

\* A step that is no continuation takes no answer.
LEMMA NoAnswer == ASSUME answered' = answered PROVE AnswerTaken
  BY DEF AnswerTaken

\* A disk that waits for nothing.
LEMMA Idle ==
    ASSUME CallsMatch, NEW d \in Disks, fs[d] \in {"unmounted", "mounted"}
    PROVE  \A i \in Nat : ~Waits(d, i) /\ ~Done(d, i)
  BY DEF CallsMatch, Fits

\* The disk that an answer is for waits for nothing else.
LEMMA Answered ==
    ASSUME LinesInv, OneCall, CallsMatch, answered # <<>>, answered' = Tail(answered)
    PROVE  LET r == Head(answered).req IN
           /\ IsRequest(r) /\ Head(answered) = answered[1] /\ 1 \in Nat
           /\ r.who \in Disks => Unasked(r.who) /\ Fits(r.who, r.what) /\ Done(r.who, 1)
  <1> DEFINE r == Head(answered).req
  <1>1. /\ IsRequest(r) /\ Head(answered) = answered[1]
        /\ \A d : r.who = d => Done(d, 1)
        /\ \A i, d : Done(d, i)' => i + 1 \in Nat /\ i + 1 # 1 /\ Done(d, i + 1)
    BY AnsweredShrinks, Zenon
  <1>2. r.who \in Disks => Unasked(r.who) /\ Fits(r.who, r.what)
    <2> SUFFICES ASSUME NEW d \in Disks, d = r.who
                 PROVE  Unasked(d) /\ Fits(d, r.what)
      OBVIOUS
    <2>1. Done(d, 1)
      BY <1>1
    <2>2. \A i \in Nat : ~Waits(d, i)
      BY <2>1 DEF OneCall
    <2>3. \A i \in Nat : Done(d, i) => i = 1
      BY <2>1 DEF OneCall
    <2>4. \A i \in Nat : ~Done(d, i)'
      BY <2>3, <1>1
    <2>5. Fits(d, r.what)
      BY <2>1, <1>1 DEF CallsMatch
    <2> QED
      BY <2>2, <2>4, <2>5 DEF Unasked
  <1> QED
    BY <1>1, <1>2

\* The parts of the invariant that are about the lines survive such a step.
LEMMA JavaScriptStep ==
    ASSUME LinesInv, OneCall, CallsMatch, FsInv,
           AnswerTaken, CallMade, PhasesMoved, cFs' = cFs
    PROVE  LinesInv' /\ OneCall' /\ CallsMatch' /\ FsInv'
  <1>1. /\ IsSeq(answered)' /\ \A i \in 1 .. Len(answered') : IsRequest(answered[i].req)'
        /\ \E n \in {0, 1} : \A d : \A i \in Nat : Done(d, i)' =>
             i + n \in Nat /\ Done(d, i + n) /\ answered'[i] = answered[i + n]
    <2>1. CASE answered' = answered
      <3>1. \A d : \A i \in Nat : Done(d, i)' =>
              i + 0 \in Nat /\ Done(d, i + 0) /\ answered'[i] = answered[i + 0]
        BY <2>1 DEF Done
      <3>2. IsSeq(answered)' /\ \A i \in 1 .. Len(answered') : IsRequest(answered[i].req)'
        BY <2>1 DEF LinesInv, IsSeq, IsRequest
      <3> QED
        BY <3>1, <3>2
    <2>2. CASE answered # <<>> /\ answered' = Tail(answered)
      BY <2>2, AnsweredShrinks
    <2> QED
      BY <2>1, <2>2 DEF AnswerTaken
  <1> DEFINE Kept(d) == \A i \in Nat : Waits(d, i)' => Waits(d, i) /\ line'[i] = line[i]
             Alone(d) == /\ Unasked(d)
                         /\ \E n \in Nat : \A i \in Nat : Waits(d, i)' =>
                              /\ i = n /\ Fits(d, line[i].what)'
                              /\ line'[i].what = "mount" => d \notin cFs
  <1>2. /\ IsSeq(line)' /\ \A i \in 1 .. Len(line') : IsRequest(line[i])'
        /\ \A d \in Disks : Kept(d) \/ Alone(d)
    <2>1. CASE line' = line
      BY <2>1 DEF LinesInv, IsSeq, IsRequest, Waits
    <2>2. CASE \E r : /\ IsRequest(r) /\ line' = Append(line, r)
                      /\ r.who \in Disks => /\ Unasked(r.who) /\ Fits(r.who, r.what)'
                                            /\ r.what = "mount" => r.who \notin cFs
      <3>1. PICK r : /\ IsRequest(r) /\ line' = Append(line, r)
                     /\ r.who \in Disks => /\ Unasked(r.who) /\ Fits(r.who, r.what)'
                                           /\ r.what = "mount" => r.who \notin cFs
        BY <2>2
      <3>2. /\ IsSeq(line)' /\ \A i \in 1 .. Len(line') : IsRequest(line[i])'
            /\ \A i, d : Waits(d, i)' => \/ Waits(d, i) /\ line'[i] = line[i]
                                         \/ i = Len(line) + 1 /\ r.who = d /\ line'[i] = r
        BY <3>1, LineGrows, Zenon
      <3>3. Len(line) + 1 \in Nat
        BY SeqLen DEF LinesInv
      <3>4. ASSUME NEW d \in Disks, d # r.who PROVE Kept(d)
        BY <3>2, <3>4
      <3>5. ASSUME NEW d \in Disks, d = r.who PROVE Alone(d)
        <4>1. Unasked(d) /\ Fits(d, r.what)' /\ (r.what = "mount" => d \notin cFs)
          BY <3>1, <3>5
        <4>2. ASSUME NEW i \in Nat, Waits(d, i)' PROVE i = Len(line) + 1 /\ line'[i] = r
          BY <4>1, <4>2, <3>2 DEF Unasked
        <4>3. ASSUME NEW i \in Nat, Waits(d, i)' PROVE Fits(d, line[i].what)'
          BY <4>1, <4>2, <4>3 DEF Fits
        <4> QED
          BY <4>1, <4>2, <4>3, <3>3
      <3> QED
        BY <3>2, <3>4, <3>5
    <2> QED
      BY <2>1, <2>2 DEF CallMade
  <1> HIDE DEF Kept, Alone
  <1>3. PICK n \in {0, 1} : \A d : \A i \in Nat : Done(d, i)' =>
             i + n \in Nat /\ Done(d, i + n) /\ answered'[i] = answered[i + n]
    BY <1>1
  <1>4. LinesInv'
    BY <1>1, <1>2 DEF LinesInv
  <1>5. ASSUME NEW d \in Disks
        PROVE  \A i, j \in Nat : /\ Waits(d, i)' /\ Waits(d, j)' => i = j
                                 /\ Done(d, i)' /\ Done(d, j)' => i = j
                                 /\ ~(Waits(d, i)' /\ Done(d, j)')
    <2> SUFFICES ASSUME NEW i \in Nat, NEW j \in Nat
                 PROVE  /\ Waits(d, i)' /\ Waits(d, j)' => i = j
                        /\ Done(d, i)' /\ Done(d, j)' => i = j
                        /\ ~(Waits(d, i)' /\ Done(d, j)')
      OBVIOUS
    <2>1. Done(d, i)' /\ Done(d, j)' => i = j
      <3> SUFFICES ASSUME Done(d, i)', Done(d, j)' PROVE i = j
        OBVIOUS
      <3>1. i + n = j + n
        BY <1>3 DEF OneCall
      <3> QED
        BY <3>1
    <2>2. CASE Kept(d)
      BY <2>1, <2>2, <1>3 DEF Kept, OneCall
    <2>3. CASE Alone(d)
      BY <2>1, <2>3 DEF Alone, Unasked
    <2> QED
      BY <2>2, <2>3, <1>2
  <1>6. ASSUME NEW d \in Disks, NEW i \in Nat
        PROVE  /\ Waits(d, i)' => Fits(d, line[i].what)'
               /\ Waits(d, i)' /\ line'[i].what = "mount" => d \notin cFs
    <2>1. CASE Kept(d) /\ fs'[d] = fs[d]
      BY <2>1 DEF Kept, CallsMatch, FsInv, Fits
    <2>2. CASE Kept(d) /\ Unasked(d)
      BY <2>2 DEF Kept, Unasked
    <2>3. CASE Alone(d)
      BY <2>3 DEF Alone
    <2> QED
      BY <2>1, <2>2, <2>3, <1>2 DEF PhasesMoved
  <1>7. ASSUME NEW d \in Disks, NEW i \in Nat, Done(d, i)'
        PROVE  /\ Fits(d, answered[i].req.what)'
               /\ answered'[i].req.what = "mount" /\ ~answered'[i].ok => d \notin cFs
               /\ answered'[i].req.what = "umount" /\ answered'[i].ok => d \notin cFs
    <2>1. fs'[d] = fs[d]
      BY <1>7 DEF PhasesMoved, Unasked
    <2>2. i + n \in Nat /\ Done(d, i + n) /\ answered'[i] = answered[i + n]
      BY <1>3, <1>7
    <2> QED
      BY <2>1, <2>2 DEF CallsMatch, FsInv, Fits
  <1>8. OneCall'
    BY <1>5 DEF OneCall
  <1>9. CallsMatch'
    BY <1>6, <1>7 DEF CallsMatch
  <1>10. FsInv'
    BY <1>6, <1>7 DEF FsInv, PhasesMoved
  <1> QED
    BY <1>4, <1>8, <1>9, <1>10

\* C does the oldest call: the request becomes an answer.
LEMMA ServeStep ==
    ASSUME LinesInv, OneCall, CallsMatch, FsInv, Serve
    PROVE  LinesInv' /\ OneCall' /\ CallsMatch' /\ FsInv'
  <1> DEFINE r == Head(line)
  <1>1. PICK ok, p :
          /\ ok \in BOOLEAN /\ line # <<>> /\ line' = Tail(line) /\ fs' = fs
          /\ answered' = Append(answered, [req |-> r, ok |-> ok, ptr |-> p])
          /\ cFs' = CASE r.what = "mount" /\ ok  -> cFs \cup {DiskOfRequest(r)}
                      [] r.what = "umount" /\ ok -> cFs \ {DiskOfRequest(r)}
                      [] OTHER                   -> cFs
    BY DEF Serve, js
  <1> DEFINE a == [req |-> r, ok |-> ok, ptr |-> p]
  <1>2. /\ IsSeq(line)' /\ \A i \in 1 .. Len(line') : IsRequest(line[i])'
        /\ IsRequest(r) /\ r = line[1] /\ \A d : r.who = d => Waits(d, 1)
        /\ \A i, d : Waits(d, i)' =>
              i + 1 \in Nat /\ i + 1 # 1 /\ Waits(d, i + 1) /\ line'[i] = line[i + 1]
    BY <1>1, LineShrinks, Zenon
  <1>3. /\ IsSeq(answered)' /\ \A i \in 1 .. Len(answered') : IsRequest(answered[i].req)'
        /\ \A i, d : Done(d, i)' => \/ Done(d, i) /\ answered'[i] = answered[i]
                                    \/ i = Len(answered) + 1 /\ a.req.who = d /\ answered'[i] = a
    <2>1. IsRequest(a.req)
      BY <1>2
    <2> QED
      BY <2>1, <1>1, AnsweredGrows, Zenon
  <1>4. Len(answered) + 1 \in Nat /\ a.req = r /\ a.ok = ok
    BY SeqLen DEF LinesInv
  <1>5. \A d \in Disks : d # r.who => (d \in cFs' <=> d \in cFs)
    BY <1>1, <1>2 DEF IsRequest, DiskOfRequest
  <1>6. r.who \in Disks => /\ r.what = "mount" /\ ~ok => (r.who \in cFs' <=> r.who \in cFs)
                           /\ r.what = "umount" /\ ok => r.who \notin cFs'
    BY <1>1 DEF DiskOfRequest
  <1> HIDE DEF r, a
  <1>7. ASSUME NEW d \in Disks, d = r.who
        PROVE  /\ \A i \in Nat : ~Waits(d, i)'
               /\ \A i \in Nat : Done(d, i)' => i = Len(answered) + 1 /\ answered'[i] = a
               /\ Fits(d, r.what)
               /\ r.what = "mount" => d \notin cFs
    <2>1. Waits(d, 1)
      BY <1>2, <1>7
    <2>2. \A i \in Nat : ~Done(d, i) /\ (Waits(d, i) => i = 1)
      BY <2>1 DEF OneCall
    <2>3. Fits(d, r.what) /\ (r.what = "mount" => d \notin cFs)
      BY <2>1, <1>2 DEF CallsMatch, FsInv
    <2> QED
      BY <2>2, <2>3, <1>2, <1>3
  <1>8. ASSUME NEW d \in Disks, d # r.who
        PROVE  /\ \A i \in Nat : Waits(d, i)' =>
                     i + 1 \in Nat /\ Waits(d, i + 1) /\ line'[i] = line[i + 1]
               /\ \A i \in Nat : Done(d, i)' => Done(d, i) /\ answered'[i] = answered[i]
    BY <1>2, <1>3, <1>4, <1>8
  <1>9. LinesInv'
    BY <1>2, <1>3 DEF LinesInv
  <1>10. ASSUME NEW d \in Disks, NEW i \in Nat, NEW j \in Nat
         PROVE  /\ Waits(d, i)' /\ Waits(d, j)' => i = j
                /\ Done(d, i)' /\ Done(d, j)' => i = j
                /\ ~(Waits(d, i)' /\ Done(d, j)')
    <2>1. CASE d = r.who
      BY <2>1, <1>7
    <2>2. CASE d # r.who
      <3>1. Waits(d, i)' /\ Waits(d, j)' => i + 1 = j + 1
        BY <2>2, <1>8 DEF OneCall
      <3> QED
        BY <3>1, <2>2, <1>8 DEF OneCall
    <2> QED
      BY <2>1, <2>2
  <1>11. OneCall'
    BY <1>10 DEF OneCall
  <1>12. ASSUME NEW d \in Disks, NEW i \in Nat
         PROVE  /\ Waits(d, i)' => Fits(d, line[i].what)'
                /\ Done(d, i)'  => Fits(d, answered[i].req.what)'
    <2>1. \A what : Fits(d, what)' <=> Fits(d, what)
      BY <1>1 DEF Fits
    <2>2. CASE d = r.who
      BY <2>1, <2>2, <1>4, <1>7
    <2>3. CASE d # r.who
      BY <2>1, <2>3, <1>8 DEF CallsMatch
    <2> QED
      BY <2>2, <2>3
  <1>13. CallsMatch'
    BY <1>12 DEF CallsMatch
  <1>14. ASSUME NEW d \in Disks
         PROVE  /\ fs'[d] = "unmounted" => d \notin cFs'
                /\ \A i \in Nat :
                     /\ Waits(d, i)' /\ line'[i].what = "mount" => d \notin cFs'
                     /\ Done(d, i)' /\ answered'[i].req.what = "mount" /\ ~answered'[i].ok => d \notin cFs'
                     /\ Done(d, i)' /\ answered'[i].req.what = "umount" /\ answered'[i].ok => d \notin cFs'
    <2>1. CASE d = r.who
      <3>1. fs'[d] # "unmounted"
        BY <2>1, <1>1, <1>7 DEF Fits
      <3> QED
        BY <2>1, <3>1, <1>4, <1>6, <1>7
    <2>2. CASE d # r.who
      <3>1. fs'[d] = fs[d] /\ (d \in cFs' <=> d \in cFs)
        BY <2>2, <1>1, <1>5
      <3>2. ASSUME NEW i \in Nat, Waits(d, i)', line'[i].what = "mount" PROVE d \notin cFs
        BY <2>2, <3>2, <1>8 DEF FsInv
      <3>3. ASSUME NEW i \in Nat, Done(d, i)'
            PROVE  Done(d, i) /\ answered'[i] = answered[i]
        BY <2>2, <3>3, <1>8
      <3> QED
        BY <3>1, <3>2, <3>3 DEF FsInv
    <2> QED
      BY <2>1, <2>2
  <1>15. FsInv'
    BY <1>14 DEF FsInv
  <1> QED
    BY <1>9, <1>11, <1>13, <1>15

-----------------------------------------------------------------------------
(* The steps of JavaScript *)

\* Neither the ids nor the phases change.
LEMMA SameIds ==
    ASSUME Shape, HeldInv, IdInv, UNCHANGED <<fs, ids, diskId>>
    PROVE  Shape' /\ HeldInv' /\ IdInv'
  BY DEF Shape, HeldInv, IdInv, Ids

\* A phase changes, not to or from "unmounted".
LEMMA SameHeld ==
    ASSUME Shape, HeldInv, IdInv, UNCHANGED <<ids, diskId>>,
           NEW d \in Disks, fs[d] # "unmounted",
           NEW phase \in {"mounting", "mounted", "closing", "unmounting"},
           fs' = [fs EXCEPT ![d] = phase]
    PROVE  Shape' /\ HeldInv' /\ IdInv'
  BY DEF Shape, HeldInv, IdInv, Ids

\* A disk is mounted again: its close or its umount has failed.
LEMMA MountedAgain ==
    ASSUME IInv, NEW STATE d, d \in Disks, fs[d] \in {"closing", "unmounting"}, Unasked(d),
           AnswerTaken, fs' = [fs EXCEPT ![d] = "mounted"],
           UNCHANGED <<ids, diskId, line, cFs>>
    PROVE  IInv'
  <1>1. CallMade
    BY DEF CallMade
  <1>2. PhasesMoved
    BY DEF PhasesMoved, IInv, Shape, FsInv
  <1>3. Shape' /\ HeldInv' /\ IdInv'
    BY DEF IInv, Shape, HeldInv, IdInv, Ids
  <1> QED
    BY <1>1, <1>2, <1>3, JavaScriptStep DEF IInv

\* A disk is unmounted: its mount has failed, or its umount has not.
LEMMA Released ==
    ASSUME IInv, NEW STATE d, d \in Disks, fs[d] \in {"mounting", "unmounting"}, Unasked(d),
           AnswerTaken, CallMade, d \notin cFs, cFs' = cFs,
           fs' = [fs EXCEPT ![d] = "unmounted"],
           DeleteObject(diskId[d]), diskId' = [diskId EXCEPT ![d] = None]
    PROVE  IInv'
  <1>1. PICK e \in Disks : e = d
    OBVIOUS
  <1>2. diskId[e] # None
    BY <1>1 DEF IInv, HeldInv
  <1>3. /\ IdInv' /\ diskId' \in [Disks -> Ids \cup {None}]
        /\ DOMAIN ids' = {"pool", "next", "objects"}
        /\ diskId'[e] = None /\ \A x \in Disks \ {e} : diskId'[x] = diskId[x]
    BY <1>1, <1>2, IdGivenBack DEF IInv
  <1>4. /\ fs' \in [Disks -> {"unmounted", "mounting", "mounted", "closing", "unmounting"}]
        /\ fs'[e] = "unmounted" /\ \A x \in Disks \ {e} : fs'[x] = fs[x]
    BY <1>1 DEF IInv, Shape
  <1>5. Shape' /\ HeldInv'
    BY <1>3, <1>4 DEF IInv, Shape, HeldInv
  <1>6. PhasesMoved
    BY <1>1, <1>4 DEF PhasesMoved, IInv, FsInv
  <1> QED
    BY <1>3, <1>5, <1>6, JavaScriptStep DEF IInv

\* mount: its call is the only one of a disk that was unmounted.
LEMMA MountStep == ASSUME IInv, NEW d \in Disks, Mount(d) PROVE IInv'
  <1> USE DEF IInv
  <1>1. \A i \in Nat : ~Waits(d, i) /\ ~Done(d, i)
    BY Idle DEF Mount
  <1>2. Unasked(d) /\ d \notin cFs /\ diskId[d] = None
    BY <1>1 DEF Mount, Unasked, Done, FsInv, HeldInv
  <1>3. /\ IdInv' /\ diskId' \in [Disks -> Ids \cup {None}]
        /\ DOMAIN ids' = {"pool", "next", "objects"}
        /\ diskId'[d] # None /\ \A e \in Disks \ {d} : diskId'[e] = diskId[e]
    BY <1>2, IdTaken DEF Mount
  <1>4. fs' \in [Disks -> {"unmounted", "mounting", "mounted", "closing", "unmounting"}]
        /\ fs'[d] = "mounting" /\ \A e \in Disks \ {d} : fs'[e] = fs[e]
    BY DEF Mount, Shape
  <1>5. Shape' /\ HeldInv'
    BY <1>3, <1>4 DEF Shape, HeldInv
  <1>6. CallMade
    <2>1. /\ IsRequest(Request(d, "mount", None)) /\ Request(d, "mount", None).who = d
          /\ Request(d, "mount", None).what = "mount"
      BY DEF IsRequest, Request, Whats
    <2>2. Fits(d, "mount")'
      BY <1>4 DEF Fits
    <2> QED
      BY <1>2, <2>1, <2>2 DEF CallMade, Mount
  <1>7. AnswerTaken /\ PhasesMoved /\ cFs' = cFs
    <2>1. answered' = answered /\ cFs' = cFs
      BY DEF Mount, c
    <2> QED
      BY <2>1, <1>2, <1>4, NoAnswer DEF PhasesMoved, FsInv
  <1> QED
    BY <1>3, <1>5, <1>6, <1>7, JavaScriptStep

\* Calls of users do not count.
LEMMA UserStep ==
    ASSUME IInv, NEW u \in Users, Open(u) \/ Use(u) \/ Close(u)
    PROVE  IInv'
  <1> USE DEF IInv
  <1>1. /\ UNCHANGED <<fs, ids, diskId, cFs, answered>>
        /\ \/ line' = line
           \/ \E what \in {"path", "buffer", "close"} : \E ptr :
                line' = Append(line, Request(u, what, ptr))
    BY DEF Open, Use, Close, BadFd, c
  <1>2. CallMade
    <2>1. ASSUME NEW what \in {"path", "buffer", "close"}, NEW ptr
          PROVE  IsRequest(Request(u, what, ptr)) /\ Request(u, what, ptr).who \notin Disks
      BY Constants DEF IsRequest, Request, Whats
    <2> QED
      BY <1>1, <2>1 DEF CallMade
  <1>3. AnswerTaken /\ PhasesMoved
    <2>1. fs' = fs /\ answered' = answered
      BY <1>1
    <2> QED
      BY <2>1, NoAnswer DEF PhasesMoved, FsInv
  <1> QED
    BY <1>1, <1>2, <1>3, JavaScriptStep, SameIds

\* closeAllFileDescriptors goes on, of a disk that waits for nothing else.
LEMMA CloseNextStep ==
    ASSUME IInv, NEW d \in Disks, NEW STATE files, CloseNext(d, files), AnswerTaken, Unasked(d),
           fs[d] # "unmounted", UNCHANGED <<ids, diskId, cFs>>
    PROVE  IInv'
  <1> USE DEF IInv
  <1>1. PICK what, ptr :
          /\ what \in {"close", "umount"}
          /\ line' = Append(line, Request(d, what, ptr))
          /\ fs' = [fs EXCEPT ![d] = IF what = "close" THEN "closing" ELSE "unmounting"]
    <2>1. CASE files = <<>>
      BY <2>1 DEF CloseNext
    <2>2. CASE files # <<>>
      BY <2>2 DEF CloseNext
    <2> QED
      BY <2>1, <2>2
  <1>2. /\ fs'[d] = (IF what = "close" THEN "closing" ELSE "unmounting")
        /\ \A e \in Disks \ {d} : fs'[e] = fs[e]
    BY <1>1 DEF Shape
  <1>3. CallMade
    <2>1. /\ IsRequest(Request(d, what, ptr)) /\ Request(d, what, ptr).who = d
          /\ Request(d, what, ptr).what = what
      BY <1>1 DEF IsRequest, Request, Whats
    <2>2. Fits(d, what)'
      BY <1>1, <1>2 DEF Fits
    <2> QED
      BY <1>1, <2>1, <2>2 DEF CallMade
  <1>4. PhasesMoved
    BY <1>2 DEF PhasesMoved, FsInv
  <1>5. Shape' /\ HeldInv' /\ IdInv'
    BY <1>1, SameHeld
  <1> QED
    BY <1>3, <1>4, <1>5, JavaScriptStep

\* umount: a mounted disk waits for nothing.
LEMMA UmountStep == ASSUME IInv, NEW d \in Disks, Umount(d) PROVE IInv'
  <1>1. fs[d] = "mounted" /\ answered' = answered
    BY DEF Umount
  <1>2. \A i \in Nat : ~Waits(d, i) /\ ~Done(d, i)
    BY <1>1, Idle DEF IInv
  <1>3. Unasked(d) /\ AnswerTaken
    BY <1>1, <1>2, NoAnswer DEF Unasked, Done
  <1> QED
    BY <1>1, <1>3, CloseNextStep DEF Umount, c

\* An answer is taken, and its continuation runs up to its next await.
LEMMA ResumeStep == ASSUME IInv, Resume PROVE IInv'
  <1> DEFINE a == Head(answered)
             d == a.req.who
  <1>1. /\ answered # <<>> /\ answered' = Tail(answered) /\ cFs' = cFs
        /\ Continue(a)
    BY DEF Resume, c
  <1>2. AnswerTaken
    BY <1>1 DEF AnswerTaken
  <1>3. /\ IsRequest(a.req) /\ a = answered[1] /\ 1 \in Nat
        /\ d \in Disks => Unasked(d) /\ Fits(d, a.req.what) /\ Done(d, 1)
    BY <1>1, Answered DEF IInv
  <1> HIDE DEF a
  <1>4. CASE UNCHANGED <<fs, ids, diskId, line>>
    <2>1. CallMade /\ PhasesMoved
      BY <1>4 DEF CallMade, PhasesMoved, IInv, FsInv
    <2> QED
      BY <2>1, <1>1, <1>2, <1>4, JavaScriptStep, SameIds DEF IInv
  <1>5. CASE CallBinding(a)
    <2> DEFINE r == [a.req EXCEPT !.what = IF @ = "path" THEN "open" ELSE "read"]
    <2>1. /\ a.req.what \in {"path", "buffer"} /\ line' = Append(line, r)
          /\ UNCHANGED <<fs, ids, diskId>>
      BY <1>5 DEF CallBinding, js
    <2>2. d \notin Disks
      BY <2>1, <1>3 DEF Fits
    <2>3. IsRequest(r) /\ r.who \notin Disks
      BY <2>2, <1>3 DEF IsRequest, Whats
    <2>4. CallMade
      BY <2>1, <2>3 DEF CallMade
    <2>5. PhasesMoved
      BY <2>1 DEF PhasesMoved, IInv, FsInv
    <2> QED
      BY <2>1, <2>4, <2>5, <1>1, <1>2, JavaScriptStep, SameIds DEF IInv
  <1>6. CASE Mounted(a)
    <2>1. a.req.what = "mount" /\ d \in Disks /\ Unasked(d) /\ fs[d] = "mounting" /\ line' = line
      BY <1>6, <1>3 DEF Mounted, IsRequest, Fits
    <2>2. CallMade
      BY <2>1 DEF CallMade
    <2>3. CASE a.ok
      <3>1. fs' = [fs EXCEPT ![d] = "mounted"] /\ UNCHANGED <<ids, diskId>>
        BY <1>6, <2>3 DEF Mounted
      <3>2. PhasesMoved
        BY <3>1, <2>1 DEF PhasesMoved, IInv, Shape, FsInv
      <3> QED
        BY <2>1, <2>2, <3>1, <3>2, <1>1, <1>2, JavaScriptStep, SameHeld DEF IInv
    <2>4. CASE ~a.ok
      <3>1. /\ fs' = [fs EXCEPT ![d] = "unmounted"] /\ DeleteObject(diskId[d])
            /\ diskId' = [diskId EXCEPT ![d] = None]
        BY <1>6, <2>4 DEF Mounted
      <3>2. d \notin cFs
        BY <2>1, <2>4, <1>3 DEF IInv, FsInv
      <3> QED
        BY <2>1, <2>2, <3>1, <3>2, <1>1, <1>2, Released
    <2> QED
      BY <2>3, <2>4
  <1>7. CASE Opened(a)
    BY <1>4, <1>7 DEF Opened
  <1>8. CASE Used(a)
    BY <1>4, <1>8 DEF Used
  <1>9. CASE Closed(a)
    BY <1>4, <1>9 DEF Closed
  <1>10. CASE ClosedByUmount(a)
    <2>1. d \in Disks /\ Unasked(d) /\ fs[d] = "closing" /\ UNCHANGED <<ids, diskId>>
      BY <1>10, <1>3 DEF ClosedByUmount, Fits
    <2>2. CASE a.ok
      <3>1. CloseNext(d, DeleteFile(openFiles[d], a.ptr, a.ok))
        BY <1>10, <2>2 DEF ClosedByUmount
      <3> QED
        BY <2>1, <3>1, <1>1, <1>2, CloseNextStep
    <2>3. CASE ~a.ok
      <3>1. fs' = [fs EXCEPT ![d] = "mounted"] /\ line' = line
        BY <1>10, <2>3 DEF ClosedByUmount
      <3> QED
        BY <2>1, <3>1, <1>1, <1>2, MountedAgain
    <2> QED
      BY <2>2, <2>3
  <1>11. CASE Unmounted(a)
    <2>1. /\ a.req.what = "umount" /\ d \in Disks /\ Unasked(d) /\ fs[d] = "unmounting"
          /\ line' = line
      BY <1>11, <1>3 DEF Unmounted, UmountFails, IsRequest, Fits
    <2>2. CASE a.ok
      <3>1. /\ fs' = [fs EXCEPT ![d] = "unmounted"] /\ DeleteObject(diskId[d])
            /\ diskId' = [diskId EXCEPT ![d] = None]
        BY <1>11, <2>2 DEF Unmounted
      <3>2. d \notin cFs
        BY <2>1, <2>2, <1>3 DEF IInv, FsInv
      <3>3. CallMade
        BY <2>1 DEF CallMade
      <3> QED
        BY <2>1, <3>1, <3>2, <3>3, <1>1, <1>2, Released
    <2>3. CASE ~a.ok
      <3>1. fs' = [fs EXCEPT ![d] = "mounted"] /\ UNCHANGED <<ids, diskId>>
        BY <1>11, <2>3 DEF Unmounted, UmountFails
      <3> QED
        BY <2>1, <3>1, <1>1, <1>2, MountedAgain
    <2> QED
      BY <2>2, <2>3
  <1> QED
    BY <1>1, <1>5, <1>6, <1>7, <1>8, <1>9, <1>10, <1>11 DEF Continue

-----------------------------------------------------------------------------
(* The theorem *)

\* At first nothing is mounted.
LEMMA InitOK == Init => IInv
  <1> SUFFICES ASSUME Init PROVE IInv
    OBVIOUS
  <1>1. /\ line = <<>> /\ answered = <<>> /\ Len(line) = 0 /\ Len(answered) = 0
        /\ IsSeq(line) /\ IsSeq(answered)
    BY DEF Init, IsSeq
  <1>2. LinesInv /\ OneCall /\ CallsMatch
    BY <1>1 DEF LinesInv, OneCall, CallsMatch, Waits, Done
  <1>3. FsInv
    BY <1>1 DEF FsInv, Waits, Done, Init
  <1>4. Shape /\ HeldInv
    BY DEF Init, Shape, HeldInv
  <1>5. IdInv
    <2>1. ids.next = 0 /\ ids.pool = <<>> /\ Len(ids.pool) = 0 /\ ids.objects = [i \in Ids |-> None]
      BY DEF Init
    <2>2. \A e \in Disks : diskId[e] = None
      BY DEF Init
    <2> QED
      BY <2>1, <2>2, Constants DEF IdInv, Ids
  <1> QED
    BY <1>2, <1>3, <1>4, <1>5 DEF IInv

\* Every action keeps the invariant.
LEMMA NextOK == IInv /\ [Next]_vars => IInv'
  <1> SUFFICES ASSUME IInv, [Next]_vars PROVE IInv'
    OBVIOUS
  <1>1. CASE Serve
    <2>1. UNCHANGED <<fs, ids, diskId>>
      BY <1>1 DEF Serve, js
    <2> QED
      BY <1>1, <2>1, ServeStep, SameIds DEF IInv
  <1>2. CASE Resume
    BY <1>2, ResumeStep
  <1>3. ASSUME NEW d \in Disks, Mount(d) PROVE IInv'
    BY <1>3, MountStep
  <1>4. ASSUME NEW d \in Disks, Umount(d) PROVE IInv'
    BY <1>4, UmountStep
  <1>5. ASSUME NEW u \in Users, Open(u) \/ Use(u) \/ Close(u) PROVE IInv'
    BY <1>5, UserStep
  <1>6. CASE UNCHANGED vars
    BY <1>6 DEF vars, js, c, IInv, Shape, LinesInv, IsSeq, IsRequest, OneCall, CallsMatch,
                Waits, Done, Fits, FsInv, HeldInv, IdInv, Ids
  <1> QED
    BY <1>1, <1>2, <1>3, <1>4, <1>5, <1>6 DEF Next

\* The blocks that a filesystem of C reads and writes, from mount to umount, go
\* to the disk that JavaScript mounted it from (lib/ext2fs.js, src/pre.js).
THEOREM DisksKeptApart == Spec => []OwnDisk
  <1>1. IInv => OwnDisk
    BY DEF IInv, FsInv, HeldInv, IdInv, OwnDisk
  <1> QED
    BY <1>1, InitOK, NextOK, PTL DEF Spec

\* No two mounts have the same id at a time, however often the disks are mounted
\* and unmounted and whatever fails in between: what getObject gives C is the
\* disk it asks for.
OwnIds == \A d, e \in Disks : diskId[d] # None /\ diskId[d] = diskId[e] => d = e
THEOREM IdsNotShared == Spec => []OwnIds
  <1>1. IInv => OwnIds
    BY DEF IInv, IdInv, OwnIds
  <1> QED
    BY <1>1, InitOK, NextOK, PTL DEF Spec

-----------------------------------------------------------------------------
(***************************************************************************)
(* Open files                                                              *)
(*                                                                         *)
(* For any number of disks, users and pointers: C never touches a file or  *)
(* a filesystem that it has freed, openFiles of lib/fs.js says which files *)
(* C has, and no file outlives its filesystem.                             *)
(***************************************************************************)
-----------------------------------------------------------------------------
(* The type of the state, whatever fails and however descriptors are closed *)

\* The Map of a disk has every pointer once, and an open that succeeded a file.
EachOnce == \A d \in Disks : \A k, l \in 1 .. Len(openFiles[d]) :
                openFiles[d][k] = openFiles[d][l] => k = l
OpensGiveFile == \A i \in 1 .. Len(answered) :
                    answered[i].req.what = "open" /\ answered[i].ok => answered[i].ptr # None

Answers == [req : Requests, ok : BOOLEAN, ptr : Pointers \cup {None}]

FilesType ==
    /\ fs \in [Disks -> {"unmounted", "mounting", "mounted", "closing", "unmounting"}]
    /\ task \in [Users -> {"idle", "opening", "open", "using", "closing", "stale"}]
    /\ fd \in [Users -> Pointers \cup {None}]
    /\ openFiles \in [Disks -> Seq(Pointers)]
    /\ cFs \in SUBSET Disks /\ cLeft \in SUBSET Disks
    /\ cFiles \in [Pointers -> Disks \cup {None}]
    /\ line \in Seq(Requests) /\ answered \in Seq(Answers)

TInv == IInv /\ FilesType /\ EachOnce /\ OpensGiveFile

\* What openFiles.delete leaves of a Map in which ptr is at k.
LEMMA FileRemoved ==
    ASSUME NEW S, NEW s \in Seq(S), NEW k \in 1 .. Len(s),
           \A i \in 1 .. Len(s) : s[i] = s[k] => i = k
    PROVE  LET t == RemoveFirst(s, s[k]) IN
           /\ t \in Seq(S) /\ Len(t) = Len(s) - 1
           /\ \A i \in 1 .. Len(t) : t[i] = IF i < k THEN s[i] ELSE s[i + 1]
  <1> DEFINE I == {i \in 1 .. Len(s) : s[i] = s[k]}
             a == SubSeq(s, 1, k - 1)
             b == SubSeq(s, k + 1, Len(s))
  <1>1. I = {k} /\ Len(s) \in Nat /\ k \in Nat
    OBVIOUS
  <1>2. SelectInSeq(s, LAMBDA v : v = s[k]) = k
    <2>1. SelectInSeq(s, LAMBDA v : v = s[k]) = IF I # {} THEN Min(I) ELSE 0
      BY DEF SelectInSeq
    <2>2. Min({k}) = k
      BY <1>1 DEF Min
    <2> QED
      BY <2>1, <2>2, <1>1
  <1>3. RemoveFirst(s, s[k]) = a \o b
    BY <1>2 DEF RemoveFirst, RemoveAt
  <1>4. /\ a \in Seq(S) /\ Len(a) = k - 1 /\ \A i \in 1 .. k - 1 : a[i] = s[i]
    OBVIOUS
  <1>5. /\ b \in Seq(S) /\ Len(b) = Len(s) - k /\ \A i \in 1 .. Len(s) - k : b[i] = s[k + i]
    OBVIOUS
  <1> HIDE DEF a, b
  <1>6. a \o b \in Seq(S) /\ Len(a \o b) = Len(s) - 1
    BY <1>1, <1>4, <1>5
  <1>7. ASSUME NEW i \in 1 .. Len(s) - 1
        PROVE  (a \o b)[i] = IF i < k THEN s[i] ELSE s[i + 1]
    <2>1. CASE i < k
      BY <2>1, <1>1, <1>4, <1>5
    <2>2. CASE ~(i < k)
      <3>1. (a \o b)[i] = b[i - (k - 1)] /\ i - (k - 1) \in 1 .. Len(s) - k
        BY <2>2, <1>1, <1>4, <1>5
      <3>2. k + (i - (k - 1)) = i + 1
        BY <1>1
      <3> QED
        BY <3>1, <3>2, <2>2, <1>5
    <2> QED
      BY <2>1, <2>2
  <1> QED
    BY <1>3, <1>6, <1>7

\* openFiles.delete takes out the one file.
LEMMA Deleted ==
    ASSUME NEW S, NEW s \in Seq(S), \A k, l \in 1 .. Len(s) : s[k] = s[l] => k = l, NEW p
    PROVE  LET t == RemoveFirst(s, p) IN
           /\ t \in Seq(S) /\ \A k, l \in 1 .. Len(t) : t[k] = t[l] => k = l
           /\ \A q : Contains(t, q) <=> Contains(s, q) /\ q # p
  <1> DEFINE t == RemoveFirst(s, p)
  <1>1. CASE ~Contains(s, p)
    <2>1. t = s
      BY <1>1 DEF RemoveFirst, Contains
    <2> QED
      BY <1>1, <2>1 DEF Contains
  <1>2. CASE Contains(s, p)
    <2>1. PICK m \in 1 .. Len(s) : s[m] = p
      BY <1>2 DEF Contains
    <2>2. \A i \in 1 .. Len(s) : s[i] = s[m] => i = m
      OBVIOUS
    <2>3. /\ t \in Seq(S) /\ Len(t) = Len(s) - 1
          /\ \A i \in 1 .. Len(t) : t[i] = IF i < m THEN s[i] ELSE s[i + 1]
      BY <2>1, <2>2, FileRemoved
    <2>4. Len(s) \in Nat /\ m \in Nat
      OBVIOUS
    <2> HIDE DEF t
    <2>5. ASSUME NEW k \in 1 .. Len(t), NEW l \in 1 .. Len(t), t[k] = t[l] PROVE k = l
      <3> DEFINE x == IF k < m THEN k ELSE k + 1
                 y == IF l < m THEN l ELSE l + 1
      <3>1. x \in 1 .. Len(s) /\ y \in 1 .. Len(s)
        BY <2>3, <2>4
      <3>2. s[x] = s[y]
        BY <2>3, <2>5
      <3>3. x = y
        BY <3>1, <3>2
      <3> QED
        BY <3>3, <2>4
    <2>6. ASSUME NEW q, Contains(t, q) PROVE Contains(s, q) /\ q # p
      <3>1. PICK k \in 1 .. Len(t) : t[k] = q
        BY <2>6 DEF Contains
      <3> DEFINE x == IF k < m THEN k ELSE k + 1
      <3>2. x \in 1 .. Len(s) /\ x # m
        BY <2>3, <2>4
      <3>3. s[x] = q
        BY <2>3, <3>1
      <3> HIDE DEF x
      <3> QED
        BY <3>2, <3>3, <2>1, <2>2 DEF Contains
    <2>7. ASSUME NEW q, Contains(s, q), q # p PROVE Contains(t, q)
      <3>1. PICK k \in 1 .. Len(s) : s[k] = q
        BY <2>7 DEF Contains
      <3> DEFINE x == IF k < m THEN k ELSE k - 1
      <3>2. k # m
        BY <3>1, <2>1, <2>7
      <3>3. x \in 1 .. Len(t) /\ (IF x < m THEN x ELSE x + 1) = k
        BY <3>2, <2>3, <2>4
      <3>4. t[x] = q
        BY <3>1, <3>3, <2>3
      <3> HIDE DEF x
      <3> QED
        BY <3>3, <3>4 DEF Contains
    <2> QED
      BY <2>3, <2>5, <2>6, <2>7 DEF t
  <1> QED
    BY <1>1, <1>2

\* openFiles.set: the rest of open.
AddFile(s, p) == IF Contains(s, p) THEN s ELSE Append(s, p)
LEMMA Added ==
    ASSUME NEW S, NEW s \in Seq(S), \A k, l \in 1 .. Len(s) : s[k] = s[l] => k = l, NEW p \in S
    PROVE  LET t == AddFile(s, p) IN
           /\ t \in Seq(S) /\ \A k, l \in 1 .. Len(t) : t[k] = t[l] => k = l
           /\ \A q : Contains(t, q) <=> Contains(s, q) \/ q = p
  <1> DEFINE t == Append(s, p)
  <1>1. CASE Contains(s, p)
    BY <1>1 DEF AddFile
  <1>2. CASE ~Contains(s, p)
    <2>1. /\ t \in Seq(S) /\ Len(s) \in Nat /\ Len(t) = Len(s) + 1 /\ t[Len(s) + 1] = p
          /\ \A i \in 1 .. Len(s) : t[i] = s[i] /\ s[i] # p
      BY <1>2 DEF Contains
    <2> HIDE DEF t
    <2>2. \A i \in 1 .. Len(t) : i \in 1 .. Len(s) \/ i = Len(s) + 1
      BY <2>1
    <2>3. \A k, l \in 1 .. Len(t) : t[k] = t[l] => k = l
      BY <2>1, <2>2
    <2>4. ASSUME NEW q PROVE Contains(t, q) <=> Contains(s, q) \/ q = p
      <3>1. Contains(t, q) => Contains(s, q) \/ q = p
        BY <2>1, <2>2 DEF Contains
      <3>2. Contains(s, q) => Contains(t, q)
        BY <2>1 DEF Contains
      <3>3. Contains(t, p)
        BY <2>1 DEF Contains
      <3> QED
        BY <3>1, <3>2, <3>3
    <2>5. AddFile(s, p) = t
      BY <1>2 DEF AddFile, t
    <2> QED
      BY <2>1, <2>3, <2>4, <2>5
  <1> QED
    BY <1>1, <1>2

\* The fields of requests and answers.
LEMMA Fields ==
    /\ \A r \in Requests : /\ r.who \in Disks \cup Users /\ r.ptr \in Pointers \cup {None}
                           /\ r.what \in Whats /\ DiskOfRequest(r) \in Disks
    /\ \A a \in Answers : a.req \in Requests /\ a.ok \in BOOLEAN /\ a.ptr \in Pointers \cup {None}
    /\ \A w \in Disks \cup Users, what \in Whats, p \in Pointers \cup {None} :
          /\ Request(w, what, p) \in Requests /\ Request(w, what, p).who = w
          /\ Request(w, what, p).what = what /\ Request(w, what, p).ptr = p
  BY Constants DEF Requests, Answers, Whats, Request, DiskOfRequest

\* The oldest of a line.
LEMMA Oldest ==
    ASSUME NEW S, NEW s \in Seq(S), s # <<>>
    PROVE  Head(s) \in S /\ Head(s) = s[1] /\ Tail(s) \in Seq(S) /\ 1 \in 1 .. Len(s)
  OBVIOUS

\* C gives out pointers that malloc may return.
LEMMA TypeServe == ASSUME TInv, Serve PROVE FilesType' /\ EachOnce' /\ OpensGiveFile'
  <1> DEFINE r == Head(line)
             d == DiskOfRequest(r)
  <1>1. PICK ok, p :
          /\ ok \in BOOLEAN /\ p \in Allocated(r, ok) \cup {r.ptr}
          /\ line # <<>> /\ line' = Tail(line) /\ UNCHANGED js
          /\ r.what = "open" /\ ok => p # None
          /\ cFiles' = IF r.what = "close" THEN [cFiles EXCEPT ![r.ptr] = None]
                       ELSE IF p \in Allocated(r, ok) THEN [cFiles EXCEPT ![p] = d]
                       ELSE cFiles
          /\ answered' = Append(answered, [req |-> r, ok |-> ok, ptr |-> p])
          /\ cFs' = CASE r.what = "mount" /\ ok  -> cFs \cup {d}
                      [] r.what = "umount" /\ ok -> cFs \ {d}
                      [] OTHER                   -> cFs
          /\ cLeft' \in {cLeft, cLeft \cup {d}}
    BY DEF Serve
  <1> DEFINE a == [req |-> r, ok |-> ok, ptr |-> p]
  <1>2. r \in Requests /\ line' \in Seq(Requests)
    BY <1>1, Oldest DEF TInv, FilesType
  <1>3. d \in Disks /\ p \in Pointers \cup {None}
    BY <1>1, <1>2, Fields DEF Allocated
  <1>4. a \in Answers /\ (a.req.what = "open" /\ a.ok => a.ptr # None)
    BY <1>1, <1>2, <1>3 DEF Answers
  <1> HIDE DEF a, r, d
  <1>5. answered' = Append(answered, a)
    BY <1>1 DEF a
  <1>6. answered' \in Seq(Answers) /\ OpensGiveFile'
    BY <1>4, <1>5 DEF TInv, FilesType, OpensGiveFile
  <1>7. cFiles' \in [Pointers -> Disks \cup {None}]
    BY <1>1, <1>3 DEF TInv, FilesType
  <1>8. cFs' \in SUBSET Disks /\ cLeft' \in SUBSET Disks
    BY <1>1, <1>3 DEF TInv, FilesType
  <1>9. FilesType'
    BY <1>1, <1>2, <1>6, <1>7, <1>8 DEF TInv, FilesType, js
  <1>10. EachOnce'
    BY <1>1 DEF TInv, EachOnce, js
  <1> QED
    BY <1>6, <1>9, <1>10

\* What a step of JavaScript that takes no answer leaves of them.
LEMMA TypeKept ==
    ASSUME TInv, UNCHANGED <<c, openFiles, answered>>, line' \in Seq(Requests),
           fs' \in [Disks -> {"unmounted", "mounting", "mounted", "closing", "unmounting"}],
           task' \in [Users -> {"idle", "opening", "open", "using", "closing", "stale"}],
           fd' \in [Users -> Pointers \cup {None}]
    PROVE  FilesType' /\ EachOnce' /\ OpensGiveFile'
  BY DEF TInv, FilesType, EachOnce, OpensGiveFile, c

\* The type after a call to closeAllFileDescriptors.
LEMMA TypeCloseNext ==
    ASSUME TInv, NEW d \in Disks, NEW files, files \in Seq(Pointers), CloseNext(d, files)
    PROVE  /\ line' \in Seq(Requests)
           /\ fs' \in [Disks -> {"unmounted", "mounting", "mounted", "closing", "unmounting"}]
  <1>1. CASE files = <<>>
    <2>1. Request(d, "umount", None) \in Requests
      BY Fields DEF Whats
    <2>2. line' = Append(line, Request(d, "umount", None)) /\ fs' = [fs EXCEPT ![d] = "unmounting"]
      BY <1>1 DEF CloseNext
    <2> QED
      BY <2>1, <2>2 DEF TInv, FilesType
  <1>2. CASE files # <<>>
    <2>1. Head(files) \in Pointers
      BY <1>2
    <2>2. Request(d, "close", Head(files)) \in Requests
      BY <2>1, Fields DEF Whats
    <2>3. /\ line' = Append(line, Request(d, "close", Head(files)))
          /\ fs' = [fs EXCEPT ![d] = "closing"]
      BY <1>2 DEF CloseNext
    <2> QED
      BY <2>2, <2>3 DEF TInv, FilesType
  <1> QED
    BY <1>1, <1>2

\* What the program calls.
LEMMA TypeCalls ==
    ASSUME TInv, \/ \E d \in Disks : Mount(d) \/ Umount(d)
                 \/ \E u \in Users : Open(u) \/ Use(u) \/ Close(u)
    PROVE  FilesType' /\ EachOnce' /\ OpensGiveFile'
  <1> USE DEF TInv, FilesType
  <1>1. ASSUME NEW d \in Disks, Mount(d) PROVE FilesType' /\ EachOnce' /\ OpensGiveFile'
    <2>1. Request(d, "mount", None) \in Requests
      BY Fields DEF Whats
    <2> QED
      BY <1>1, <2>1, TypeKept DEF Mount
  <1>2. ASSUME NEW d \in Disks, Umount(d) PROVE FilesType' /\ EachOnce' /\ OpensGiveFile'
    <2>1. /\ line' \in Seq(Requests)
          /\ fs' \in [Disks -> {"unmounted", "mounting", "mounted", "closing", "unmounting"}]
      BY <1>2, TypeCloseNext DEF Umount
    <2> QED
      BY <1>2, <2>1, TypeKept DEF Umount
  <1>3. ASSUME NEW u \in Users, NEW what \in {"path", "buffer", "close"},
               NEW p \in Pointers \cup {None}
        PROVE  Request(u, what, p) \in Requests
    BY Fields DEF Whats
  <1>4. ASSUME NEW u \in Users, Open(u) PROVE FilesType' /\ EachOnce' /\ OpensGiveFile'
    BY <1>3, <1>4, TypeKept DEF Open
  <1>5. ASSUME NEW u \in Users, BadFd(u) PROVE FilesType' /\ EachOnce' /\ OpensGiveFile'
    BY <1>5, TypeKept DEF BadFd
  <1>6. ASSUME NEW u \in Users, Use(u) PROVE FilesType' /\ EachOnce' /\ OpensGiveFile'
    <2>1. CASE CheckFd(u)
      <3>1. /\ task' = [task EXCEPT ![u] = "using"]
            /\ line' = Append(line, Request(u, "buffer", fd[u]))
            /\ UNCHANGED <<fs, fd, c, openFiles, answered>>
        BY <1>6, <2>1 DEF Use
      <3>2. Request(u, "buffer", fd[u]) \in Requests
        BY <1>3
      <3>3. line' \in Seq(Requests)
        BY <3>1, <3>2
      <3> QED
        BY <3>1, <3>3, TypeKept
    <2> QED
      BY <1>5, <1>6, <2>1 DEF Use
  <1>7. ASSUME NEW u \in Users, Close(u) PROVE FilesType' /\ EachOnce' /\ OpensGiveFile'
    <2>1. CASE CheckFd(u)
      <3>1. /\ task' = [task EXCEPT ![u] = "closing"]
            /\ line' = Append(line, Request(u, "close", fd[u]))
            /\ UNCHANGED <<fs, fd, c, openFiles, answered>>
        BY <1>7, <2>1 DEF Close
      <3>2. Request(u, "close", fd[u]) \in Requests
        BY <1>3
      <3>3. line' \in Seq(Requests)
        BY <3>1, <3>2
      <3> QED
        BY <3>1, <3>3, TypeKept
    <2> QED
      BY <1>5, <1>7, <2>1 DEF Close
  <1> QED
    BY <1>1, <1>2, <1>4, <1>6, <1>7

\* One Map changes: a file is added or removed, or the Map is a new one.
LEMMA TypeMap ==
    ASSUME FilesType, EachOnce, NEW d \in Disks, NEW files \in Seq(Pointers),
           \A k, l \in 1 .. Len(files) : files[k] = files[l] => k = l,
           openFiles' = [openFiles EXCEPT ![d] = files]
    PROVE  openFiles' \in [Disks -> Seq(Pointers)] /\ EachOnce'
  <1>1. /\ openFiles' \in [Disks -> Seq(Pointers)] /\ openFiles'[d] = files
        /\ \A e \in Disks \ {d} : openFiles'[e] = openFiles[e]
    BY DEF FilesType
  <1>2. ASSUME NEW e \in Disks
        PROVE  \A k, l \in 1 .. Len(openFiles'[e]) : openFiles'[e][k] = openFiles'[e][l] => k = l
    <2>1. CASE e = d
      BY <1>1, <2>1
    <2>2. CASE e # d
      <3>1. openFiles'[e] = openFiles[e]
        BY <1>1, <2>2
      <3> QED
        BY <3>1 DEF EachOnce
    <2> QED
      BY <2>1, <2>2
  <1> QED
    BY <1>1, <1>2 DEF EachOnce

\* The continuations.
LEMMA TypeResume == ASSUME TInv, Resume PROVE FilesType' /\ EachOnce' /\ OpensGiveFile'
  <1> USE DEF TInv
  <1> DEFINE a == Head(answered)
             w == a.req.who
  <1>1. /\ answered # <<>> /\ answered' = Tail(answered) /\ UNCHANGED c /\ Continue(a)
    BY DEF Resume
  <1>2. a \in Answers /\ a = answered[1] /\ answered' \in Seq(Answers) /\ 1 \in 1 .. Len(answered)
    BY <1>1, Oldest DEF FilesType
  <1>3. OpensGiveFile'
    <2>1. \A i \in 1 .. Len(answered') : answered'[i] = answered[i + 1] /\ i + 1 \in 1 .. Len(answered)
      BY <1>1 DEF FilesType
    <2> QED
      BY <2>1 DEF OpensGiveFile
  <1>4. a.req.what = "open" /\ a.ok => a.ptr # None
    BY <1>2 DEF OpensGiveFile
  <1>5. a.req \in Requests /\ w \in Disks \cup Users /\ a.ptr \in Pointers \cup {None}
    BY <1>2, Fields
  <1>6. a.req.what \in {"mount", "umount"} => w \in Disks
    BY <1>2 DEF IInv, LinesInv, IsRequest
  <1>7. w \in Disks => Fits(w, a.req.what)
    <2>1. Done(w, 1)
      BY <1>2 DEF Done
    <2> QED
      BY <1>2, <2>1 DEF IInv, CallsMatch
  <1> HIDE DEF a
  <1> DEFINE Phases == {"unmounted", "mounting", "mounted", "closing", "unmounting"}
             Tasks  == {"idle", "opening", "open", "using", "closing", "stale"}
  <1>8. SUFFICES /\ line' \in Seq(Requests) /\ fs' \in [Disks -> Phases]
                 /\ task' \in [Users -> Tasks] /\ fd' \in [Users -> Pointers \cup {None}]
                 /\ openFiles' \in [Disks -> Seq(Pointers)] /\ EachOnce'
    BY <1>1, <1>2, <1>3 DEF FilesType, c
  <1>9. openFiles' = openFiles => openFiles' \in [Disks -> Seq(Pointers)] /\ EachOnce'
    BY DEF FilesType, EachOnce
  <1>10. ASSUME NEW d, DropDescriptors(d)
         PROVE  task' \in [Users -> Tasks] /\ fd' \in [Users -> Pointers \cup {None}]
    BY <1>10 DEF DropDescriptors, FilesType
  <1>11. CASE CallBinding(a)
    <2> DEFINE r == [a.req EXCEPT !.what = IF @ = "path" THEN "open" ELSE "read"]
    <2>1. r \in Requests
      BY <1>5 DEF Requests
    <2>2. line' = Append(line, r) /\ UNCHANGED js
      BY <1>11 DEF CallBinding
    <2> QED
      BY <1>9, <2>1, <2>2 DEF FilesType, js
  <1>12. CASE Mounted(a)
    <2>1. w \in Disks /\ UNCHANGED <<task, fd, line>>
      BY <1>6, <1>12 DEF Mounted
    <2>2. fs' \in [Disks -> Phases]
      BY <1>12, <2>1 DEF Mounted, FilesType
    <2>3. openFiles' = openFiles \/ openFiles' = [openFiles EXCEPT ![w] = <<>>]
      BY <1>12 DEF Mounted
    <2>4. openFiles' \in [Disks -> Seq(Pointers)] /\ EachOnce'
      <3>1. <<>> \in Seq(Pointers) /\ \A k, l \in 1 .. Len(<<>>) : <<>>[k] = <<>>[l] => k = l
        OBVIOUS
      <3>2. CASE openFiles' = [openFiles EXCEPT ![w] = <<>>]
        BY <2>1, <3>1, <3>2, TypeMap
      <3> QED
        BY <1>9, <2>3, <3>2
    <2> QED
      BY <2>1, <2>2, <2>4 DEF FilesType
  <1>13. CASE Opened(a)
    <2>1. /\ a.req.what = "open" /\ UNCHANGED <<fs, ids, diskId, line>>
          /\ task' \in [Users -> Tasks] /\ fd' \in [Users -> Pointers \cup {None}]
      BY <1>5, <1>13 DEF Opened, FilesType
    <2>2. w \in Users
      BY <1>5, <1>7, <2>1 DEF Fits
    <2>3. CASE a.ok
      <3>1. openFiles' = [openFiles EXCEPT ![DiskOf[w]] = AddFile(openFiles[DiskOf[w]], a.ptr)]
        BY <1>13, <2>3, <2>2, Constants DEF Opened, FilesType, AddFile
      <3>2. DiskOf[w] \in Disks /\ a.ptr \in Pointers
        BY <1>4, <1>5, <2>1, <2>2, <2>3, Constants
      <3>3. /\ openFiles[DiskOf[w]] \in Seq(Pointers)
            /\ \A k, l \in 1 .. Len(openFiles[DiskOf[w]]) :
                  openFiles[DiskOf[w]][k] = openFiles[DiskOf[w]][l] => k = l
        BY <3>2, Zenon DEF FilesType, EachOnce
      <3> DEFINE files == AddFile(openFiles[DiskOf[w]], a.ptr)
      <3>4. /\ files \in Seq(Pointers)
            /\ \A k, l \in 1 .. Len(files) : files[k] = files[l] => k = l
        BY <3>2, <3>3, Added
      <3>5. openFiles' \in [Disks -> Seq(Pointers)] /\ EachOnce'
        <4>1. openFiles' = [openFiles EXCEPT ![DiskOf[w]] = files]
          BY <3>1
        <4> HIDE DEF files
        <4> QED
          BY <3>2, <3>4, <4>1, TypeMap
      <3> QED
        BY <2>1, <3>5 DEF FilesType
    <2>4. CASE ~a.ok
      BY <1>9, <1>13, <2>1, <2>4 DEF Opened, FilesType
    <2> QED
      BY <2>3, <2>4
  <1>14. CASE Used(a)
    BY <1>9, <1>14 DEF Used, FilesType
  <1>15. ASSUME NEW d \in Disks,
                openFiles' = [openFiles EXCEPT ![d] = DeleteFile(openFiles[d], a.ptr, a.ok)]
         PROVE  /\ DeleteFile(openFiles[d], a.ptr, a.ok) \in Seq(Pointers)
                /\ openFiles' \in [Disks -> Seq(Pointers)] /\ EachOnce'
    <2>1. /\ openFiles[d] \in Seq(Pointers)
          /\ \A k, l \in 1 .. Len(openFiles[d]) : openFiles[d][k] = openFiles[d][l] => k = l
      BY Zenon DEF FilesType, EachOnce
    <2> DEFINE files == DeleteFile(openFiles[d], a.ptr, a.ok)
    <2>2. /\ files \in Seq(Pointers)
          /\ \A k, l \in 1 .. Len(files) : files[k] = files[l] => k = l
      BY <2>1, Deleted DEF DeleteFile
    <2> QED
      BY <1>15, <2>2, TypeMap
  <1>16. CASE Closed(a)
    <2>1. /\ w \in Users /\ UNCHANGED <<fs, line>>
          /\ task' \in [Users -> Tasks] /\ fd' \in [Users -> Pointers \cup {None}]
      BY <1>16 DEF Closed, FilesType
    <2>2. DiskOf[w] \in Disks
      BY <2>1, Constants
    <2>3. openFiles' = [openFiles EXCEPT ![DiskOf[w]] = DeleteFile(openFiles[DiskOf[w]], a.ptr, a.ok)]
      BY <1>16, <2>2 DEF Closed, FilesType
    <2> QED
      BY <1>15, <2>1, <2>2, <2>3 DEF FilesType
  <1>17. CASE ClosedByUmount(a)
    <2> DEFINE files == DeleteFile(openFiles[w], a.ptr, a.ok)
    <2>1. w \in Disks /\ openFiles' = [openFiles EXCEPT ![w] = files]
      BY <1>17 DEF ClosedByUmount
    <2>2. files \in Seq(Pointers) /\ openFiles' \in [Disks -> Seq(Pointers)] /\ EachOnce'
      BY <1>15, <2>1
    <2>3. CASE a.ok
      <3>1. CloseNext(w, files) /\ UNCHANGED <<task, fd>>
        BY <1>17, <2>3 DEF ClosedByUmount
      <3>2. line' \in Seq(Requests) /\ fs' \in [Disks -> Phases]
        BY <2>1, <2>2, <3>1, TypeCloseNext
      <3> QED
        BY <2>2, <3>1, <3>2 DEF FilesType
    <2>4. CASE ~a.ok
      <3>1. fs' = [fs EXCEPT ![w] = "mounted"] /\ UNCHANGED line /\ DropDescriptors(w)
        BY <1>17, <2>4 DEF ClosedByUmount
      <3> QED
        BY <1>10, <2>1, <2>2, <3>1 DEF FilesType
    <2> HIDE DEF files
    <2> QED
      BY <2>3, <2>4
  <1>18. CASE Unmounted(a)
    <2>1. w \in Disks /\ UNCHANGED openFiles
      BY <1>6, <1>18 DEF Unmounted
    <2>2. CASE a.ok
      <3>1. /\ fs' = [fs EXCEPT ![w] = "unmounted"] /\ UNCHANGED <<fd, line>>
            /\ task' = [u \in Users |-> IF DiskOf[u] = w /\ task[u] = "open"
                                        THEN "stale" ELSE task[u]]
        BY <1>18, <2>2 DEF Unmounted
      <3> QED
        BY <1>9, <2>1, <3>1 DEF FilesType
    <2>3. CASE ~a.ok
      <3>1. fs' = [fs EXCEPT ![w] = "mounted"] /\ UNCHANGED line /\ DropDescriptors(w)
        BY <1>18, <2>3 DEF Unmounted, UmountFails
      <3> QED
        BY <1>9, <1>10, <2>1, <3>1 DEF FilesType
    <2> QED
      BY <2>2, <2>3
  <1> QED
    BY <1>1, <1>11, <1>12, <1>13, <1>14, <1>16, <1>17, <1>18 DEF Continue

\* A sequence over a larger set.
LEMMA SeqWidens == ASSUME NEW S, NEW T, S \subseteq T, NEW s \in Seq(S) PROVE s \in Seq(T)
  OBVIOUS

\* Every action keeps the type.
LEMMA TypeInit == Init => TInv
  <1> SUFFICES ASSUME Init PROVE TInv
    OBVIOUS
  <1>1. EachOnce /\ OpensGiveFile
    <2>1. \A d \in Disks : openFiles[d] = <<>>
      BY DEF Init
    <2> QED
      BY <2>1 DEF Init, EachOnce, OpensGiveFile
  <1>2. FilesType
    BY DEF Init, FilesType
  <1> QED
    BY <1>1, <1>2, InitOK DEF TInv

LEMMA TypeNext == TInv /\ [Next]_vars => TInv'
  <1> SUFFICES ASSUME TInv, [Next]_vars PROVE TInv'
    OBVIOUS
  <1>1. IInv'
    BY NextOK DEF TInv
  <1>2. CASE UNCHANGED vars
    BY <1>1, <1>2 DEF vars, js, c, TInv, FilesType, EachOnce, OpensGiveFile
  <1> QED
    BY <1>1, <1>2, TypeServe, TypeResume, TypeCalls DEF Next, TInv

\* Whatever fails, and with handles too: every variable has its type, an id of
\* the pool is one that was given out, and C frees and allocates pointers only
\* (lib/ext2fs.js, lib/fs.js, src/pre.js).
THEOREM TypeCorrect == Spec => []TypeOK
  <1>1. TInv => TypeOK
    <2> SUFFICES ASSUME TInv PROVE TypeOK
      OBVIOUS
    <2>1. 1 .. ids.next \subseteq Ids
      BY Constants DEF TInv, IInv, IdInv, Ids
    <2>2. ids.pool \in Seq(Ids)
      <3>1. ids.pool \in Seq(1 .. ids.next)
        BY DEF TInv, IInv, IdInv
      <3> QED
        BY <2>1, <3>1, SeqWidens
    <2> QED
      BY <2>2 DEF TInv, IInv, Shape, IdInv, FilesType, TypeOK, Answers
  <1> QED
    BY <1>1, TypeInit, TypeNext, PTL DEF Spec

-----------------------------------------------------------------------------
(* The files.  Every close is awaited, no descriptor is handed to a later *)
(* mount, and no disk error loses track of a file                         *)

Tracked == Handles = {} /\ Reusers = {} /\ Faulty \cap {"close", "truncate"} = {}

\* A user has one call on its way at a time, the one its task is named for; a
\* disk that is closing its files has that of the first one.
UserSuits(u, r) ==
    \/ r.what \in {"path", "open"}   /\ task[u] = "opening" /\ r.ptr = None
    \/ r.what \in {"buffer", "read"} /\ task[u] = "using"   /\ r.ptr = fd[u]
    \/ r.what = "close"              /\ task[u] = "closing" /\ r.ptr = fd[u]
DiskSuits(d, r) == r.what = "close" => openFiles[d] # <<>> /\ r.ptr = Head(openFiles[d])
Suits(w, r) == IF w \in Disks THEN DiskSuits(w, r) ELSE UserSuits(w, r)
SuitsInv == \A w \in Disks \cup Users : \A i, j \in Nat :
    /\ Waits(w, i) /\ Waits(w, j) => i = j
    /\ Done(w, i) /\ Done(w, j) => i = j
    /\ ~(Waits(w, i) /\ Done(w, j))
    /\ Waits(w, i) => Suits(w, line[i])
    /\ Done(w, i) => Suits(w, answered[i].req)

\* Files are open and used while their disk is mounted.
PhaseInv ==
    /\ \A d \in Disks : fs[d] \in {"unmounted", "mounting", "unmounting"} => openFiles[d] = <<>>
    /\ \A u \in Users : /\ fs[DiskOf[u]] # "mounted" => task[u] \in {"idle", "open", "stale"}
                        /\ fs[DiskOf[u]] \in {"unmounted", "mounting"} => task[u] # "open"

\* C has the filesystem of a mounted disk until it has done the umount.
CallFits(r) == r.what = "umount" => r.who \in cFs
AnswerFits(a) == /\ a.req.what = "mount" /\ a.ok => a.req.who \in cFs
                 /\ a.req.what = "umount" /\ ~a.ok => a.req.who \in cFs
                 /\ a.req.what = "close" => a.ok /\ a.ptr = a.req.ptr
CInv == /\ \A d \in Disks : fs[d] \in {"mounted", "closing"} => d \in cFs
        /\ \A i \in 1 .. Len(line) : CallFits(line[i])
        /\ \A i \in 1 .. Len(answered) : AnswerFits(answered[i])

\* The answers that JavaScript has not seen yet: file p of d is closed, or open.
Closes(i, d, p) == /\ i \in 1 .. Len(answered) /\ answered[i].req.what = "close"
                   /\ DiskOfRequest(answered[i].req) = d /\ answered[i].ptr = p
Opens(i, d, p) == /\ i \in 1 .. Len(answered) /\ answered[i].req.what = "open" /\ answered[i].ok
                  /\ DiskOfRequest(answered[i].req) = d /\ answered[i].ptr = p
Has(d, p) == Contains(openFiles[d], p)

\* C has the files that JavaScript has, but for those answers.  A pointer that
\* is given out again is opened once, and after the answers that closed it.
FilesAgree == \A p \in Pointers, d \in Disks :
    cFiles[p] = d <=> \/ Has(d, p) /\ \A i \in Nat : ~Closes(i, d, p)
                      \/ \E i \in Nat : Opens(i, d, p)
OpenedOnce == \A p \in Pointers, d, e \in Disks, i, j \in Nat :
    Opens(i, d, p) /\ Opens(j, e, p) => i = j
ClosedFirst == \A p \in Pointers, d, e \in Disks, j \in Nat :
    Opens(j, d, p) /\ Has(e, p) => \E i \in Nat : i < j /\ Closes(i, e, p)
FilesInv == FilesAgree /\ OpenedOnce /\ ClosedFirst

\* Users of mounted disks have one open file each.
Holds(u) == task[u] \in {"open", "using", "closing"} /\ fs[DiskOf[u]] = "mounted"
Holders == /\ \A u \in Users : Holds(u) => Has(DiskOf[u], fd[u])
           /\ \A u, v \in Users : Holds(u) /\ Holds(v) /\ fd[u] = fd[v] => u = v

FInv == TInv /\ SuitsInv /\ PhaseInv /\ CInv /\ FilesInv /\ Holders /\ NoMisuse

-----------------------------------------------------------------------------
(* One call of each disk and user *)

\* What a step of JavaScript leaves of the calls: who makes one, or changes so
\* that its call would not suit it, has no other.
LEMMA SuitsStep ==
    ASSUME LinesInv, SuitsInv, AnswerTaken,
           \/ line' = line
           \/ \E r : /\ IsRequest(r) /\ line' = Append(line, r)
                     /\ Unasked(r.who) /\ Suits(r.who, r)',
           \A w \in Disks \cup Users : Unasked(w) \/ \A r : Suits(w, r) => Suits(w, r)'
    PROVE  SuitsInv'
  <1>1. \E n \in {0, 1} : \A w : \A i \in Nat : Done(w, i)' =>
           i + n \in Nat /\ Done(w, i + n) /\ answered'[i] = answered[i + n]
    <2>1. CASE answered' = answered
      <3>1. \A w : \A i \in Nat : Done(w, i)' =>
              i + 0 \in Nat /\ Done(w, i + 0) /\ answered'[i] = answered[i + 0]
        BY <2>1 DEF Done
      <3> QED
        BY <3>1
    <2>2. CASE answered # <<>> /\ answered' = Tail(answered)
      BY <2>2, AnsweredShrinks
    <2> QED
      BY <2>1, <2>2 DEF AnswerTaken
  <1>2. PICK n \in {0, 1} : \A w : \A i \in Nat : Done(w, i)' =>
           i + n \in Nat /\ Done(w, i + n) /\ answered'[i] = answered[i + n]
    BY <1>1
  <1> DEFINE Kept(w) == \A i \in Nat : Waits(w, i)' => Waits(w, i) /\ line'[i] = line[i]
             Alone(w) == /\ Unasked(w)
                         /\ \E m \in Nat : \A i \in Nat : Waits(w, i)' =>
                              i = m /\ Suits(w, line[i])'
  <1>3. \A w \in Disks \cup Users : Kept(w) \/ Alone(w)
    <2>1. CASE line' = line
      BY <2>1 DEF Waits
    <2>2. CASE \E r : /\ IsRequest(r) /\ line' = Append(line, r)
                      /\ Unasked(r.who) /\ Suits(r.who, r)'
      <3>1. PICK r : /\ IsRequest(r) /\ line' = Append(line, r)
                     /\ Unasked(r.who) /\ Suits(r.who, r)'
        BY <2>2
      <3>2. \A i, w : Waits(w, i)' => \/ Waits(w, i) /\ line'[i] = line[i]
                                      \/ i = Len(line) + 1 /\ r.who = w /\ line'[i] = r
        BY <3>1, LineGrows, Zenon
      <3>3. Len(line) + 1 \in Nat
        BY SeqLen DEF LinesInv
      <3>4. ASSUME NEW w \in Disks \cup Users, w # r.who PROVE Kept(w)
        BY <3>2, <3>4
      <3>5. ASSUME NEW w \in Disks \cup Users, w = r.who PROVE Alone(w)
        <4>1. Unasked(w) /\ Suits(w, r)'
          BY <3>1, <3>5
        <4>2. ASSUME NEW i \in Nat, Waits(w, i)' PROVE i = Len(line) + 1 /\ line'[i] = r
          BY <4>1, <4>2, <3>2 DEF Unasked
        <4>3. ASSUME NEW i \in Nat, Waits(w, i)' PROVE Suits(w, line[i])'
          BY <4>1, <4>2, <4>3 DEF Suits, DiskSuits, UserSuits
        <4> QED
          BY <4>1, <4>2, <4>3, <3>3
      <3> QED
        BY <3>4, <3>5
    <2> QED
      BY <2>1, <2>2
  <1> HIDE DEF Kept, Alone
  <1>4. ASSUME NEW w \in Disks \cup Users, NEW i \in Nat, NEW j \in Nat
        PROVE  /\ Waits(w, i)' /\ Waits(w, j)' => i = j
               /\ Done(w, i)' /\ Done(w, j)' => i = j
               /\ ~(Waits(w, i)' /\ Done(w, j)')
    <2>1. Done(w, i)' /\ Done(w, j)' => i = j
      <3> SUFFICES ASSUME Done(w, i)', Done(w, j)' PROVE i = j
        OBVIOUS
      <3>1. i + n = j + n
        BY <1>2 DEF SuitsInv
      <3> QED
        BY <3>1
    <2>2. CASE Kept(w)
      BY <2>1, <2>2, <1>2 DEF Kept, SuitsInv
    <2>3. CASE Alone(w)
      BY <2>1, <2>3 DEF Alone, Unasked
    <2> QED
      BY <2>2, <2>3, <1>3
  <1>5. ASSUME NEW w \in Disks \cup Users, NEW i \in Nat, Waits(w, i)' PROVE Suits(w, line[i])'
    <2>1. CASE Kept(w)
      <3>1. Waits(w, i) /\ line'[i] = line[i]
        BY <2>1, <1>5 DEF Kept
      <3>2. \A r : Suits(w, r) => Suits(w, r)'
        BY <3>1 DEF Unasked
      <3>3. Suits(w, line[i])
        BY <3>1 DEF SuitsInv
      <3>4. ASSUME NEW r, r = line[i], r = line'[i] PROVE Suits(w, line[i])'
        <4>1. Suits(w, r)'
          BY <3>2, <3>3, <3>4
        <4> QED
          BY <3>4, <4>1 DEF Suits, DiskSuits, UserSuits
      <3> QED
        BY <3>1, <3>4
    <2>2. CASE Alone(w)
      BY <1>5, <2>2 DEF Alone
    <2> QED
      BY <2>1, <2>2, <1>3
  <1>6. ASSUME NEW w \in Disks \cup Users, NEW i \in Nat, Done(w, i)'
        PROVE  Suits(w, answered[i].req)'
    <2>1. \A r : Suits(w, r) => Suits(w, r)'
      BY <1>6 DEF Unasked
    <2>2. i + n \in Nat /\ Done(w, i + n) /\ answered'[i] = answered[i + n]
      BY <1>2, <1>6
    <2>3. Suits(w, answered[i + n].req)
      BY <2>2 DEF SuitsInv
    <2>4. ASSUME NEW r, r = answered[i + n].req, r = answered'[i].req
          PROVE  Suits(w, answered[i].req)'
      <3>1. Suits(w, r)'
        BY <2>1, <2>3, <2>4
      <3> QED
        BY <2>4, <3>1 DEF Suits, DiskSuits, UserSuits
    <2> QED
      BY <2>2, <2>4
  <1> QED
    BY <1>4, <1>5, <1>6 DEF SuitsInv

\* C does the oldest call.
LEMMA SuitsServe == ASSUME LinesInv, SuitsInv, Serve PROVE SuitsInv'
  <1> DEFINE r == Head(line)
  <1>1. PICK ok, p : /\ line # <<>> /\ line' = Tail(line) /\ UNCHANGED js
                     /\ answered' = Append(answered, [req |-> r, ok |-> ok, ptr |-> p])
    BY DEF Serve
  <1> DEFINE a == [req |-> r, ok |-> ok, ptr |-> p]
  <1>2. /\ IsRequest(r) /\ r = line[1] /\ \A w : r.who = w => Waits(w, 1)
        /\ \A i, w : Waits(w, i)' =>
              i + 1 \in Nat /\ i + 1 # 1 /\ Waits(w, i + 1) /\ line'[i] = line[i + 1]
    BY <1>1, LineShrinks, Zenon
  <1>3. \A i, w : Done(w, i)' => \/ Done(w, i) /\ answered'[i] = answered[i]
                                 \/ i = Len(answered) + 1 /\ a.req.who = w /\ answered'[i] = a
    <2>1. IsRequest(a.req)
      BY <1>2
    <2> QED
      BY <2>1, <1>1, AnsweredGrows, Zenon
  <1>4. Len(answered) + 1 \in Nat /\ a.req = r
    BY SeqLen DEF LinesInv
  <1> HIDE DEF r, a
  <1>5. \A w, q : Suits(w, q) => Suits(w, q)'
    BY <1>1 DEF Suits, DiskSuits, UserSuits, js
  <1>6. ASSUME NEW w \in Disks \cup Users, NEW i \in Nat, NEW j \in Nat
        PROVE  /\ Waits(w, i)' /\ Waits(w, j)' => i = j
               /\ Done(w, i)' /\ Done(w, j)' => i = j
               /\ ~(Waits(w, i)' /\ Done(w, j)')
    <2>1. CASE w = r.who
      <3>1. \A k \in Nat : ~Done(w, k) /\ (Waits(w, k) => k = 1)
        BY <2>1, <1>2 DEF SuitsInv
      <3> QED
        BY <3>1, <1>2, <1>3
    <2>2. CASE w # r.who
      <3>1. Waits(w, i)' /\ Waits(w, j)' => i + 1 = j + 1
        BY <1>2 DEF SuitsInv
      <3>2. \A k \in Nat : Done(w, k)' => Done(w, k)
        BY <2>2, <1>3, <1>4
      <3> QED
        BY <3>1, <3>2, <1>2 DEF SuitsInv
    <2> QED
      BY <2>1, <2>2
  <1>7. ASSUME NEW w \in Disks \cup Users, NEW i \in Nat, Waits(w, i)' PROVE Suits(w, line[i])'
    <2>1. Suits(w, line[i + 1]) /\ line'[i] = line[i + 1]
      BY <1>2, <1>7 DEF SuitsInv
    <2>2. ASSUME NEW q, q = line[i + 1], q = line'[i] PROVE Suits(w, line[i])'
      BY <2>1, <2>2, <1>1 DEF Suits, DiskSuits, UserSuits, js
    <2> QED
      BY <2>1, <2>2
  <1>8. ASSUME NEW w \in Disks \cup Users, NEW i \in Nat, Done(w, i)'
        PROVE  Suits(w, answered[i].req)'
    <2>1. \E q : q = answered'[i].req /\ Suits(w, q)
      <3>1. CASE Done(w, i) /\ answered'[i] = answered[i]
        BY <3>1 DEF SuitsInv
      <3>2. CASE i = Len(answered) + 1 /\ a.req.who = w /\ answered'[i] = a
        <4>1. Waits(w, 1)
          BY <3>2, <1>2, <1>4
        <4>2. Suits(w, r)
          BY <4>1, <1>2 DEF SuitsInv
        <4> QED
          BY <3>2, <4>2, <1>4
      <3> QED
        BY <3>1, <3>2, <1>3, <1>8
    <2>2. PICK q : q = answered'[i].req /\ Suits(w, q)
      BY <2>1
    <2> QED
      BY <2>2, <1>1 DEF Suits, DiskSuits, UserSuits, js
  <1> QED
    BY <1>6, <1>7, <1>8 DEF SuitsInv

\* Who waits for nothing.
LEMMA IdleUser ==
    ASSUME SuitsInv, NEW u \in Users, task[u] \in {"idle", "open", "stale"}
    PROVE  \A i \in Nat : ~Waits(u, i) /\ ~Done(u, i)
  BY Constants DEF SuitsInv, Suits, UserSuits

\* Who an answer is for waits for nothing else.
LEMMA AnsweredOne ==
    ASSUME LinesInv, SuitsInv, answered # <<>>, answered' = Tail(answered),
           NEW w \in Disks \cup Users, w = Head(answered).req.who
    PROVE  Unasked(w) /\ Suits(w, Head(answered).req) /\ Done(w, 1)
  <1>1. /\ Head(answered) = answered[1] /\ Done(w, 1)
        /\ \A i : Done(w, i)' => i + 1 \in Nat /\ i + 1 # 1 /\ Done(w, i + 1)
    BY AnsweredShrinks, Zenon
  <1>2. \A i \in Nat : ~Waits(w, i) /\ (Done(w, i) => i = 1)
    BY <1>1 DEF SuitsInv
  <1>3. \A i \in Nat : ~Done(w, i)'
    BY <1>1, <1>2
  <1>4. Suits(w, Head(answered).req)
    BY <1>1 DEF SuitsInv
  <1> QED
    BY <1>1, <1>2, <1>3, <1>4 DEF Unasked

\* A user or a disk that waits for nothing, when no answer is taken.
LEMMA UnaskedIdle ==
    ASSUME NEW w, answered' = answered, \A i \in Nat : ~Waits(w, i) /\ ~Done(w, i)
    PROVE  Unasked(w)
  BY DEF Unasked, Done

-----------------------------------------------------------------------------
(* What C has *)

\* A step of JavaScript.
LEMMA CStep ==
    ASSUME FilesType, CInv, cFs' = cFs, AnswerTaken,
           \/ line' = line
           \/ \E r \in Requests : line' = Append(line, r) /\ (r.what = "umount" => r.who \in cFs),
           \A d \in Disks : fs'[d] \in {"mounted", "closing"} => d \in cFs
    PROVE  CInv'
  <1>1. \A i \in 1 .. Len(line') : CallFits(line[i])'
    <2>1. CASE line' = line
      BY <2>1 DEF CInv, CallFits
    <2>2. ASSUME NEW r \in Requests, line' = Append(line, r), r.what = "umount" => r.who \in cFs
          PROVE  \A i \in 1 .. Len(line') : CallFits(line[i])'
      <3>1. \A i \in 1 .. Len(line') : \/ i \in 1 .. Len(line) /\ line'[i] = line[i]
                                       \/ line'[i] = r
        BY <2>2 DEF FilesType
      <3> QED
        BY <2>2, <3>1 DEF CInv, CallFits
    <2> QED
      BY <2>1, <2>2
  <1>2. \A i \in 1 .. Len(answered') : AnswerFits(answered[i])'
    <2>1. CASE answered' = answered
      BY <2>1 DEF CInv, AnswerFits
    <2>2. CASE answered # <<>> /\ answered' = Tail(answered)
      <3>1. \A i \in 1 .. Len(answered') :
               i + 1 \in 1 .. Len(answered) /\ answered'[i] = answered[i + 1]
        BY <2>2 DEF FilesType
      <3> QED
        BY <3>1 DEF CInv, AnswerFits
    <2> QED
      BY <2>1, <2>2 DEF AnswerTaken
  <1> QED
    BY <1>1, <1>2 DEF CInv

\* C does the oldest call: a umount that succeeds is the only call of its disk.
LEMMA CServe == ASSUME Tracked, TInv, SuitsInv, CInv, Serve PROVE CInv'
  <1> USE DEF TInv, FilesType
  <1> DEFINE r == Head(line)
             d == DiskOfRequest(r)
  <1>1. PICK ok, p :
          /\ ok \in BOOLEAN /\ (ok \/ r.what \in Faulty) /\ p \in Allocated(r, ok) \cup {r.ptr}
          /\ line # <<>> /\ line' = Tail(line) /\ UNCHANGED js
          /\ answered' = Append(answered, [req |-> r, ok |-> ok, ptr |-> p])
          /\ cFs' = CASE r.what = "mount" /\ ok  -> cFs \cup {d}
                      [] r.what = "umount" /\ ok -> cFs \ {d}
                      [] OTHER                   -> cFs
    BY DEF Serve
  <1> DEFINE a == [req |-> r, ok |-> ok, ptr |-> p]
  <1>2. /\ r \in Requests /\ r = line[1] /\ line' \in Seq(Requests) /\ 1 \in 1 .. Len(line)
    BY <1>1, Oldest
  <1>3. Waits(r.who, 1) /\ r.who \in Disks \cup Users /\ CallFits(r)
    BY <1>2, Fields DEF Waits, CInv
  <1>4. r.what \in {"mount", "umount"} => r.who \in Disks /\ d = r.who
    BY <1>2 DEF IInv, LinesInv, IsRequest, DiskOfRequest
  <1>5. /\ a.req = r /\ a.ok = ok /\ a.ok \in BOOLEAN /\ a.ptr = p
        /\ r.what = "close" => ok /\ p = r.ptr
    BY <1>1 DEF Tracked, Allocated
  <1>6. a \in Answers
    <2>1. p \in Pointers \cup {None}
      BY <1>1, <1>2, Fields DEF Allocated
    <2> QED
      BY <1>1, <1>2, <2>1 DEF Answers
  <1> HIDE DEF a, r
  <1>7. \A w : w \in cFs /\ w # r.who => w \in cFs'
    BY <1>1, <1>4
  <1>8. r.what # "umount" \/ ~ok => cFs \subseteq cFs'
    BY <1>1, <1>4
  <1>9. \A i \in 1 .. Len(answered') : AnswerFits(answered[i])'
    <2>1. \A i \in 1 .. Len(answered') : \/ i \in 1 .. Len(answered) /\ answered'[i] = answered[i]
                                         \/ answered'[i] = a
      BY <1>1, <1>6 DEF a
    <2>2. ASSUME NEW i \in 1 .. Len(answered), answered'[i] = answered[i]
          PROVE  AnswerFits(answered[i])'
      <3>1. answered[i].req.who # r.who
        <4>1. i \in Nat /\ 1 \in Nat
          OBVIOUS
        <4>2. ~Done(r.who, i)
          BY <4>1, <1>3 DEF SuitsInv
        <4> QED
          BY <4>2 DEF Done
      <3>2. AnswerFits(answered[i])
        BY DEF CInv
      <3> QED
        BY <2>2, <3>1, <3>2, <1>7 DEF AnswerFits
    <2>3. ASSUME NEW i \in 1 .. Len(answered'), answered'[i] = a PROVE AnswerFits(answered[i])'
      <3>1. r.what = "mount" /\ ok => r.who \in cFs'
        BY <1>1, <1>4
      <3>2. r.what = "umount" /\ ~ok => r.who \in cFs'
        BY <1>3, <1>8 DEF CallFits
      <3>3. /\ answered'[i].req = r /\ answered'[i].ok = ok /\ answered'[i].ptr = p
        BY <2>3, <1>5
      <3>4. r.what = "close" => answered'[i].ok /\ answered'[i].ptr = r.ptr
        BY <3>3, <1>5
      <3> QED
        BY <3>1, <3>2, <3>3, <3>4 DEF AnswerFits
    <2> QED
      BY <2>1, <2>2, <2>3
  <1>10. \A i \in 1 .. Len(line') : CallFits(line[i])'
    <2> SUFFICES ASSUME NEW i \in 1 .. Len(line') PROVE CallFits(line[i])'
      OBVIOUS
    <2>1. i + 1 \in 1 .. Len(line) /\ line'[i] = line[i + 1] /\ i + 1 # 1
      BY <1>1
    <2>2. line[i + 1].who # r.who
      <3>1. i + 1 \in Nat /\ 1 \in Nat
        OBVIOUS
      <3>2. ~Waits(r.who, i + 1)
        BY <3>1, <1>3, <2>1 DEF SuitsInv
      <3> QED
        BY <2>1, <3>2 DEF Waits
    <2>3. CallFits(line[i + 1])
      BY <2>1 DEF CInv
    <2> QED
      BY <2>1, <2>2, <2>3, <1>7 DEF CallFits
  <1>11. ASSUME NEW e \in Disks, fs'[e] \in {"mounted", "closing"} PROVE e \in cFs'
    <2>1. e \in cFs /\ fs[e] \in {"mounted", "closing"}
      BY <1>1, <1>11 DEF CInv, js
    <2>2. CASE e # r.who
      BY <2>1, <2>2, <1>7
    <2>3. CASE e = r.who
      <3>1. Fits(e, r.what)
        BY <2>3, <1>2, <1>3 DEF IInv, CallsMatch
      <3>2. r.what # "umount"
        BY <2>1, <3>1 DEF Fits
      <3> QED
        BY <2>1, <3>2, <1>8
    <2> QED
      BY <2>2, <2>3
  <1> QED
    BY <1>9, <1>10, <1>11 DEF CInv

-----------------------------------------------------------------------------
(* Which files may be closed and used *)

\* What the invariant says of every call on its way.
Proper(r) == r \in Requests /\ Suits(r.who, r) /\ (r.who \in Disks => Fits(r.who, r.what))
LEMMA ProperCalls ==
    ASSUME FInv
    PROVE  /\ \A i \in 1 .. Len(line) : Proper(line[i]) /\ Waits(line[i].who, i)
           /\ \A i \in 1 .. Len(answered) : /\ Proper(answered[i].req)
                                            /\ Done(answered[i].req.who, i)
  <1>1. ASSUME NEW i \in 1 .. Len(line) PROVE Proper(line[i]) /\ Waits(line[i].who, i)
    <2>1. line[i] \in Requests /\ i \in Nat
      BY DEF FInv, TInv, FilesType
    <2>2. Waits(line[i].who, i)
      BY DEF Waits
    <2>3. Suits(line[i].who, line[i])
      BY <2>1, <2>2, Fields DEF FInv, SuitsInv
    <2>4. line[i].who \in Disks => Fits(line[i].who, line[i].what)
      BY <2>1, <2>2 DEF FInv, TInv, IInv, CallsMatch
    <2> QED
      BY <2>1, <2>2, <2>3, <2>4 DEF Proper
  <1>2. ASSUME NEW i \in 1 .. Len(answered)
        PROVE  Proper(answered[i].req) /\ Done(answered[i].req.who, i)
    <2>1. answered[i].req \in Requests /\ i \in Nat
      BY Fields DEF FInv, TInv, FilesType
    <2>2. Done(answered[i].req.who, i)
      BY DEF Done
    <2>3. Suits(answered[i].req.who, answered[i].req)
      BY <2>1, <2>2, Fields DEF FInv, SuitsInv
    <2>4. answered[i].req.who \in Disks => Fits(answered[i].req.who, answered[i].req.what)
      BY <2>1, <2>2 DEF FInv, TInv, IInv, CallsMatch
    <2> QED
      BY <2>1, <2>2, <2>3, <2>4 DEF Proper
  <1> QED
    BY <1>1, <1>2

\* A call of a user: what it is, and that its disk is mounted.
LEMMA UserCall ==
    ASSUME FInv, NEW r, Proper(r), r.what \in {"path", "open", "buffer", "read"} \/ r.who \in Users
    PROVE  /\ r.who \in Users /\ UserSuits(r.who, r) /\ DiskOfRequest(r) = DiskOf[r.who]
           /\ DiskOf[r.who] \in Disks /\ fs[DiskOf[r.who]] = "mounted" /\ DiskOf[r.who] \in cFs
  <1>1. r.who \in Users /\ r.who \notin Disks
    BY Fields, Constants DEF Proper, Fits
  <1>2. UserSuits(r.who, r)
    BY <1>1 DEF Proper, Suits
  <1>3. fs[DiskOf[r.who]] = "mounted" /\ DiskOf[r.who] \in Disks
    BY <1>1, <1>2, Constants DEF UserSuits, FInv, PhaseInv
  <1> QED
    BY <1>1, <1>2, <1>3 DEF FInv, CInv, DiskOfRequest

\* The call of a disk that closes a file is for the first of its Map.
LEMMA DiskClose ==
    ASSUME FInv, NEW r, Proper(r), r.what = "close", r.who \in Disks
    PROVE  /\ DiskOfRequest(r) = r.who /\ fs[r.who] = "closing"
           /\ openFiles[r.who] # <<>> /\ r.ptr = Head(openFiles[r.who])
  BY DEF Proper, Suits, DiskSuits, Fits, DiskOfRequest

\* A file that is read or closed is one that JavaScript has.
LEMMA UsedIsHad ==
    ASSUME FInv, NEW r, Proper(r), r.what \in {"close", "buffer", "read"}
    PROVE  /\ DiskOfRequest(r) \in Disks /\ Has(DiskOfRequest(r), r.ptr)
           /\ r.ptr \in Pointers
  <1> USE DEF FInv
  <1>1. DiskOfRequest(r) \in Disks
    BY Fields DEF Proper
  <1>2. Has(DiskOfRequest(r), r.ptr)
    <2>1. CASE r.who \in Users
      <3>1. UserSuits(r.who, r) /\ DiskOfRequest(r) = DiskOf[r.who] /\ fs[DiskOf[r.who]] = "mounted"
        BY <2>1, UserCall
      <3>2. Holds(r.who) /\ r.ptr = fd[r.who]
        BY <3>1 DEF UserSuits, Holds
      <3> QED
        BY <2>1, <3>1, <3>2 DEF Holders
    <2>2. CASE r.who \in Disks
      <3>1. r.what = "close"
        BY <2>2 DEF Proper, Fits
      <3>2. /\ DiskOfRequest(r) = r.who /\ openFiles[r.who] # <<>>
            /\ r.ptr = Head(openFiles[r.who])
        BY <2>2, <3>1, DiskClose
      <3>3. openFiles[r.who] \in Seq(Pointers)
        BY <2>2 DEF TInv, FilesType
      <3> QED
        BY <3>2, <3>3, Oldest DEF Has, Contains
    <2> QED
      BY <2>1, <2>2, Fields DEF Proper
  <1>3. r.ptr \in Pointers
    BY <1>1, <1>2 DEF Has, Contains, TInv, FilesType
  <1> QED
    BY <1>1, <1>2, <1>3

\* A file that is being closed is not being used or closed by anyone else.
LEMMA ClosedByOne ==
    ASSUME FInv, NEW r, Proper(r), r.what \in {"close", "buffer", "read"},
           NEW s, Proper(s), s.what = "close",
           DiskOfRequest(r) = DiskOfRequest(s), r.ptr = s.ptr
    PROVE  r.who = s.who
  <1>1. r.who \in Disks \/ r.who \in Users
    BY Fields DEF Proper
  <1>2. s.who \in Disks \/ s.who \in Users
    BY Fields DEF Proper
  <1>3. r.who \in Disks => r.what = "close" /\ DiskOfRequest(r) = r.who /\ fs[r.who] = "closing"
    <2>1. r.who \in Disks => r.what = "close"
      BY DEF Proper, Fits
    <2> QED
      BY <2>1, DiskClose
  <1>4. s.who \in Disks => DiskOfRequest(s) = s.who /\ fs[s.who] = "closing"
    BY DiskClose
  <1>5. r.who \in Users => /\ fs[DiskOfRequest(r)] = "mounted" /\ Holds(r.who)
                           /\ r.ptr = fd[r.who]
    BY UserCall DEF UserSuits, Holds
  <1>6. s.who \in Users => /\ fs[DiskOfRequest(s)] = "mounted" /\ Holds(s.who)
                           /\ s.ptr = fd[s.who]
    BY UserCall DEF UserSuits, Holds
  <1> QED
    BY <1>1, <1>2, <1>3, <1>4, <1>5, <1>6 DEF FInv, Holders

\* A file whose close is answered, of those that JavaScript has.
LEMMA CloseIsHad ==
    ASSUME FInv, NEW i, NEW d, NEW p, Closes(i, d, p)
    PROVE  Has(d, p) /\ Proper(answered[i].req) /\ answered[i].req.ptr = p
           /\ Done(answered[i].req.who, i) /\ i \in Nat
  <1>1. /\ i \in 1 .. Len(answered) /\ answered[i].req.what = "close"
        /\ DiskOfRequest(answered[i].req) = d /\ answered[i].ptr = p
    BY DEF Closes
  <1>2. Proper(answered[i].req) /\ Done(answered[i].req.who, i)
    BY <1>1, ProperCalls
  <1>3. answered[i].req.ptr = p
    BY <1>1 DEF FInv, CInv, AnswerFits
  <1>4. Has(d, p)
    BY <1>1, <1>2, <1>3, UsedIsHad
  <1> QED
    BY <1>1, <1>2, <1>3, <1>4

\* A file in use that is waiting for C is one that C has.
LEMMA WaitingIsThere ==
    ASSUME FInv, line # <<>>, Head(line).what \in {"close", "buffer", "read"}
    PROVE  LET r == Head(line) d == DiskOfRequest(r) IN
           /\ d \in Disks /\ r.ptr \in Pointers /\ Has(d, r.ptr)
           /\ \A i \in Nat : ~Closes(i, d, r.ptr)
           /\ cFiles[r.ptr] = d
  <1> DEFINE r == Head(line)
             d == DiskOfRequest(r)
  <1>1. r = line[1] /\ 1 \in 1 .. Len(line)
    BY Oldest DEF FInv, TInv, FilesType
  <1>2. Proper(r) /\ Waits(r.who, 1)
    BY <1>1, ProperCalls
  <1>3. d \in Disks /\ r.ptr \in Pointers /\ Has(d, r.ptr)
    BY <1>2, UsedIsHad
  <1>4. ASSUME NEW i \in Nat, Closes(i, d, r.ptr) PROVE FALSE
    <2>1. /\ Proper(answered[i].req) /\ answered[i].req.ptr = r.ptr
          /\ Done(answered[i].req.who, i)
      BY <1>4, CloseIsHad
    <2>2. answered[i].req.what = "close" /\ DiskOfRequest(answered[i].req) = d
      BY <1>4 DEF Closes
    <2>3. r.who = answered[i].req.who
      BY <1>2, <2>1, <2>2, ClosedByOne
    <2>4. r.who \in Disks \cup Users
      BY <1>2, Fields DEF Proper
    <2> QED
      BY <1>2, <2>1, <2>3, <2>4 DEF FInv, SuitsInv
  <1>5. cFiles[r.ptr] = d
    BY <1>3, <1>4 DEF FInv, FilesInv, FilesAgree
  <1> QED
    BY <1>3, <1>4, <1>5

-----------------------------------------------------------------------------
(* C does a call *)

\* The answer a is the last to be seen.
LEMMA AnswerAdded ==
    ASSUME FilesType, NEW a, a \in Answers, answered' = Append(answered, a)
    PROVE  LET n == Len(answered) + 1 IN
           /\ n \in Nat /\ \A i : i \in 1 .. Len(answered) => i \in Nat /\ i < n
           /\ \A i, d, p : Closes(i, d, p)' <=>
                 \/ Closes(i, d, p)
                 \/ i = n /\ a.req.what = "close" /\ DiskOfRequest(a.req) = d /\ a.ptr = p
           /\ \A i, d, p : Opens(i, d, p)' <=>
                 \/ Opens(i, d, p)
                 \/ i = n /\ a.req.what = "open" /\ a.ok /\ DiskOfRequest(a.req) = d /\ a.ptr = p
  <1> DEFINE n == Len(answered) + 1
  <1>1. /\ n \in Nat /\ Len(answered) \in Nat /\ answered'[n] = a
        /\ \A i : i \in 1 .. Len(answered') <=> i \in 1 .. Len(answered) \/ i = n
        /\ \A i \in 1 .. Len(answered) : answered'[i] = answered[i] /\ i \in Nat /\ i < n
    BY DEF FilesType
  <1> HIDE DEF n
  <1>2. n \notin 1 .. Len(answered)
    BY <1>1
  <1>3. ASSUME NEW i, NEW d, NEW p
        PROVE  /\ Closes(i, d, p)' <=>
                    \/ Closes(i, d, p)
                    \/ i = n /\ a.req.what = "close" /\ DiskOfRequest(a.req) = d /\ a.ptr = p
               /\ Opens(i, d, p)' <=>
                    \/ Opens(i, d, p)
                    \/ i = n /\ a.req.what = "open" /\ a.ok /\ DiskOfRequest(a.req) = d /\ a.ptr = p
    <2>1. CASE i \in 1 .. Len(answered)
      BY <1>1, <1>2, <2>1 DEF Closes, Opens
    <2>2. CASE i = n
      BY <1>1, <1>2, <2>2 DEF Closes, Opens
    <2>3. CASE i \notin 1 .. Len(answered) /\ i # n
      BY <1>1, <2>3 DEF Closes, Opens
    <2> QED
      BY <2>1, <2>2, <2>3
  <1> QED
    BY <1>1, <1>3 DEF n

\* A call that neither opens nor closes a file.
LEMMA FilesKept ==
    ASSUME FInv, NEW a, a \in Answers, answered' = Append(answered, a),
           UNCHANGED <<openFiles, cFiles>>,
           a.req.what # "close", ~(a.req.what = "open" /\ a.ok)
    PROVE  FilesInv'
  <1>1. \A i, d, p : /\ Closes(i, d, p)' <=> Closes(i, d, p)
                     /\ Opens(i, d, p)' <=> Opens(i, d, p)
    BY AnswerAdded DEF FInv, TInv
  <1>2. \A d, p : Has(d, p)' <=> Has(d, p)
    BY DEF Has
  <1>3. FilesAgree'
    BY <1>1, <1>2 DEF FInv, FilesInv, FilesAgree
  <1>4. OpenedOnce' /\ ClosedFirst'
    BY <1>1, <1>2 DEF FInv, FilesInv, OpenedOnce, ClosedFirst
  <1> QED
    BY <1>3, <1>4 DEF FilesInv

\* C has closed a file that it had.
LEMMA FilesClosed ==
    ASSUME FInv, NEW a, a \in Answers, answered' = Append(answered, a), openFiles' = openFiles,
           a.req.what = "close", NEW d \in Disks, d = DiskOfRequest(a.req),
           NEW q \in Pointers, q = a.ptr, cFiles' = [cFiles EXCEPT ![q] = None],
           cFiles[q] = d, Has(d, q), \A i \in Nat : ~Closes(i, d, q)
    PROVE  FilesInv'
  <1> USE DEF FInv, FilesInv
  <1>1. PICK n \in Nat :
          /\ \A i, e, p : Closes(i, e, p)' <=> Closes(i, e, p) \/ (i = n /\ e = d /\ p = q)
          /\ \A i, e, p : Opens(i, e, p)' <=> Opens(i, e, p)
    BY AnswerAdded DEF TInv
  <1>2. \A e, p : Has(e, p)' <=> Has(e, p)
    BY DEF Has
  <1>3. \A i \in Nat, e \in Disks : ~Opens(i, e, q)
    <2> SUFFICES ASSUME NEW i \in Nat, NEW e \in Disks, Opens(i, e, q) PROVE FALSE
      OBVIOUS
    <2>1. \E k \in Nat : k < i /\ Closes(k, d, q)
      BY DEF ClosedFirst
    <2> QED
      BY <2>1
  <1>4. /\ \A p \in Pointers : p # q => cFiles'[p] = cFiles[p]
        /\ cFiles'[q] = None /\ \A e \in Disks : None # e
    BY Constants DEF TInv, FilesType
  <1>5. ASSUME NEW p \in Pointers, NEW e \in Disks
        PROVE  cFiles'[p] = e <=> \/ Has(e, p)' /\ \A i \in Nat : ~Closes(i, e, p)'
                                  \/ \E i \in Nat : Opens(i, e, p)'
    <2>1. CASE p # q
      <3>1. cFiles'[p] = e <=> \/ Has(e, p) /\ \A i \in Nat : ~Closes(i, e, p)
                               \/ \E i \in Nat : Opens(i, e, p)
        BY <2>1, <1>4 DEF FilesAgree
      <3> QED
        BY <2>1, <3>1, <1>1, <1>2
    <2>2. CASE p = q /\ e = d
      <3>1. Closes(n, d, q)' /\ \A i \in Nat : ~Opens(i, d, q)'
        BY <1>1, <1>3
      <3> QED
        BY <2>2, <3>1, <1>1, <1>4
    <2>3. CASE p = q /\ e # d
      <3>1. ~(Has(e, q) /\ \A i \in Nat : ~Closes(i, e, q))
        BY <2>3 DEF FilesAgree
      <3>2. \A i \in Nat : ~Opens(i, e, q)'
        BY <1>1, <1>3
      <3> QED
        BY <2>3, <3>1, <3>2, <1>1, <1>2, <1>4
    <2> QED
      BY <2>1, <2>2, <2>3
  <1>6. FilesAgree'
    BY <1>5 DEF FilesAgree
  <1>7. OpenedOnce'
    BY <1>1 DEF OpenedOnce
  <1>8. ClosedFirst'
    <2> SUFFICES ASSUME NEW p \in Pointers, NEW e \in Disks, NEW f \in Disks, NEW j \in Nat,
                        Opens(j, e, p)', Has(f, p)'
                 PROVE  \E i \in Nat : i < j /\ Closes(i, f, p)'
      BY DEF ClosedFirst
    <2>1. \E i \in Nat : i < j /\ Closes(i, f, p)
      BY <1>1, <1>2 DEF ClosedFirst
    <2> QED
      BY <2>1, <1>1
  <1> QED
    BY <1>6, <1>7, <1>8

\* C has opened a file that it did not have.
LEMMA FilesOpened ==
    ASSUME FInv, NEW a, a \in Answers, answered' = Append(answered, a), openFiles' = openFiles,
           a.req.what = "open", a.ok, NEW d \in Disks, d = DiskOfRequest(a.req),
           NEW q \in Pointers, q = a.ptr, cFiles' = [cFiles EXCEPT ![q] = d], cFiles[q] = None
    PROVE  FilesInv'
  <1> USE DEF FInv, FilesInv
  <1> DEFINE n == Len(answered) + 1
  <1>1. /\ n \in Nat /\ \A i, e, p : Opens(i, e, p)' <=> Opens(i, e, p) \/ (i = n /\ e = d /\ p = q)
        /\ \A i, e, p : Closes(i, e, p)' <=> Closes(i, e, p)
        /\ \A i, e, p : Closes(i, e, p) => i < n
    <2>1. \A i : i \in 1 .. Len(answered) => i < n
      BY AnswerAdded DEF TInv
    <2>2. \A i, e, p : Closes(i, e, p) => i < n
      BY <2>1 DEF Closes
    <2> QED
      BY <2>2, AnswerAdded DEF TInv
  <1> HIDE DEF n
  <1>2. \A e, p : Has(e, p)' <=> Has(e, p)
    BY DEF Has
  <1>3. \A e \in Disks : /\ \A i \in Nat : ~Opens(i, e, q)
                         /\ Has(e, q) => \E i \in Nat : Closes(i, e, q)
    BY Constants DEF FilesAgree
  <1>4. /\ \A p \in Pointers : p # q => cFiles'[p] = cFiles[p]
        /\ cFiles'[q] = d
    BY DEF TInv, FilesType
  <1>5. ASSUME NEW p \in Pointers, NEW e \in Disks
        PROVE  cFiles'[p] = e <=> \/ Has(e, p)' /\ \A i \in Nat : ~Closes(i, e, p)'
                                  \/ \E i \in Nat : Opens(i, e, p)'
    <2>1. CASE p # q
      <3>1. cFiles'[p] = e <=> \/ Has(e, p) /\ \A i \in Nat : ~Closes(i, e, p)
                               \/ \E i \in Nat : Opens(i, e, p)
        BY <2>1, <1>4 DEF FilesAgree
      <3> QED
        BY <2>1, <3>1, <1>1, <1>2
    <2>2. CASE p = q /\ e = d
      BY <2>2, <1>1, <1>4
    <2>3. CASE p = q /\ e # d
      BY <2>3, <1>1, <1>2, <1>3, <1>4
    <2> QED
      BY <2>1, <2>2, <2>3
  <1>6. FilesAgree'
    BY <1>5 DEF FilesAgree
  <1>7. OpenedOnce'
    <2> SUFFICES ASSUME NEW p \in Pointers, NEW e \in Disks, NEW f \in Disks,
                        NEW i \in Nat, NEW j \in Nat, Opens(i, e, p)', Opens(j, f, p)'
                 PROVE  i = j
      BY DEF OpenedOnce
    <2>1. CASE p = q
      BY <2>1, <1>1, <1>3
    <2>2. CASE p # q
      BY <2>2, <1>1 DEF OpenedOnce
    <2> QED
      BY <2>1, <2>2
  <1>8. ClosedFirst'
    <2> SUFFICES ASSUME NEW p \in Pointers, NEW e \in Disks, NEW f \in Disks, NEW j \in Nat,
                        Opens(j, e, p)', Has(f, p)'
                 PROVE  \E i \in Nat : i < j /\ Closes(i, f, p)'
      BY DEF ClosedFirst
    <2>1. CASE Opens(j, e, p)
      <3>1. \E i \in Nat : i < j /\ Closes(i, f, p)
        BY <2>1, <1>2 DEF ClosedFirst
      <3> QED
        BY <3>1, <1>1
    <2>2. CASE j = n /\ p = q
      <3>1. \E i \in Nat : Closes(i, f, q)
        BY <2>2, <1>2, <1>3
      <3> QED
        BY <2>2, <3>1, <1>1
    <2> QED
      BY <2>1, <2>2, <1>1
  <1> QED
    BY <1>6, <1>7, <1>8

\* What C is asked to do, it does with memory that it has.
LEMMA NothingMisused == ASSUME FInv, line # <<>> PROVE Misused(Head(line)) = {}
  <1> DEFINE r == Head(line)
             d == DiskOfRequest(r)
  <1>1. r = line[1] /\ 1 \in 1 .. Len(line)
    BY Oldest DEF FInv, TInv, FilesType
  <1>2. Proper(r)
    BY <1>1, ProperCalls
  <1>3. r.what \in {"close", "read"} => cFiles[r.ptr] # None
    BY WaitingIsThere, Constants
  <1>4. r.what \in {"open", "read"} => d \in cFs
    BY <1>2, UserCall
  <1>5. r.what = "umount" => d \in cFs
    <2>1. r.what = "umount" => r.who \in Disks /\ r.who \in cFs
      BY <1>1 DEF FInv, CInv, CallFits, TInv, FilesType
    <2> QED
      BY <2>1 DEF DiskOfRequest
  <1> QED
    BY <1>3, <1>4, <1>5 DEF Misused

\* C does the oldest call.
LEMMA FilesServe == ASSUME Tracked, FInv, Serve PROVE FInv'
  <1> DEFINE r == Head(line)
             d == DiskOfRequest(r)
  <1>1. PICK ok, p :
          /\ ok \in BOOLEAN /\ (ok \/ r.what \in Faulty) /\ p \in Allocated(r, ok) \cup {r.ptr}
          /\ line # <<>> /\ line' = Tail(line) /\ UNCHANGED js
          /\ misuse' = misuse \cup Misused(r)
          /\ r.what = "open" /\ ok => p # None
          /\ cFiles' = IF r.what = "close" THEN [cFiles EXCEPT ![r.ptr] = None]
                       ELSE IF p \in Allocated(r, ok) THEN [cFiles EXCEPT ![p] = d]
                       ELSE cFiles
          /\ answered' = Append(answered, [req |-> r, ok |-> ok, ptr |-> p])
    BY DEF Serve
  <1> DEFINE a == [req |-> r, ok |-> ok, ptr |-> p]
  <1>2. r = line[1] /\ 1 \in 1 .. Len(line) /\ r \in Requests
    BY <1>1, Oldest DEF FInv, TInv, FilesType
  <1>3. Proper(r)
    BY <1>2, ProperCalls
  <1>4. p \in Pointers \cup {None} /\ (r.what \notin {"open"} \/ ~ok => p = r.ptr /\ p \notin Allocated(r, ok))
    BY <1>1, <1>2, Fields DEF Allocated, Tracked
  <1>5. a \in Answers /\ a.req = r /\ a.ok = ok /\ a.ptr = p
    BY <1>1, <1>2, <1>4 DEF Answers
  <1>6. NoMisuse'
    BY <1>1, NothingMisused DEF NoMisuse, FInv
  <1>7. TInv' /\ SuitsInv' /\ CInv'
    BY TypeNext, SuitsServe, CServe DEF Next, FInv, TInv, IInv
  <1>8. PhaseInv' /\ Holders'
    <2>1. UNCHANGED <<fs, task, fd, openFiles>>
      BY <1>1 DEF js
    <2> QED
      BY <2>1 DEF FInv, PhaseInv, Holders, Holds, Has
  <1>9. openFiles' = openFiles /\ answered' = Append(answered, a)
    BY <1>1 DEF js
  <1> HIDE DEF a
  <1>10. FilesInv'
    <2>1. CASE r.what = "close"
      <3>1. /\ d \in Disks /\ r.ptr \in Pointers /\ Has(d, r.ptr)
            /\ \A i \in Nat : ~Closes(i, d, r.ptr)
            /\ cFiles[r.ptr] = d
        BY <1>1, <2>1, WaitingIsThere
      <3>2. r.ptr = p /\ cFiles' = [cFiles EXCEPT ![p] = None]
        BY <1>1, <1>4, <2>1
      <3>3. a.req.what = "close" /\ DiskOfRequest(a.req) = d
        BY <1>5, <2>1
      <3> QED
        BY <1>5, <1>9, <3>1, <3>2, <3>3, FilesClosed
    <2>2. CASE r.what = "open" /\ ok
      <3>1. p \in Pointers /\ p \in Allocated(r, ok)
        <4>1. r.ptr = None
          BY <1>3, <2>2, UserCall DEF UserSuits
        <4> QED
          BY <1>1, <2>2, <4>1 DEF Allocated
      <3>2. cFiles[p] = None
        BY <3>1 DEF Allocated
      <3>3. cFiles' = [cFiles EXCEPT ![p] = d]
        BY <1>1, <2>2, <3>1
      <3>4. d \in Disks
        BY <1>2, Fields
      <3>5. a.req.what = "open" /\ a.ok /\ DiskOfRequest(a.req) = d
        BY <1>5, <2>2
      <3> QED
        BY <1>5, <1>9, <3>1, <3>2, <3>3, <3>4, <3>5, FilesOpened
    <2>3. CASE r.what # "close" /\ ~(r.what = "open" /\ ok)
      <3>1. cFiles' = cFiles
        BY <1>1, <1>4, <2>3
      <3>2. a.req.what # "close" /\ ~(a.req.what = "open" /\ a.ok)
        BY <1>5, <2>3
      <3> QED
        BY <1>5, <1>9, <3>1, <3>2, FilesKept
    <2> QED
      BY <2>1, <2>2, <2>3
  <1> QED
    BY <1>6, <1>7, <1>8, <1>10 DEF FInv

-----------------------------------------------------------------------------
(* JavaScript sees an answer *)

\* What is left of the answers.
LEMMA AnswerTakenOut ==
    ASSUME FilesType, answered # <<>>, answered' = Tail(answered)
    PROVE  LET a == Head(answered) IN
           /\ \A i, d, p : Closes(i, d, p)' => i \in Nat /\ i + 1 \in Nat /\ Closes(i + 1, d, p)
           /\ \A i, d, p : Opens(i, d, p)' => i \in Nat /\ i + 1 \in Nat /\ Opens(i + 1, d, p)
           /\ \A i, d, p : Closes(i, d, p) =>
                 \/ i - 1 \in Nat /\ (i - 1) + 1 = i /\ Closes(i - 1, d, p)'
                 \/ i = 1 /\ a.req.what = "close" /\ DiskOfRequest(a.req) = d /\ a.ptr = p
           /\ \A i, d, p : Opens(i, d, p) =>
                 \/ i - 1 \in Nat /\ (i - 1) + 1 = i /\ Opens(i - 1, d, p)'
                 \/ i = 1 /\ a.req.what = "open" /\ a.ok /\ DiskOfRequest(a.req) = d /\ a.ptr = p
  <1>1. /\ Len(answered) \in Nat /\ Len(answered') = Len(answered) - 1
        /\ Head(answered) = answered[1]
        /\ \A i \in 1 .. Len(answered') : answered'[i] = answered[i + 1]
    BY DEF FilesType
  <1>2. \A i \in 1 .. Len(answered') : i + 1 \in 1 .. Len(answered) /\ i \in Nat /\ i + 1 \in Nat
    BY <1>1
  <1>3. \A i, d, p : Closes(i, d, p)' => i \in Nat /\ i + 1 \in Nat /\ Closes(i + 1, d, p)
    BY <1>1, <1>2 DEF Closes
  <1>4. \A i, d, p : Opens(i, d, p)' => i \in Nat /\ i + 1 \in Nat /\ Opens(i + 1, d, p)
    BY <1>1, <1>2 DEF Opens
  <1>5. \A i \in 1 .. Len(answered) :
           \/ i = 1 /\ answered[i] = Head(answered)
           \/ /\ i - 1 \in Nat /\ (i - 1) + 1 = i /\ i - 1 \in 1 .. Len(answered')
              /\ answered'[i - 1] = answered[i]
    <2> SUFFICES ASSUME NEW i \in 1 .. Len(answered), i # 1
                 PROVE  /\ i - 1 \in Nat /\ (i - 1) + 1 = i /\ i - 1 \in 1 .. Len(answered')
                        /\ answered'[i - 1] = answered[i]
      BY <1>1
    <2>1. i - 1 \in Nat /\ (i - 1) + 1 = i /\ i - 1 \in 1 .. Len(answered')
      BY <1>1
    <2>2. answered'[i - 1] = answered[(i - 1) + 1]
      BY <1>1, <2>1
    <2> QED
      BY <2>1, <2>2
  <1>6. ASSUME NEW i, NEW d, NEW p, Closes(i, d, p)
        PROVE  \/ i - 1 \in Nat /\ (i - 1) + 1 = i /\ Closes(i - 1, d, p)'
               \/ /\ i = 1 /\ Head(answered).req.what = "close"
                  /\ DiskOfRequest(Head(answered).req) = d /\ Head(answered).ptr = p
    BY <1>5, <1>6 DEF Closes
  <1>7. ASSUME NEW i, NEW d, NEW p, Opens(i, d, p)
        PROVE  \/ i - 1 \in Nat /\ (i - 1) + 1 = i /\ Opens(i - 1, d, p)'
               \/ /\ i = 1 /\ Head(answered).req.what = "open" /\ Head(answered).ok
                  /\ DiskOfRequest(Head(answered).req) = d /\ Head(answered).ptr = p
    BY <1>5, <1>7 DEF Opens
  <1> QED
    BY <1>3, <1>4, <1>6, <1>7

\* Nothing is seen.
LEMMA FilesUntouched ==
    ASSUME FilesInv, UNCHANGED <<answered, openFiles, cFiles>> PROVE FilesInv'
  BY DEF FilesInv, FilesAgree, OpenedOnce, ClosedFirst, Has, Closes, Opens

\* The answer of a call that neither opened nor closed a file.
LEMMA FilesPassed ==
    ASSUME FilesType, FilesInv, answered # <<>>, answered' = Tail(answered),
           UNCHANGED <<openFiles, cFiles>>,
           Head(answered).req.what # "close",
           ~(Head(answered).req.what = "open" /\ Head(answered).ok)
    PROVE  FilesInv'
  <1> USE DEF FilesInv
  <1>1. /\ \A i, d, p : Closes(i, d, p)' => i \in Nat /\ i + 1 \in Nat /\ Closes(i + 1, d, p)
        /\ \A i, d, p : Opens(i, d, p)' => i \in Nat /\ i + 1 \in Nat /\ Opens(i + 1, d, p)
        /\ \A i, d, p : Closes(i, d, p) =>
              i - 1 \in Nat /\ (i - 1) + 1 = i /\ Closes(i - 1, d, p)'
        /\ \A i, d, p : Opens(i, d, p) =>
              i - 1 \in Nat /\ (i - 1) + 1 = i /\ Opens(i - 1, d, p)'
    BY AnswerTakenOut, Zenon
  <1>2. \A d, p : Has(d, p)' <=> Has(d, p)
    BY DEF Has
  <1>3. FilesAgree'
    <2>1. \A d, p : /\ (\E i \in Nat : Closes(i, d, p)') <=> (\E i \in Nat : Closes(i, d, p))
                    /\ (\E i \in Nat : Opens(i, d, p)') <=> (\E i \in Nat : Opens(i, d, p))
      BY <1>1
    <2> QED
      BY <2>1, <1>2 DEF FilesAgree
  <1>4. OpenedOnce'
    <2> SUFFICES ASSUME NEW p \in Pointers, NEW e \in Disks, NEW f \in Disks,
                        NEW i \in Nat, NEW j \in Nat, Opens(i, e, p)', Opens(j, f, p)'
                 PROVE  i = j
      BY DEF OpenedOnce
    <2>1. i + 1 = j + 1
      BY <1>1 DEF OpenedOnce
    <2> QED
      BY <2>1
  <1>5. ClosedFirst'
    <2> SUFFICES ASSUME NEW p \in Pointers, NEW e \in Disks, NEW f \in Disks, NEW j \in Nat,
                        Opens(j, e, p)', Has(f, p)'
                 PROVE  \E i \in Nat : i < j /\ Closes(i, f, p)'
      BY DEF ClosedFirst
    <2>1. PICK i \in Nat : i < j + 1 /\ Closes(i, f, p)
      BY <1>1, <1>2 DEF ClosedFirst
    <2>2. i - 1 \in Nat /\ Closes(i - 1, f, p)' /\ i - 1 < j
      BY <2>1, <1>1
    <2> QED
      BY <2>2
  <1> QED
    BY <1>3, <1>4, <1>5

\* JavaScript adds a file that C has opened.
LEMMA FilesGained ==
    ASSUME FInv, answered # <<>>, answered' = Tail(answered), cFiles' = cFiles,
           Head(answered).req.what = "open", Head(answered).ok,
           NEW d \in Disks, d = DiskOfRequest(Head(answered).req),
           NEW q \in Pointers, q = Head(answered).ptr,
           \A e \in Disks : \A p : Has(e, p)' <=> Has(e, p) \/ (e = d /\ p = q)
    PROVE  FilesInv' /\ \A e \in Disks : ~Has(e, q)
  <1> USE DEF FInv, TInv, FilesInv
  <1>1. /\ \A i, e, p : Closes(i, e, p)' => i \in Nat /\ i + 1 \in Nat /\ Closes(i + 1, e, p)
        /\ \A i, e, p : Opens(i, e, p)' => i \in Nat /\ i + 1 \in Nat /\ Opens(i + 1, e, p)
        /\ \A i, e, p : Closes(i, e, p) =>
              i - 1 \in Nat /\ (i - 1) + 1 = i /\ Closes(i - 1, e, p)'
        /\ \A i, e, p : Opens(i, e, p) =>
              \/ i - 1 \in Nat /\ (i - 1) + 1 = i /\ Opens(i - 1, e, p)'
              \/ i = 1 /\ e = d /\ p = q
    BY AnswerTakenOut
  <1>2. Opens(1, d, q) /\ 1 \in Nat
    <2>1. Head(answered) = answered[1] /\ 1 \in 1 .. Len(answered)
      BY Oldest DEF FilesType
    <2> QED
      BY <2>1 DEF Opens
  <1>3. \A e \in Disks : ~Has(e, q) /\ \A i \in Nat : ~Closes(i, e, q)
    <2> SUFFICES ASSUME NEW e \in Disks PROVE ~Has(e, q) /\ \A i \in Nat : ~Closes(i, e, q)
      OBVIOUS
    <2>1. ~Has(e, q)
      <3> SUFFICES ASSUME Has(e, q) PROVE FALSE
        OBVIOUS
      <3>1. PICK i \in Nat : i < 1 /\ Closes(i, e, q)
        BY <1>2 DEF ClosedFirst
      <3> QED
        BY <3>1 DEF Closes
    <2> QED
      BY <2>1, CloseIsHad
  <1>4. \A i \in Nat, e \in Disks : ~Opens(i, e, q)'
    <2> SUFFICES ASSUME NEW i \in Nat, NEW e \in Disks, Opens(i, e, q)' PROVE FALSE
      OBVIOUS
    <2>1. i + 1 = 1
      BY <1>1, <1>2 DEF OpenedOnce
    <2>2. i # 0
      BY DEF Opens
    <2> QED
      BY <2>1, <2>2
  <1>5. ASSUME NEW e, NEW p
        PROVE  (\E i \in Nat : Closes(i, e, p)') <=> (\E i \in Nat : Closes(i, e, p))
    <2>1. ASSUME NEW i \in Nat, Closes(i, e, p)' PROVE \E k \in Nat : Closes(k, e, p)
      BY <2>1, <1>1
    <2>2. ASSUME NEW i \in Nat, Closes(i, e, p) PROVE \E k \in Nat : Closes(k, e, p)'
      BY <2>2, <1>1
    <2> QED
      BY <2>1, <2>2
  <1>6. ASSUME NEW p \in Pointers, NEW e \in Disks
        PROVE  cFiles'[p] = e <=> \/ Has(e, p)' /\ \A i \in Nat : ~Closes(i, e, p)'
                                  \/ \E i \in Nat : Opens(i, e, p)'
    <2>1. cFiles[p] = e <=> \/ Has(e, p) /\ \A i \in Nat : ~Closes(i, e, p)
                            \/ \E i \in Nat : Opens(i, e, p)
      BY DEF FilesAgree
    <2>2. CASE p # q
      <3>1. (\E i \in Nat : Opens(i, e, p)') <=> (\E i \in Nat : Opens(i, e, p))
        BY <2>2, <1>1
      <3> QED
        BY <2>1, <2>2, <3>1, <1>5
    <2>3. CASE p = q /\ e = d
      BY <2>1, <2>3, <1>2, <1>3, <1>5
    <2>4. CASE p = q /\ e # d
      <3>1. cFiles[q] = d
        BY <1>2 DEF FilesAgree
      <3>2. ~Has(e, q)'
        BY <2>4, <1>3
      <3> QED
        BY <2>4, <3>1, <3>2, <1>4
    <2> QED
      BY <2>2, <2>3, <2>4
  <1>7. FilesAgree'
    BY <1>6 DEF FilesAgree
  <1>8. OpenedOnce'
    <2> SUFFICES ASSUME NEW p \in Pointers, NEW e \in Disks, NEW f \in Disks,
                        NEW i \in Nat, NEW j \in Nat, Opens(i, e, p)', Opens(j, f, p)'
                 PROVE  i = j
      BY DEF OpenedOnce
    <2>1. i + 1 = j + 1
      BY <1>1 DEF OpenedOnce
    <2> QED
      BY <2>1
  <1>9. ClosedFirst'
    <2> SUFFICES ASSUME NEW p \in Pointers, NEW e \in Disks, NEW f \in Disks, NEW j \in Nat,
                        Opens(j, e, p)', Has(f, p)'
                 PROVE  \E i \in Nat : i < j /\ Closes(i, f, p)'
      BY DEF ClosedFirst
    <2>1. p # q
      BY <1>4
    <2>2. PICK i \in Nat : i < j + 1 /\ Closes(i, f, p)
      BY <2>1, <1>1 DEF ClosedFirst
    <2>3. i - 1 \in Nat /\ Closes(i - 1, f, p)' /\ i - 1 < j
      BY <2>2, <1>1
    <2> QED
      BY <2>3
  <1> QED
    BY <1>3, <1>7, <1>8, <1>9

\* JavaScript takes out a file that C has closed.
LEMMA FilesLost ==
    ASSUME FInv, answered # <<>>, answered' = Tail(answered), cFiles' = cFiles,
           Head(answered).req.what = "close",
           NEW d \in Disks, d = DiskOfRequest(Head(answered).req),
           NEW q, q = Head(answered).ptr,
           \A e \in Disks : \A p : Has(e, p)' <=> Has(e, p) /\ ~(e = d /\ p = q)
    PROVE  FilesInv'
  <1> USE DEF FInv, TInv, FilesInv
  <1>1. /\ \A i, e, p : Closes(i, e, p)' => i \in Nat /\ i + 1 \in Nat /\ Closes(i + 1, e, p)
        /\ \A i, e, p : Opens(i, e, p)' => i \in Nat /\ i + 1 \in Nat /\ Opens(i + 1, e, p)
        /\ \A i, e, p : Closes(i, e, p) =>
              \/ i - 1 \in Nat /\ (i - 1) + 1 = i /\ Closes(i - 1, e, p)'
              \/ i = 1 /\ e = d /\ p = q
        /\ \A i, e, p : Opens(i, e, p) =>
              i - 1 \in Nat /\ (i - 1) + 1 = i /\ Opens(i - 1, e, p)'
    BY AnswerTakenOut
  <1>2. Closes(1, d, q) /\ 1 \in Nat
    <2>1. Head(answered) = answered[1] /\ 1 \in 1 .. Len(answered)
      BY Oldest DEF FilesType
    <2> QED
      BY <2>1 DEF Closes
  <1>3. \A e, p : (\E i \in Nat : Opens(i, e, p)') <=> (\E i \in Nat : Opens(i, e, p))
    BY <1>1
  <1>4. ASSUME NEW p \in Pointers, NEW e \in Disks
        PROVE  cFiles'[p] = e <=> \/ Has(e, p)' /\ \A i \in Nat : ~Closes(i, e, p)'
                                  \/ \E i \in Nat : Opens(i, e, p)'
    <2>1. cFiles[p] = e <=> \/ Has(e, p) /\ \A i \in Nat : ~Closes(i, e, p)
                            \/ \E i \in Nat : Opens(i, e, p)
      BY DEF FilesAgree
    <2>2. CASE p = q /\ e = d
      BY <2>1, <2>2, <1>2, <1>3
    <2>3. CASE ~(p = q /\ e = d)
      <3>1. (\E i \in Nat : Closes(i, e, p)') <=> (\E i \in Nat : Closes(i, e, p))
        BY <2>3, <1>1
      <3> QED
        BY <2>1, <2>3, <3>1, <1>3
    <2> QED
      BY <2>2, <2>3
  <1>5. FilesAgree'
    BY <1>4 DEF FilesAgree
  <1>6. OpenedOnce'
    <2> SUFFICES ASSUME NEW p \in Pointers, NEW e \in Disks, NEW f \in Disks,
                        NEW i \in Nat, NEW j \in Nat, Opens(i, e, p)', Opens(j, f, p)'
                 PROVE  i = j
      BY DEF OpenedOnce
    <2>1. i + 1 = j + 1
      BY <1>1 DEF OpenedOnce
    <2> QED
      BY <2>1
  <1>7. ClosedFirst'
    <2> SUFFICES ASSUME NEW p \in Pointers, NEW e \in Disks, NEW f \in Disks, NEW j \in Nat,
                        Opens(j, e, p)', Has(f, p)'
                 PROVE  \E i \in Nat : i < j /\ Closes(i, f, p)'
      BY DEF ClosedFirst
    <2>1. PICK i \in Nat : i < j + 1 /\ Closes(i, f, p)
      BY <1>1 DEF ClosedFirst
    <2>2. i - 1 \in Nat /\ Closes(i - 1, f, p)' /\ i - 1 < j
      BY <2>1, <1>1
    <2> QED
      BY <2>2
  <1> QED
    BY <1>5, <1>6, <1>7

-----------------------------------------------------------------------------
(* The steps of JavaScript *)

\* A call that may be made now.
Makes(r) == /\ r \in Requests /\ IsRequest(r) /\ line' = Append(line, r) /\ Unasked(r.who)
            /\ Suits(r.who, r)' /\ (r.what = "umount" => r.who \in cFs)

\* The calls on their way, and what C has, after such a step.
LEMMA CallsStep ==
    ASSUME FInv, AnswerTaken, UNCHANGED <<cFs, misuse>>,
           \A u \in Users : Unasked(u) \/ (task'[u] = task[u] /\ fd'[u] = fd[u]),
           \A d \in Disks : Unasked(d) \/ openFiles'[d] = openFiles[d],
           line' = line \/ \E r : Makes(r),
           \A d \in Disks : fs'[d] \in {"mounted", "closing"} => d \in cFs
    PROVE  SuitsInv' /\ CInv' /\ NoMisuse'
  <1>1. ASSUME NEW w \in Disks \cup Users, ~Unasked(w), NEW r, Suits(w, r) PROVE Suits(w, r)'
    <2>1. CASE w \in Disks
      <3>1. openFiles'[w] = openFiles[w]
        BY <1>1, <2>1
      <3> QED
        BY <1>1, <2>1, <3>1 DEF Suits, DiskSuits
    <2>2. CASE w \notin Disks
      <3>1. task'[w] = task[w] /\ fd'[w] = fd[w]
        BY <1>1, <2>2
      <3> QED
        BY <1>1, <2>2, <3>1 DEF Suits, UserSuits
    <2> QED
      BY <2>1, <2>2
  <1>2. SuitsInv'
    <2>1. \A w \in Disks \cup Users : Unasked(w) \/ \A r : Suits(w, r) => Suits(w, r)'
      BY <1>1
    <2>2. \/ line' = line
          \/ \E r : /\ IsRequest(r) /\ line' = Append(line, r)
                    /\ Unasked(r.who) /\ Suits(r.who, r)'
      BY DEF Makes
    <2> QED
      BY <2>1, <2>2, SuitsStep DEF FInv, TInv, IInv
  <1>3. CInv'
    <2>1. \/ line' = line
          \/ \E r \in Requests : line' = Append(line, r) /\ (r.what = "umount" => r.who \in cFs)
      BY DEF Makes
    <2> QED
      BY <2>1, CStep DEF FInv, TInv
  <1> QED
    BY <1>2, <1>3 DEF FInv, NoMisuse

\* Nothing that the phases and the holders speak of changes.
LEMMA SamePlaces ==
    ASSUME FInv, UNCHANGED <<fs, task, fd, openFiles>>
    PROVE  PhaseInv' /\ Holders'
  BY DEF FInv, PhaseInv, Holders, Holds, Has

\* A user calls, or gives its descriptor up.
LEMMA UserMoves ==
    ASSUME FInv, TInv', NEW u \in Users, task[u] \in {"idle", "open", "stale"},
           UNCHANGED <<fs, openFiles, c, answered>>,
           \A v \in Users \ {u} : task'[v] = task[v] /\ fd'[v] = fd[v],
           \/ line' = line /\ task'[u] = "idle"
           \/ /\ fs[DiskOf[u]] = "mounted" /\ task'[u] \in {"opening", "using", "closing"}
              /\ \E what \in {"path", "buffer", "close"}, p \in Pointers \cup {None} :
                    /\ line' = Append(line, Request(u, what, p))
                    /\ UserSuits(u, Request(u, what, p))',
           Holds(u)' => Holds(u) /\ fd'[u] = fd[u]
    PROVE  FInv'
  <1>1. Unasked(u)
    BY IdleUser, UnaskedIdle DEF FInv
  <1>2. line' = line \/ \E r : Makes(r)
    <2>1. ASSUME NEW what \in {"path", "buffer", "close"}, NEW p \in Pointers \cup {None},
                 line' = Append(line, Request(u, what, p)),
                 UserSuits(u, Request(u, what, p))'
          PROVE  \E r : Makes(r)
      <3>1. PICK r : r = Request(u, what, p)
        OBVIOUS
      <3>2. r \in Requests /\ r.who = u /\ r.what = what /\ r.ptr = p
        <4>1. u \in Disks \cup Users /\ what \in Whats
          BY DEF Whats
        <4>2. /\ Request(u, what, p) \in Requests /\ Request(u, what, p).who = u
              /\ Request(u, what, p).what = what /\ Request(u, what, p).ptr = p
          BY <4>1, Fields
        <4> QED
          BY <3>1, <4>2
      <3>3. IsRequest(r)
        BY <3>1, <3>2 DEF IsRequest, Request, Whats
      <3>4. UserSuits(u, r)'
        BY <2>1, <3>1 DEF UserSuits
      <3>5. Suits(u, r)'
        BY <3>4, Constants DEF Suits
      <3>6. Suits(r.who, r)'
        BY <3>2, <3>5
      <3>7. line' = Append(line, r)
        BY <2>1, <3>1
      <3> QED
        BY <1>1, <3>2, <3>3, <3>6, <3>7 DEF Makes
    <2> QED
      BY <2>1
  <1>3. SuitsInv' /\ CInv' /\ NoMisuse'
    <2>1. AnswerTaken /\ UNCHANGED <<cFs, misuse>>
      BY DEF AnswerTaken, c
    <2>2. \A v \in Users : Unasked(v) \/ (task'[v] = task[v] /\ fd'[v] = fd[v])
      BY <1>1
    <2>3. \A d \in Disks : fs'[d] \in {"mounted", "closing"} => d \in cFs
      BY DEF FInv, CInv
    <2> QED
      BY <1>2, <2>1, <2>2, <2>3, CallsStep
  <1>4. FilesInv'
    BY FilesUntouched DEF FInv, c
  <1>5. PhaseInv'
    BY DEF FInv, PhaseInv
  <1>6. Holders'
    <2>1. \A v \in Users : Holds(v)' => Holds(v) /\ fd'[v] = fd[v]
      BY DEF Holds
    <2>2. \A d, p : Has(d, p)' <=> Has(d, p)
      BY DEF Has
    <2> QED
      BY <2>1, <2>2 DEF FInv, Holders
  <1> QED
    BY <1>3, <1>4, <1>5, <1>6 DEF FInv

\* What the users call.
LEMMA FilesUser ==
    ASSUME Tracked, FInv, NEW u \in Users, Open(u) \/ Use(u) \/ Close(u)
    PROVE  FInv'
  <1> USE DEF FInv, TInv, FilesType
  <1>1. TInv'
    BY TypeNext DEF Next
  <1>2. CASE Open(u)
    <2>1. /\ task'[u] = "opening" /\ line' = Append(line, Request(u, "path", None))
          /\ UNCHANGED <<fs, fd, openFiles, c, answered>>
          /\ \A v \in Users \ {u} : task'[v] = task[v]
          /\ task[u] = "idle" /\ fs[DiskOf[u]] = "mounted"
      BY <1>2 DEF Open
    <2>2. UserSuits(u, Request(u, "path", None))'
      BY <2>1 DEF UserSuits, Request
    <2>3. ~Holds(u)'
      BY <2>1 DEF Holds
    <2> QED
      BY <1>1, <2>1, <2>2, <2>3, UserMoves
  <1>3. CASE BadFd(u) /\ HasFd(u)
    <2>1. /\ task'[u] = "idle" /\ line' = line /\ UNCHANGED <<fs, openFiles, c, answered>>
          /\ \A v \in Users \ {u} : task'[v] = task[v] /\ fd'[v] = fd[v]
          /\ task[u] \in {"open", "stale"}
      BY <1>3 DEF BadFd, HasFd
    <2>2. ~Holds(u)'
      BY <2>1 DEF Holds
    <2> QED
      BY <1>1, <2>1, <2>2, UserMoves
  <1>4. ASSUME HasFd(u), CheckFd(u), NEW t \in {"using", "closing"}, NEW what \in {"buffer", "close"},
               (t = "using") <=> (what = "buffer"), task' = [task EXCEPT ![u] = t],
               line' = Append(line, Request(u, what, fd[u])),
               UNCHANGED <<fs, fd, openFiles, ids, diskId, c, answered>>
        PROVE  FInv'
    <2>1. /\ task'[u] = t /\ \A v \in Users \ {u} : task'[v] = task[v] /\ fd'[v] = fd[v]
          /\ task[u] = "open" /\ fs[DiskOf[u]] = "mounted" /\ fd'[u] = fd[u]
          /\ fd[u] \in Pointers \cup {None}
      BY <1>4 DEF HasFd, CheckFd, Tracked
    <2>2. PICK p \in Pointers \cup {None} : p = fd[u]
      BY <2>1
    <2>3. UserSuits(u, Request(u, what, p))'
      BY <1>4, <2>1, <2>2 DEF UserSuits, Request
    <2>4. Holds(u)
      BY <2>1 DEF Holds
    <2>5. line' = Append(line, Request(u, what, p))
      BY <1>4, <2>2
    <2> QED
      BY <1>1, <1>4, <2>1, <2>3, <2>4, <2>5, UserMoves
  <1>5. CASE Use(u)
    <2>1. CASE CheckFd(u)
      <3>1. /\ HasFd(u) /\ task' = [task EXCEPT ![u] = "using"]
            /\ line' = Append(line, Request(u, "buffer", fd[u]))
            /\ UNCHANGED <<fs, fd, openFiles, ids, diskId, c, answered>>
        BY <1>5, <2>1 DEF Use
      <3> QED
        BY <1>4, <2>1, <3>1
    <2> QED
      BY <1>3, <1>5, <2>1 DEF Use
  <1>6. CASE Close(u)
    <2>1. CASE CheckFd(u)
      <3>1. /\ HasFd(u) /\ task' = [task EXCEPT ![u] = "closing"]
            /\ line' = Append(line, Request(u, "close", fd[u]))
            /\ UNCHANGED <<fs, fd, openFiles, ids, diskId, c, answered>>
        BY <1>6, <2>1 DEF Close
      <3> QED
        BY <1>4, <2>1, <3>1
    <2> QED
      BY <1>3, <1>6, <2>1 DEF Close
  <1> QED
    BY <1>2, <1>5, <1>6

\* A disk makes a call.
LEMMA DiskMakes ==
    ASSUME NEW d \in Disks, NEW what \in {"mount", "close", "umount"}, NEW p \in Pointers \cup {None},
           line' = Append(line, Request(d, what, p)), Unasked(d),
           what = "close" => openFiles'[d] # <<>> /\ p = Head(openFiles'[d]),
           what = "umount" => d \in cFs
    PROVE  \E r : Makes(r)
  <1>1. PICK r : r = Request(d, what, p)
    OBVIOUS
  <1>2. r \in Requests /\ r.who = d /\ r.what = what /\ r.ptr = p
    <2>1. d \in Disks \cup Users /\ what \in Whats
      BY DEF Whats
    <2>2. /\ Request(d, what, p) \in Requests /\ Request(d, what, p).who = d
          /\ Request(d, what, p).what = what /\ Request(d, what, p).ptr = p
      BY <2>1, Fields
    <2> QED
      BY <1>1, <2>2
  <1>3. IsRequest(r)
    BY <1>1, <1>2 DEF IsRequest, Request, Whats
  <1>4. Suits(d, r)'
    BY <1>2 DEF Suits, DiskSuits
  <1>5. Suits(r.who, r)'
    BY <1>2, <1>4
  <1>6. line' = Append(line, r)
    BY <1>1
  <1> QED
    BY <1>2, <1>3, <1>5, <1>6 DEF Makes

\* mount: no user has a file of a disk that is unmounted.
LEMMA FilesMount == ASSUME FInv, NEW d \in Disks, Mount(d) PROVE FInv'
  <1> USE DEF FInv, TInv, FilesType
  <1>1. TInv'
    BY TypeNext DEF Next
  <1>2. /\ fs[d] = "unmounted" /\ fs' = [fs EXCEPT ![d] = "mounting"]
        /\ line' = Append(line, Request(d, "mount", None))
        /\ UNCHANGED <<task, fd, openFiles, c, answered>>
    BY DEF Mount
  <1>3. Unasked(d)
    BY <1>2, Idle, UnaskedIdle DEF IInv
  <1>4. \E r : Makes(r)
    BY <1>2, <1>3, DiskMakes
  <1>5. fs'[d] = "mounting" /\ \A e \in Disks \ {d} : fs'[e] = fs[e]
    BY <1>2
  <1>6. SuitsInv' /\ CInv' /\ NoMisuse'
    <2>1. AnswerTaken /\ UNCHANGED <<cFs, misuse, task, fd, openFiles>>
      BY <1>2 DEF AnswerTaken, c
    <2>2. \A e \in Disks : fs'[e] \in {"mounted", "closing"} => e \in cFs
      BY <1>5 DEF CInv
    <2> QED
      BY <1>4, <2>1, <2>2, CallsStep
  <1>7. PhaseInv'
    BY <1>2, <1>5, Constants DEF PhaseInv
  <1>8. Holders'
    <2>1. \A u \in Users : Holds(u)' => Holds(u)
      BY <1>2, <1>5, Constants DEF Holds
    <2>2. \A e, p : Has(e, p)' <=> Has(e, p)
      BY <1>2 DEF Has
    <2> QED
      BY <1>2, <2>1, <2>2 DEF Holders
  <1>9. FilesInv'
    BY <1>2, FilesUntouched DEF c
  <1> QED
    BY <1>1, <1>6, <1>7, <1>8, <1>9

\* What closeAllFileDescriptors does next.
LEMMA CloseNextIs ==
    ASSUME NEW d \in Disks, NEW files \in Seq(Pointers), CloseNext(d, files)
    PROVE  \E what \in {"close", "umount"}, p \in Pointers \cup {None} :
             /\ line' = Append(line, Request(d, what, p))
             /\ fs' = [fs EXCEPT ![d] = IF what = "close" THEN "closing" ELSE "unmounting"]
             /\ what = "close" => files # <<>> /\ p = Head(files)
             /\ what = "umount" => files = <<>>
  <1>1. CASE files = <<>>
    BY <1>1 DEF CloseNext
  <1>2. CASE files # <<>>
    <2>1. Head(files) \in Pointers
      BY <1>2
    <2> QED
      BY <1>2, <2>1 DEF CloseNext
  <1> QED
    BY <1>1, <1>2

\* closeAllFileDescriptors goes on, while no user of the disk awaits anything.
LEMMA FilesCloseNext ==
    ASSUME FInv, TInv', AnswerTaken, UNCHANGED <<task, fd, cFs, misuse>>,
           NEW d \in Disks, Unasked(d), fs[d] \in {"mounted", "closing"},
           \A u \in Users : DiskOf[u] = d => task[u] \in {"idle", "open", "stale"},
           NEW files \in Seq(Pointers), files = openFiles'[d], CloseNext(d, files),
           \A e \in Disks \ {d} : openFiles'[e] = openFiles[e]
    PROVE  SuitsInv' /\ CInv' /\ NoMisuse' /\ PhaseInv' /\ Holders'
  <1>1. PICK what \in {"close", "umount"}, p \in Pointers \cup {None} :
             /\ line' = Append(line, Request(d, what, p))
             /\ fs' = [fs EXCEPT ![d] = IF what = "close" THEN "closing" ELSE "unmounting"]
             /\ what = "close" => files # <<>> /\ p = Head(files)
             /\ what = "umount" => files = <<>>
    BY CloseNextIs, Zenon
  <1> USE DEF FInv, TInv, FilesType
  <1>2. d \in cFs
    BY DEF CInv
  <1>3. /\ fs'[d] = (IF what = "close" THEN "closing" ELSE "unmounting")
        /\ \A e \in Disks \ {d} : fs'[e] = fs[e]
    BY <1>1
  <1>4. \E r : Makes(r)
    BY <1>1, <1>2, DiskMakes
  <1>5. SuitsInv' /\ CInv' /\ NoMisuse'
    <2>1. \A e \in Disks : fs'[e] \in {"mounted", "closing"} => e \in cFs
      BY <1>2, <1>3 DEF CInv
    <2>2. \A e \in Disks : Unasked(e) \/ openFiles'[e] = openFiles[e]
      OBVIOUS
    <2> QED
      BY <1>4, <2>1, <2>2, CallsStep
  <1>6. PhaseInv'
    <2>1. ASSUME NEW e \in Disks, fs'[e] \in {"unmounted", "mounting", "unmounting"}
          PROVE  openFiles'[e] = <<>>
      <3>1. CASE e = d
        BY <1>1, <1>3, <2>1, <3>1
      <3>2. CASE e # d
        BY <1>3, <2>1, <3>2 DEF PhaseInv
      <3> QED
        BY <3>1, <3>2
    <2>2. ASSUME NEW u \in Users
          PROVE  /\ fs'[DiskOf[u]] # "mounted" => task'[u] \in {"idle", "open", "stale"}
                 /\ fs'[DiskOf[u]] \in {"unmounted", "mounting"} => task'[u] # "open"
      <3>1. CASE DiskOf[u] = d
        BY <1>3, <3>1
      <3>2. CASE DiskOf[u] # d
        BY <1>3, <3>2, Constants DEF PhaseInv
      <3> QED
        BY <3>1, <3>2
    <2> QED
      BY <2>1, <2>2 DEF PhaseInv
  <1>7. Holders'
    <2>1. \A u \in Users : Holds(u)' => Holds(u) /\ DiskOf[u] \in Disks \ {d}
      BY <1>3, Constants DEF Holds
    <2>2. \A e \in Disks \ {d} : \A q : Has(e, q)' <=> Has(e, q)
      BY DEF Has
    <2> QED
      BY <2>1, <2>2 DEF Holders
  <1> QED
    BY <1>5, <1>6, <1>7

\* umount: nobody closes its file meanwhile, since every close is awaited.
LEMMA FilesUmount == ASSUME Tracked, FInv, NEW d \in Disks, Umount(d) PROVE FInv'
  <1> USE DEF FInv, TInv, FilesType
  <1>1. TInv'
    BY TypeNext DEF Next
  <1>2. /\ fs[d] = "mounted" /\ Quiet(d) /\ CloseNext(d, openFiles[d])
        /\ UNCHANGED <<task, fd, openFiles, c, answered>>
    BY DEF Umount
  <1>3. \A u \in Users : DiskOf[u] = d => task[u] \in {"idle", "open", "stale"}
    BY <1>2 DEF Quiet, Tracked
  <1>4. Unasked(d)
    BY <1>2, Idle, UnaskedIdle DEF IInv
  <1>5. PICK files \in Seq(Pointers) : files = openFiles[d]
    OBVIOUS
  <1>6. CloseNext(d, files) /\ files = openFiles'[d]
    BY <1>2, <1>5 DEF CloseNext
  <1>7. AnswerTaken /\ UNCHANGED <<cFs, misuse, task, fd>>
    BY <1>2 DEF AnswerTaken, c
  <1>8. SuitsInv' /\ CInv' /\ NoMisuse' /\ PhaseInv' /\ Holders'
    BY <1>1, <1>2, <1>3, <1>4, <1>6, <1>7, FilesCloseNext
  <1>9. FilesInv'
    BY <1>2, FilesUntouched DEF c
  <1> QED
    BY <1>1, <1>8, <1>9

\* The answer that is taken, for w.
Taken(a) == /\ answered # <<>> /\ answered' = Tail(answered) /\ a = Head(answered)
            /\ UNCHANGED c
LEMMA TakenFacts ==
    ASSUME FInv, NEW a, Taken(a)
    PROVE  /\ AnswerTaken /\ UNCHANGED <<cFs, cFiles, misuse>> /\ a \in Answers
           /\ Proper(a.req) /\ AnswerFits(a) /\ Unasked(a.req.who)
           /\ a.req.who \in Disks \cup Users
           /\ \A w : (\A i \in Nat : ~Waits(w, i) /\ ~Done(w, i)) => Unasked(w)
  <1> USE DEF FInv, TInv, IInv, FilesType
  <1>1. /\ answered # <<>> /\ answered' = Tail(answered) /\ a = Head(answered)
        /\ UNCHANGED <<cFs, cFiles, misuse>>
    BY DEF Taken, c
  <1>2. a = answered[1] /\ a \in Answers /\ 1 \in 1 .. Len(answered)
    BY <1>1, Oldest
  <1>3. Proper(a.req) /\ AnswerFits(a)
    BY <1>2, ProperCalls DEF CInv
  <1>4. a.req.who \in Disks \cup Users
    BY <1>3, Fields DEF Proper
  <1>5. Unasked(a.req.who)
    <2>1. PICK w \in Disks \cup Users : w = a.req.who
      BY <1>4
    <2>2. w = Head(answered).req.who
      BY <1>1, <2>1
    <2>3. Unasked(w)
      BY <1>1, <2>2, AnsweredOne
    <2> QED
      BY <2>1, <2>3 DEF Unasked, Waits, Done
  <1>6. ASSUME NEW w, \A i \in Nat : ~Waits(w, i) /\ ~Done(w, i) PROVE Unasked(w)
    <2>1. \A i : Done(w, i)' => i + 1 \in Nat /\ Done(w, i + 1)
      BY <1>1, AnsweredShrinks, Zenon
    <2> QED
      BY <1>6, <2>1 DEF Unasked
  <1> QED
    BY <1>1, <1>2, <1>3, <1>4, <1>5, <1>6 DEF AnswerTaken

\* The binding is called.
LEMMA FilesCallBinding == ASSUME FInv, TInv', NEW a, Taken(a), CallBinding(a) PROVE FInv'
  <1> DEFINE r == [a.req EXCEPT !.what = IF @ = "path" THEN "open" ELSE "read"]
             u == a.req.who
  <1>1. /\ AnswerTaken /\ UNCHANGED <<cFs, cFiles, misuse>> /\ a \in Answers
        /\ Proper(a.req) /\ Unasked(u)
    BY TakenFacts
  <1>2. /\ a.req.what \in {"path", "buffer"} /\ line' = Append(line, r)
        /\ UNCHANGED <<fs, task, fd, openFiles>>
    BY DEF CallBinding, js
  <1>3. u \in Users /\ u \notin Disks /\ UserSuits(u, a.req)
    BY <1>1, <1>2, UserCall, Constants
  <1>4. /\ r \in Requests /\ r.who = u /\ r.ptr = a.req.ptr
        /\ r.what = IF a.req.what = "path" THEN "open" ELSE "read"
    BY <1>1 DEF Answers, Requests
  <1>5. IsRequest(r)
    BY <1>3, <1>4 DEF Requests, IsRequest, Whats
  <1> HIDE DEF r
  <1>6. \E q : Makes(q)
    <2>1. PICK q : q = r
      OBVIOUS
    <2>2. UserSuits(u, q)'
      BY <1>2, <1>3, <1>4, <2>1 DEF UserSuits
    <2>3. Suits(q.who, q)'
      BY <1>3, <1>4, <2>1, <2>2 DEF Suits
    <2>4. q \in Requests /\ IsRequest(q) /\ line' = Append(line, q) /\ q.what # "umount"
      BY <1>2, <1>4, <1>5, <2>1 DEF IsRequest
    <2>5. Unasked(q.who)
      BY <1>1, <1>4, <2>1
    <2> QED
      BY <2>3, <2>4, <2>5 DEF Makes
  <1>7. SuitsInv' /\ CInv' /\ NoMisuse'
    <2>1. \A d \in Disks : fs'[d] \in {"mounted", "closing"} => d \in cFs
      BY <1>2 DEF FInv, CInv
    <2> QED
      BY <1>1, <1>2, <1>6, <2>1, CallsStep
  <1>8. PhaseInv' /\ Holders'
    BY <1>2, SamePlaces
  <1>9. FilesInv'
    <2>1. /\ answered # <<>> /\ answered' = Tail(answered) /\ a = Head(answered)
      BY DEF Taken
    <2> QED
      BY <1>1, <1>2, <2>1, FilesPassed DEF FInv, TInv
  <1> QED
    BY <1>7, <1>8, <1>9 DEF FInv

\* mount goes on.
LEMMA FilesMounted == ASSUME FInv, TInv', NEW a, Taken(a), Mounted(a) PROVE FInv'
  <1> DEFINE d == a.req.who
  <1>1. /\ AnswerTaken /\ UNCHANGED <<cFs, cFiles, misuse>> /\ a \in Answers
        /\ Proper(a.req) /\ AnswerFits(a) /\ Unasked(d)
    BY TakenFacts
  <1>2. a.req.what = "mount" /\ UNCHANGED <<task, fd, line>>
    BY DEF Mounted
  <1>3. d \in Disks /\ fs[d] = "mounting" /\ openFiles[d] = <<>>
    <2>1. d \in Disks
      BY <1>1, <1>2, Fields DEF Proper, Suits, UserSuits
    <2>2. fs[d] = "mounting"
      BY <1>1, <1>2, <2>1 DEF Proper, Fits
    <2> QED
      BY <2>1, <2>2 DEF FInv, PhaseInv
  <1>4. openFiles' = openFiles
    BY <1>3 DEF Mounted, FInv, TInv, FilesType
  <1>5. /\ fs'[d] = (IF a.ok THEN "mounted" ELSE "unmounted")
        /\ \A e \in Disks \ {d} : fs'[e] = fs[e]
    BY <1>3 DEF Mounted, FInv, TInv, FilesType
  <1>6. a.ok => d \in cFs
    BY <1>1, <1>2 DEF AnswerFits
  <1>7. SuitsInv' /\ CInv' /\ NoMisuse'
    <2>1. \A e \in Disks : fs'[e] \in {"mounted", "closing"} => e \in cFs
      BY <1>5, <1>6 DEF FInv, CInv
    <2> QED
      BY <1>1, <1>2, <1>4, <2>1, CallsStep
  <1>8. \A u \in Users : DiskOf[u] = d => task[u] \in {"idle", "stale"}
    BY <1>3 DEF FInv, PhaseInv
  <1>9. PhaseInv'
    BY <1>2, <1>3, <1>4, <1>5, <1>8, Constants DEF FInv, PhaseInv
  <1>10. Holders'
    <2>1. \A u \in Users : Holds(u)' => Holds(u)
      BY <1>2, <1>5, <1>8, Constants DEF Holds
    <2>2. \A e, p : Has(e, p)' <=> Has(e, p)
      BY <1>4 DEF Has
    <2> QED
      BY <1>2, <2>1, <2>2 DEF FInv, Holders
  <1>11. FilesInv'
    <2>1. /\ answered # <<>> /\ answered' = Tail(answered) /\ a = Head(answered)
      BY DEF Taken
    <2> QED
      BY <1>1, <1>2, <1>4, <2>1, FilesPassed DEF FInv, TInv
  <1> QED
    BY <1>7, <1>9, <1>10, <1>11 DEF FInv

\* A read or a write goes on.
LEMMA FilesUsed == ASSUME FInv, TInv', NEW a, Taken(a), Used(a) PROVE FInv'
  <1> DEFINE u == a.req.who
  <1>1. /\ AnswerTaken /\ UNCHANGED <<cFs, cFiles, misuse>> /\ a \in Answers
        /\ Proper(a.req) /\ Unasked(u)
    BY TakenFacts
  <1>2. /\ a.req.what = "read" /\ UNCHANGED <<fs, fd, openFiles, line>>
        /\ task' = [task EXCEPT ![u] = "open"]
    BY DEF Used
  <1>3. u \in Users /\ task[u] = "using" /\ fs[DiskOf[u]] = "mounted"
    BY <1>1, <1>2, UserCall DEF UserSuits
  <1>4. task'[u] = "open" /\ \A v \in Users \ {u} : task'[v] = task[v]
    BY <1>2, <1>3 DEF FInv, TInv, FilesType
  <1>5. SuitsInv' /\ CInv' /\ NoMisuse'
    <2>1. \A d \in Disks : fs'[d] \in {"mounted", "closing"} => d \in cFs
      BY <1>2 DEF FInv, CInv
    <2>2. \A v \in Users : Unasked(v) \/ (task'[v] = task[v] /\ fd'[v] = fd[v])
      BY <1>1, <1>2, <1>4
    <2> QED
      BY <1>1, <1>2, <2>1, <2>2, CallsStep
  <1>6. PhaseInv'
    BY <1>2, <1>3, <1>4 DEF FInv, PhaseInv
  <1>7. Holders'
    <2>1. \A v \in Users : Holds(v)' => Holds(v)
      BY <1>2, <1>3, <1>4 DEF Holds
    <2>2. \A d, p : Has(d, p)' <=> Has(d, p)
      BY <1>2 DEF Has
    <2> QED
      BY <1>2, <2>1, <2>2 DEF FInv, Holders
  <1>8. FilesInv'
    <2>1. /\ answered # <<>> /\ answered' = Tail(answered) /\ a = Head(answered)
      BY DEF Taken
    <2> QED
      BY <1>1, <1>2, <2>1, FilesPassed DEF FInv, TInv
  <1> QED
    BY <1>5, <1>6, <1>7, <1>8 DEF FInv

\* An open goes on: the file is new to JavaScript.
LEMMA FilesOpenedSeen == ASSUME FInv, TInv', NEW a, Taken(a), Opened(a) PROVE FInv'
  <1> DEFINE u == a.req.who
             d == DiskOf[u]
  <1>1. /\ AnswerTaken /\ UNCHANGED <<cFs, cFiles, misuse>> /\ a \in Answers
        /\ Proper(a.req) /\ Unasked(u)
        /\ \A w : (\A i \in Nat : ~Waits(w, i) /\ ~Done(w, i)) => Unasked(w)
    BY TakenFacts
  <1>2. a.req.what = "open" /\ UNCHANGED <<fs, line>>
    BY DEF Opened
  <1>3. /\ u \in Users /\ d \in Disks /\ DiskOfRequest(a.req) = d
        /\ task[u] = "opening" /\ fs[d] = "mounted"
    BY <1>1, <1>2, UserCall DEF UserSuits
  <1>4. Unasked(d)
    BY <1>1, <1>3, Idle DEF FInv, TInv, IInv
  <1>5. /\ \A v \in Users \ {u} : task'[v] = task[v] /\ fd'[v] = fd[v]
        /\ \A e \in Disks \ {d} : openFiles'[e] = openFiles[e]
    BY <1>3 DEF Opened, FInv, TInv, FilesType
  <1>6. SuitsInv' /\ CInv' /\ NoMisuse'
    <2>1. \A e \in Disks : fs'[e] \in {"mounted", "closing"} => e \in cFs
      BY <1>2 DEF FInv, CInv
    <2>2. \A v \in Users : Unasked(v) \/ (task'[v] = task[v] /\ fd'[v] = fd[v])
      BY <1>1, <1>5
    <2>3. \A e \in Disks : Unasked(e) \/ openFiles'[e] = openFiles[e]
      BY <1>4, <1>5
    <2> QED
      BY <1>1, <1>2, <2>1, <2>2, <2>3, CallsStep
  <1>7. PhaseInv'
    <2>1. ASSUME NEW e \in Disks, fs'[e] \in {"unmounted", "mounting", "unmounting"}
          PROVE  openFiles'[e] = <<>>
      BY <1>2, <1>3, <1>5, <2>1 DEF FInv, PhaseInv
    <2>2. ASSUME NEW v \in Users
          PROVE  /\ fs'[DiskOf[v]] # "mounted" => task'[v] \in {"idle", "open", "stale"}
                 /\ fs'[DiskOf[v]] \in {"unmounted", "mounting"} => task'[v] # "open"
      BY <1>2, <1>3, <1>5 DEF FInv, PhaseInv
    <2> QED
      BY <2>1, <2>2 DEF PhaseInv
  <1>8. /\ answered # <<>> /\ answered' = Tail(answered) /\ a = Head(answered)
    BY DEF Taken
  <1>9. CASE ~a.ok
    <2>1. task'[u] = "idle" /\ UNCHANGED <<fd, openFiles>>
      BY <1>3, <1>9 DEF Opened, FInv, TInv, FilesType
    <2>2. FilesInv'
      BY <1>1, <1>2, <1>8, <1>9, <2>1, FilesPassed DEF FInv, TInv
    <2>3. Holders'
      <3>1. \A v \in Users : Holds(v)' => Holds(v)
        BY <1>2, <1>5, <2>1 DEF Holds
      <3>2. \A e, p : Has(e, p)' <=> Has(e, p)
        BY <2>1 DEF Has
      <3> QED
        BY <2>1, <3>1, <3>2 DEF FInv, Holders
    <2> QED
      BY <1>6, <1>7, <2>2, <2>3 DEF FInv
  <1>10. CASE a.ok
    <2>1. a.ptr \in Pointers
      <3>1. a.ptr # None
        BY <1>2, <1>8, <1>10, Oldest DEF FInv, TInv, OpensGiveFile, FilesType
      <3> QED
        BY <1>1, <3>1, Fields
    <2>2. /\ task'[u] = "open" /\ fd'[u] = a.ptr
          /\ openFiles'[d] = AddFile(openFiles[d], a.ptr)
      BY <1>3, <1>10 DEF Opened, FInv, TInv, FilesType, AddFile
    <2>3. \A p : Contains(openFiles'[d], p) <=> Contains(openFiles[d], p) \/ p = a.ptr
      <3>1. /\ openFiles[d] \in Seq(Pointers)
            /\ \A k, l \in 1 .. Len(openFiles[d]) : openFiles[d][k] = openFiles[d][l] => k = l
        BY <1>3, Zenon DEF FInv, TInv, FilesType, EachOnce
      <3>2. \A p : Contains(AddFile(openFiles[d], a.ptr), p)
                      <=> Contains(openFiles[d], p) \/ p = a.ptr
        BY <2>1, <3>1, Added
      <3> QED
        BY <2>2, <3>2
    <2>4. \A e \in Disks : \A p : Has(e, p)' <=> Has(e, p) \/ (e = d /\ p = a.ptr)
      <3> SUFFICES ASSUME NEW e \in Disks, NEW p
                   PROVE  Has(e, p)' <=> Has(e, p) \/ (e = d /\ p = a.ptr)
        OBVIOUS
      <3>1. CASE e = d
        BY <2>3, <3>1 DEF Has
      <3>2. CASE e # d
        BY <1>5, <3>2 DEF Has
      <3> QED
        BY <3>1, <3>2
    <2>5. FilesInv' /\ \A e \in Disks : ~Has(e, a.ptr)
      <3>1. PICK q \in Pointers : q = a.ptr
        BY <2>1
      <3>2. PICK x \in Disks : x = d
        BY <1>3
      <3>3. \A e \in Disks : \A p : Has(e, p)' <=> Has(e, p) \/ (e = x /\ p = q)
        BY <2>4, <3>1, <3>2
      <3>4. FilesInv' /\ \A e \in Disks : ~Has(e, q)
        <4>1. /\ Head(answered).req.what = "open" /\ Head(answered).ok
              /\ x = DiskOfRequest(Head(answered).req) /\ q = Head(answered).ptr
          BY <1>2, <1>3, <1>8, <1>10, <3>1, <3>2
        <4>2. answered # <<>> /\ answered' = Tail(answered) /\ cFiles' = cFiles
          BY <1>1, <1>8
        <4> QED
          BY <3>3, <4>1, <4>2, FilesGained
      <3> QED
        BY <3>1, <3>4
    <2>6. Holders'
      <3>1. \A v \in Users \ {u} : Holds(v)' => Holds(v) /\ fd'[v] = fd[v]
        BY <1>2, <1>5 DEF Holds
      <3>2. ASSUME NEW v \in Users, Holds(v)' PROVE Has(DiskOf[v], fd[v])'
        <4>1. CASE v = u
          <5>1. Has(d, a.ptr)'
            BY <1>3, <2>4
          <5> QED
            BY <2>2, <4>1, <5>1 DEF Has
        <4>2. CASE v # u
          <5>1. Has(DiskOf[v], fd[v]) /\ fd'[v] = fd[v] /\ DiskOf[v] \in Disks
            BY <3>1, <3>2, <4>2, Constants DEF FInv, Holders
          <5>2. PICK p : p = fd[v]
            OBVIOUS
          <5>3. Has(DiskOf[v], p)'
            BY <2>4, <5>1, <5>2
          <5> QED
            BY <5>1, <5>2, <5>3 DEF Has
        <4> QED
          BY <4>1, <4>2
      <3>3. \A v \in Users \ {u} : Holds(v)' => fd'[v] # a.ptr
        <4> SUFFICES ASSUME NEW v \in Users \ {u}, Holds(v)' PROVE fd'[v] # a.ptr
          OBVIOUS
        <4>1. Has(DiskOf[v], fd[v]) /\ fd'[v] = fd[v] /\ DiskOf[v] \in Disks
          BY <3>1, Constants DEF FInv, Holders
        <4> QED
          BY <2>5, <4>1
      <3>4. ASSUME NEW v \in Users, NEW w \in Users, Holds(v)', Holds(w)', fd'[v] = fd'[w]
            PROVE  v = w
        <4>1. CASE v = u \/ w = u
          BY <2>2, <3>3, <3>4, <4>1
        <4>2. CASE v # u /\ w # u
          BY <3>1, <3>4, <4>2 DEF FInv, Holders
        <4> QED
          BY <4>1, <4>2
      <3> QED
        BY <3>2, <3>4 DEF Holders
    <2> QED
      BY <1>6, <1>7, <2>5, <2>6 DEF FInv
  <1>11. a.ok \/ ~a.ok
    OBVIOUS
  <1> QED
    BY <1>9, <1>10, <1>11

\* openFiles.delete, of the Map of d.
LEMMA MapLoses ==
    ASSUME FInv, NEW d \in Disks, NEW p, openFiles' = [openFiles EXCEPT ![d] = RemoveFirst(@, p)]
    PROVE  /\ \A e \in Disks \ {d} : openFiles'[e] = openFiles[e]
           /\ openFiles'[d] = RemoveFirst(openFiles[d], p) /\ openFiles'[d] \in Seq(Pointers)
           /\ \A e \in Disks : \A q : Has(e, q)' <=> Has(e, q) /\ ~(e = d /\ q = p)
  <1>1. /\ openFiles'[d] = RemoveFirst(openFiles[d], p)
        /\ \A e \in Disks \ {d} : openFiles'[e] = openFiles[e]
    BY DEF FInv, TInv, FilesType
  <1>2. /\ openFiles[d] \in Seq(Pointers)
        /\ \A k, l \in 1 .. Len(openFiles[d]) : openFiles[d][k] = openFiles[d][l] => k = l
    BY Zenon DEF FInv, TInv, FilesType, EachOnce
  <1>3. /\ RemoveFirst(openFiles[d], p) \in Seq(Pointers)
        /\ \A q : Contains(RemoveFirst(openFiles[d], p), q) <=> Contains(openFiles[d], q) /\ q # p
    BY <1>2, Deleted
  <1>4. ASSUME NEW e \in Disks, NEW q PROVE Has(e, q)' <=> Has(e, q) /\ ~(e = d /\ q = p)
    <2>1. CASE e = d
      BY <1>1, <1>3, <2>1 DEF Has
    <2>2. CASE e # d
      BY <1>1, <2>2 DEF Has
    <2> QED
      BY <2>1, <2>2
  <1> QED
    BY <1>1, <1>3, <1>4

\* A close goes on: no other user has the file.
LEMMA FilesClosedSeen == ASSUME FInv, TInv', NEW a, Taken(a), Closed(a) PROVE FInv'
  <1> DEFINE u == a.req.who
             d == DiskOf[u]
  <1>1. /\ AnswerTaken /\ UNCHANGED <<cFs, cFiles, misuse>> /\ a \in Answers
        /\ Proper(a.req) /\ AnswerFits(a) /\ Unasked(u)
        /\ \A w : (\A i \in Nat : ~Waits(w, i) /\ ~Done(w, i)) => Unasked(w)
    BY TakenFacts
  <1>2. a.req.what = "close" /\ u \in Users /\ UNCHANGED <<fs, line>>
    BY DEF Closed
  <1>3. /\ d \in Disks /\ DiskOfRequest(a.req) = d /\ fs[d] = "mounted"
        /\ task[u] = "closing" /\ a.req.ptr = fd[u]
    BY <1>1, <1>2, UserCall DEF UserSuits
  <1>4. a.ok /\ a.ptr = fd[u]
    BY <1>1, <1>2, <1>3 DEF AnswerFits
  <1>5. Unasked(d)
    BY <1>1, <1>3, Idle DEF FInv, TInv, IInv
  <1>6. /\ task'[u] = "idle" /\ \A v \in Users \ {u} : task'[v] = task[v] /\ fd'[v] = fd[v]
    BY <1>2 DEF Closed, FInv, TInv, FilesType
  <1>7. PICK x \in Disks : x = d
    BY <1>3
  <1>8. PICK q : q = a.ptr
    OBVIOUS
  <1>9. openFiles' = [openFiles EXCEPT ![x] = RemoveFirst(@, q)]
    BY <1>4, <1>7, <1>8 DEF Closed, DeleteFile
  <1>10. /\ \A e \in Disks \ {x} : openFiles'[e] = openFiles[e]
         /\ \A e \in Disks : \A p : Has(e, p)' <=> Has(e, p) /\ ~(e = x /\ p = q)
    BY <1>9, MapLoses
  <1>11. SuitsInv' /\ CInv' /\ NoMisuse'
    <2>1. \A e \in Disks : fs'[e] \in {"mounted", "closing"} => e \in cFs
      BY <1>2 DEF FInv, CInv
    <2>2. \A v \in Users : Unasked(v) \/ (task'[v] = task[v] /\ fd'[v] = fd[v])
      BY <1>1, <1>6
    <2>3. \A e \in Disks : Unasked(e) \/ openFiles'[e] = openFiles[e]
      <3>1. Unasked(x)
        BY <1>5, <1>7 DEF Unasked, Waits, Done
      <3> QED
        BY <3>1, <1>10
    <2> QED
      BY <1>1, <1>2, <2>1, <2>2, <2>3, CallsStep
  <1>12. PhaseInv'
    <2>1. ASSUME NEW e \in Disks, fs'[e] \in {"unmounted", "mounting", "unmounting"}
          PROVE  openFiles'[e] = <<>>
      BY <1>2, <1>3, <1>7, <1>10, <2>1 DEF FInv, PhaseInv
    <2>2. ASSUME NEW v \in Users
          PROVE  /\ fs'[DiskOf[v]] # "mounted" => task'[v] \in {"idle", "open", "stale"}
                 /\ fs'[DiskOf[v]] \in {"unmounted", "mounting"} => task'[v] # "open"
      BY <1>2, <1>3, <1>6 DEF FInv, PhaseInv
    <2> QED
      BY <2>1, <2>2 DEF PhaseInv
  <1>13. FilesInv'
    <2>1. answered # <<>> /\ answered' = Tail(answered) /\ a = Head(answered) /\ cFiles' = cFiles
      BY <1>1 DEF Taken
    <2>2. /\ Head(answered).req.what = "close" /\ x = DiskOfRequest(Head(answered).req)
          /\ q = Head(answered).ptr
      BY <1>2, <1>3, <1>7, <1>8, <2>1
    <2> QED
      BY <1>10, <2>1, <2>2, FilesLost
  <1>14. Holders'
    <2>1. \A v \in Users : Holds(v)' => v # u /\ Holds(v) /\ fd'[v] = fd[v]
      BY <1>2, <1>6 DEF Holds
    <2>2. Holds(u)
      BY <1>3 DEF Holds
    <2>3. ASSUME NEW v \in Users, Holds(v)' PROVE Has(DiskOf[v], fd[v])'
      <3>1. Has(DiskOf[v], fd[v]) /\ fd'[v] = fd[v] /\ DiskOf[v] \in Disks
        BY <2>1, <2>3, Constants DEF FInv, Holders
      <3>2. fd[v] # q
        BY <1>2, <1>4, <1>8, <2>1, <2>2, <2>3 DEF FInv, Holders
      <3>3. PICK p : p = fd[v]
        OBVIOUS
      <3>4. Has(DiskOf[v], p)'
        BY <1>10, <3>1, <3>2, <3>3
      <3> QED
        BY <3>1, <3>3, <3>4 DEF Has
    <2> QED
      BY <2>1, <2>3 DEF FInv, Holders
  <1> QED
    BY <1>11, <1>12, <1>13, <1>14 DEF FInv

\* A close of closeAllFileDescriptors goes on.
LEMMA FilesClosedByUmount == ASSUME FInv, TInv', NEW a, Taken(a), ClosedByUmount(a) PROVE FInv'
  <1>1. /\ AnswerTaken /\ UNCHANGED <<cFs, cFiles, misuse>> /\ a \in Answers
        /\ Proper(a.req) /\ AnswerFits(a) /\ Unasked(a.req.who)
    BY TakenFacts
  <1>2. a.req.what = "close" /\ a.req.who \in Disks
    BY DEF ClosedByUmount
  <1>3. PICK d \in Disks : d = a.req.who
    BY <1>2
  <1>4. DiskOfRequest(a.req) = d /\ fs[d] = "closing" /\ a.ok
    BY <1>1, <1>2, <1>3, DiskClose DEF AnswerFits
  <1>5. PICK q : q = a.ptr
    OBVIOUS
  <1>6. openFiles' = [openFiles EXCEPT ![d] = RemoveFirst(@, q)] /\ UNCHANGED <<task, fd>>
    BY <1>3, <1>4, <1>5 DEF ClosedByUmount, DeleteFile
  <1>7. CloseNext(d, RemoveFirst(openFiles[d], q))
    BY <1>3, <1>4, <1>5 DEF ClosedByUmount, DeleteFile, CloseNext
  <1>8. /\ \A e \in Disks \ {d} : openFiles'[e] = openFiles[e]
        /\ openFiles'[d] = RemoveFirst(openFiles[d], q) /\ openFiles'[d] \in Seq(Pointers)
        /\ \A e \in Disks : \A p : Has(e, p)' <=> Has(e, p) /\ ~(e = d /\ p = q)
    BY <1>6, MapLoses
  <1>9. PICK files \in Seq(Pointers) : files = openFiles'[d]
    BY <1>8
  <1>10. CloseNext(d, files)
    BY <1>7, <1>8, <1>9 DEF CloseNext
  <1>11. SuitsInv' /\ CInv' /\ NoMisuse' /\ PhaseInv' /\ Holders'
    <2>1. \A u \in Users : DiskOf[u] = d => task[u] \in {"idle", "open", "stale"}
      BY <1>4 DEF FInv, PhaseInv
    <2>2. Unasked(d)
      BY <1>1, <1>3 DEF Unasked, Waits, Done
    <2> QED
      BY <1>1, <1>4, <1>6, <1>8, <1>9, <1>10, <2>1, <2>2, FilesCloseNext
  <1>12. FilesInv'
    <2>1. answered # <<>> /\ answered' = Tail(answered) /\ a = Head(answered) /\ cFiles' = cFiles
      BY <1>1 DEF Taken
    <2>2. /\ Head(answered).req.what = "close" /\ d = DiskOfRequest(Head(answered).req)
          /\ q = Head(answered).ptr
      BY <1>2, <1>4, <1>5, <2>1
    <2> QED
      BY <1>8, <2>1, <2>2, FilesLost
  <1> QED
    BY <1>11, <1>12 DEF FInv

\* umount goes on: the descriptors that are left are stale, or given up.
LEMMA FilesUnmounted == ASSUME FInv, TInv', NEW a, Taken(a), Unmounted(a) PROVE FInv'
  <1> DEFINE d == a.req.who
  <1>1. /\ AnswerTaken /\ UNCHANGED <<cFs, cFiles, misuse>> /\ a \in Answers
        /\ Proper(a.req) /\ AnswerFits(a) /\ Unasked(d)
        /\ \A w : (\A i \in Nat : ~Waits(w, i) /\ ~Done(w, i)) => Unasked(w)
    BY TakenFacts
  <1>2. a.req.what = "umount" /\ UNCHANGED <<openFiles, line>>
    BY DEF Unmounted, UmountFails
  <1>3. d \in Disks /\ fs[d] = "unmounting"
    <2>1. d \in Disks
      BY <1>1, <1>2, Fields DEF Proper, Suits, UserSuits
    <2> QED
      BY <1>1, <1>2, <2>1 DEF Proper, Fits
  <1>4. openFiles[d] = <<>> /\ \A u \in Users : DiskOf[u] = d => task[u] \in {"idle", "open", "stale"}
    BY <1>3 DEF FInv, PhaseInv
  <1>5. /\ fs'[d] = (IF a.ok THEN "unmounted" ELSE "mounted")
        /\ \A e \in Disks \ {d} : fs'[e] = fs[e]
    BY <1>3 DEF Unmounted, UmountFails, FInv, TInv, FilesType
  <1>6. \A u \in Users : /\ DiskOf[u] # d => task'[u] = task[u] /\ fd'[u] = fd[u]
                         /\ DiskOf[u] = d => /\ task'[u] \in {"idle", "stale"}
                                             /\ task[u] = "open" \/ (task'[u] = task[u] /\ fd'[u] = fd[u])
    <2>1. CASE a.ok
      <3>1. /\ task' = [u \in Users |-> IF DiskOf[u] = d /\ task[u] = "open"
                                        THEN "stale" ELSE task[u]]
            /\ fd' = fd
        BY <2>1 DEF Unmounted
      <3> QED
        BY <3>1, <1>4
    <2>2. CASE ~a.ok
      <3>1. DropDescriptors(d)
        BY <2>2 DEF Unmounted, UmountFails
      <3>2. \A u \in Users : IF DiskOf[u] = d /\ task[u] = "open"
                             THEN task'[u] = "idle" ELSE task'[u] = task[u] /\ fd'[u] = fd[u]
        BY <3>1 DEF DropDescriptors
      <3> QED
        BY <3>2, <1>4
    <2> QED
      BY <2>1, <2>2
  <1>7. ~a.ok => d \in cFs
    BY <1>1, <1>2 DEF AnswerFits
  <1>8. SuitsInv' /\ CInv' /\ NoMisuse'
    <2>1. \A e \in Disks : fs'[e] \in {"mounted", "closing"} => e \in cFs
      BY <1>5, <1>7 DEF FInv, CInv
    <2>2. \A u \in Users : Unasked(u) \/ (task'[u] = task[u] /\ fd'[u] = fd[u])
      <3>1. \A u \in Users : task[u] = "open" => Unasked(u)
        BY <1>1, IdleUser DEF FInv
      <3> QED
        BY <3>1, <1>6
    <2> QED
      BY <1>1, <1>2, <2>1, <2>2, CallsStep
  <1>9. PhaseInv'
    <2>1. ASSUME NEW e \in Disks, fs'[e] \in {"unmounted", "mounting", "unmounting"}
          PROVE  openFiles'[e] = <<>>
      BY <1>2, <1>4, <1>5, <2>1 DEF FInv, PhaseInv
    <2>2. ASSUME NEW u \in Users
          PROVE  /\ fs'[DiskOf[u]] # "mounted" => task'[u] \in {"idle", "open", "stale"}
                 /\ fs'[DiskOf[u]] \in {"unmounted", "mounting"} => task'[u] # "open"
      BY <1>5, <1>6, Constants DEF FInv, PhaseInv
    <2> QED
      BY <2>1, <2>2 DEF PhaseInv
  <1>10. Holders'
    <2>1. \A u \in Users : Holds(u)' => Holds(u) /\ fd'[u] = fd[u]
      BY <1>5, <1>6, Constants DEF Holds
    <2>2. \A e, p : Has(e, p)' <=> Has(e, p)
      BY <1>2 DEF Has
    <2> QED
      BY <2>1, <2>2 DEF FInv, Holders
  <1>11. FilesInv'
    <2>1. /\ answered # <<>> /\ answered' = Tail(answered) /\ a = Head(answered)
      BY DEF Taken
    <2> QED
      BY <1>1, <1>2, <2>1, FilesPassed DEF FInv, TInv
  <1> QED
    BY <1>8, <1>9, <1>10, <1>11 DEF FInv

\* The next continuation.
LEMMA FilesResume == ASSUME FInv, Resume PROVE FInv'
  <1>1. \E a : Taken(a) /\ Continue(a)
    BY DEF Resume, Taken
  <1>2. TInv'
    BY TypeNext DEF FInv, Next
  <1>3. PICK a : Taken(a) /\ Continue(a)
    BY <1>1
  <1> QED
    BY <1>2, <1>3, FilesCallBinding, FilesMounted, FilesOpenedSeen, FilesUsed, FilesClosedSeen,
       FilesClosedByUmount, FilesUnmounted DEF Continue

-----------------------------------------------------------------------------
(* What C and JavaScript make of a file *)

LEMMA FilesInit == Init => FInv
  <1> SUFFICES ASSUME Init PROVE FInv
    OBVIOUS
  <1>1. TInv /\ line = <<>> /\ answered = <<>> /\ Len(line) = 0 /\ Len(answered) = 0
    BY TypeInit DEF Init
  <1>2. /\ \A w, i : ~Waits(w, i) /\ ~Done(w, i)
        /\ \A i, d, p : ~Closes(i, d, p) /\ ~Opens(i, d, p)
    BY <1>1 DEF Waits, Done, Closes, Opens
  <1>3. \A d \in Disks : openFiles[d] = <<>> /\ fs[d] = "unmounted" /\ \A p : ~Has(d, p)
    BY DEF Init, Has, Contains
  <1>4. SuitsInv
    BY <1>2 DEF SuitsInv
  <1>5. PhaseInv /\ Holders
    BY <1>3, Constants DEF Init, PhaseInv, Holders, Holds
  <1>6. CInv
    BY <1>1, <1>3 DEF CInv
  <1>7. FilesInv
    <2>1. \A p \in Pointers, d \in Disks : cFiles[p] # d
      BY Constants DEF Init
    <2> QED
      BY <1>2, <1>3, <2>1 DEF FilesInv, FilesAgree, OpenedOnce, ClosedFirst
  <1> QED
    BY <1>1, <1>4, <1>5, <1>6, <1>7 DEF FInv, NoMisuse, Init

\* Every action keeps the invariant.
LEMMA FilesNext == ASSUME Tracked PROVE FInv /\ [Next]_vars => FInv'
  <1> SUFFICES ASSUME FInv, [Next]_vars PROVE FInv'
    OBVIOUS
  <1>1. ASSUME NEW d \in Disks, Mount(d) \/ Umount(d) PROVE FInv'
    BY <1>1, FilesMount, FilesUmount
  <1>2. ASSUME NEW u \in Users, Open(u) \/ Use(u) \/ Close(u) PROVE FInv'
    BY <1>2, FilesUser
  <1>3. CASE UNCHANGED vars
    <2>1. TInv'
      BY TypeNext DEF FInv
    <2>2. /\ UNCHANGED <<fs, task, fd, openFiles, cFs, cFiles, misuse, line, answered>>
      BY <1>3 DEF vars, js, c
    <2>3. SuitsInv' /\ PhaseInv' /\ CInv'
      BY <2>2 DEF FInv, SuitsInv, Waits, Done, Suits, DiskSuits, UserSuits, PhaseInv, CInv,
                  CallFits, AnswerFits
    <2>4. FilesInv' /\ Holders' /\ NoMisuse'
      BY <2>2 DEF FInv, FilesInv, FilesAgree, OpenedOnce, ClosedFirst, Has, Opens, Closes,
                  DiskOfRequest, Holders, Holds, NoMisuse
    <2> QED
      BY <2>1, <2>3, <2>4 DEF FInv
  <1> QED
    BY <1>1, <1>2, <1>3, FilesServe, FilesResume DEF Next

\* While every close is awaited and succeeds, no open fails in its truncate and
\* no stale descriptor is handed to a later mount,
\* C is never asked to read or close a file it has freed, nor to use a
\* filesystem it has closed: for any number of disks, of users and of pointers
\* that malloc gives out again (lib/fs.js, lib/ext2fs.js, src/glue.c).
THEOREM NoFreedMemoryUsed == ASSUME Tracked PROVE Spec => []NoMisuse
  <1>1. FInv => NoMisuse
    BY DEF FInv
  <1> QED
    BY <1>1, FilesInit, FilesNext, PTL DEF Spec

\* A user or a disk with a call on its way waits for it.
LEMMA Waiting ==
    ASSUME FInv, NEW d \in Disks, NEW i \in Nat, NEW p, Closes(i, d, p) \/ Opens(i, d, p)
    PROVE  /\ fs[d] \in {"mounted", "closing"}
           /\ fs[d] = "mounted" => \E u \in Users : DiskOf[u] = d
                                                  /\ task[u] \in {"opening", "closing"}
  <1> DEFINE r == answered[i].req
  <1>1. /\ i \in 1 .. Len(answered) /\ r.what \in {"open", "close"} /\ DiskOfRequest(r) = d
    BY DEF Opens, Closes
  <1>2. Proper(r)
    BY <1>1, ProperCalls
  <1>3. CASE r.who \in Users
    <2>1. UserSuits(r.who, r) /\ DiskOfRequest(r) = DiskOf[r.who] /\ fs[DiskOf[r.who]] = "mounted"
      BY <1>2, <1>3, UserCall
    <2> QED
      BY <1>1, <1>3, <2>1 DEF UserSuits
  <1>4. CASE r.who \notin Users
    <2>1. r.what = "close" /\ r.who \in Disks
      BY <1>1, <1>2, <1>4, UserCall, Fields DEF Proper
    <2> QED
      BY <1>1, <1>2, <2>1, DiskClose
  <1> QED
    BY <1>3, <1>4

\* The same says what openFiles is for: whenever no open and no close of a disk
\* is under way, the descriptors that checkFd accepts are the files that C has
\* of it (lib/fs.js).
THEOREM OpenFilesAreC == ASSUME Tracked PROVE Spec => []OpenFilesExact
  <1>1. FInv => OpenFilesExact
    <2> SUFFICES ASSUME FInv, NEW d \in Disks, fs[d] = "mounted",
                        \A u \in Users : DiskOf[u] = d => task[u] \in {"idle", "open", "stale"}
                 PROVE  ToSet(openFiles[d]) = {p \in Pointers : cFiles[p] = d}
      BY DEF OpenFilesExact
    <2>1. \A p : \A i \in Nat : ~Closes(i, d, p) /\ ~Opens(i, d, p)
      BY Waiting
    <2>2. \A p \in Pointers : cFiles[p] = d <=> Has(d, p)
      BY <2>1 DEF FInv, FilesInv, FilesAgree
    <2>3. openFiles[d] \in Seq(Pointers)
      BY DEF FInv, TInv, FilesType
    <2>4. \A p : p \in ToSet(openFiles[d]) <=> p \in Pointers /\ Has(d, p)
      BY <2>3 DEF ToSet, Has, Contains
    <2> QED
      BY <2>2, <2>4
  <1> QED
    BY <1>1, FilesInit, FilesNext, PTL DEF Spec

\* When C closes a filesystem it has no file of it left, whatever was open when
\* umount was called: closeAllFileDescriptors of lib/ext2fs.js forgets none.
THEOREM NoFileOutlives == ASSUME Tracked PROVE Spec => []FilesEndWithFs
  <1>1. FInv => FilesEndWithFs
    <2> SUFFICES ASSUME FInv, NEW p \in Pointers, cFiles[p] # None PROVE cFiles[p] \in cFs
      BY DEF FilesEndWithFs
    <2>1. PICK d \in Disks : d = cFiles[p]
      BY DEF FInv, TInv, FilesType
    <2>2. Has(d, p) \/ \E i \in Nat : Opens(i, d, p)
      BY <2>1 DEF FInv, FilesInv, FilesAgree
    <2>3. Has(d, p) => openFiles[d] # <<>>
      BY DEF Has, Contains
    <2>4. fs[d] \in {"mounted", "closing"}
      BY <2>2, <2>3, Waiting DEF FInv, TInv, FilesType, PhaseInv
    <2> QED
      BY <2>1, <2>4 DEF FInv, CInv
  <1> QED
    BY <1>1, FilesInit, FilesNext, PTL DEF Spec
=============================================================================
