---------------------------- MODULE InodesProofs ----------------------------
(***************************************************************************)
(* For any number of tasks, any instants up to the end of the extra word   *)
(* and any size of the heap: a stat is a snapshot, times are right, and    *)
(* C's memory is accounted for.                                            *)
(*                                                                         *)
(* The invariant says what each time on the disk is the time of (TimeInv), *)
(* what a stat has collected and from which copy (StatInv), and that no    *)
(* time of any copy is negative before 2038 (SignInv).                     *)
(***************************************************************************)
EXTENDS Inodes, FiniteSetTheorems, TLAPS

TimeInv ==
    \A x \in Times :
       /\ row.low[x] = LowWord(stamped[x].at)
       /\ stamped[x].at <= now
       /\ stamped[x].full /\ Large => row.extra[x] = EncodeExtra(stamped[x].at)
       /\ now < Half => row.extra[x] = 0

SignInv ==
    now < Half =>
       /\ \A x \in Times : row.low[x] >= 0
       /\ \A t \in Tasks, x \in Times : IsOpen(t) => file[t].low[x] >= 0

StatInv ==
    \A s \in Staters :
       /\ stage[s] \in {"opened", "ctime", "rest"} => IsOpen(s) /\ seen[s] = file[s]
       /\ stage[s] = "ctime" => result[s] = [ctime |-> seen[s].low["ctime"]]

IInv == TypeOK /\ TimeInv /\ SignInv /\ StatInv /\ StatIsSnapshot /\ HeapAccounted

-----------------------------------------------------------------------------
(* Times in two words *)

LEMMA ModSmall == ASSUME NEW n \in Nat \ {0}, NEW t \in 0 .. n - 1 PROVE t % n = t
  BY SMT
LEMMA ModRange == ASSUME NEW n \in Nat \ {0}, NEW t \in Int PROVE t % n \in 0 .. n - 1
  BY SMT

LEMMA DivExact == ASSUME NEW w \in Nat \ {0}, NEW q \in Nat PROVE (w * q) \div w = q
  BY SMT

LEMMA Constants == /\ Half \in Nat \ {0} /\ 2 * Half \in Nat \ {0} /\ IdMod \in Nat \ {0}
                   /\ Instants \subseteq Nat /\ HeapSize \in Nat /\ Ids \subseteq Nat
                   /\ Users \cap Staters = {} /\ None \notin Row
  BY InodesAssumption DEF InodesAssumption

\* The low word is a signed word, and what it leaves out is a number of wraps.
LEMMA LowWordType ==
    ASSUME NEW t \in Nat
    PROVE  /\ LowWord(t) \in -Half .. Half - 1
           /\ LowWord(t) < 0 => t >= Half
           /\ t < Half => LowWord(t) = t
  <1>1. t % (2 * Half) \in 0 .. 2 * Half - 1
    BY Constants, ModRange
  <1>2. t < Half => t % (2 * Half) = t
    BY Constants, ModSmall
  <1> QED
    BY <1>1, <1>2, Constants DEF LowWord

LEMMA EncodeExtraType ==
    ASSUME NEW t \in Nat
    PROVE  /\ EncodeExtra(t) \in 0 .. EpochMask - 1
           /\ t < Half => EncodeExtra(t) = 0
  <1>1. LowWord(t) \in Int
    BY LowWordType, Constants
  <1>2. (t - LowWord(t)) \div (2 * Half) \in Int
    BY <1>1, Constants
  <1>3. EncodeExtra(t) \in 0 .. EpochMask - 1
    <2> DEFINE e == (t - LowWord(t)) \div (2 * Half)
    <2>1. e \in Int
      BY <1>2
    <2>2. e % 4 \in 0 .. 3
      BY <2>1
    <2> QED
      BY <2>2 DEF EncodeExtra, EpochMask
  <1>4. ASSUME t < Half PROVE EncodeExtra(t) = 0
    <2>1. t - LowWord(t) = 0
      BY <1>4, LowWordType, Constants
    <2>2. 0 \div (2 * Half) = 0
      BY Constants
    <2> QED
      BY <2>1, <2>2 DEF EncodeExtra, EpochMask
  <1> QED
    BY <1>3, <1>4

LEMMA QuotientBelow ==
    ASSUME NEW w \in Nat \ {0}, NEW q \in Int, NEW r \in 0 .. w - 1,
           0 <= w * q + r, w * q + r < 4 * w
    PROVE  q \in 0 .. 3
  <1>1. \A a, b \in Nat : a * b >= 0
    OBVIOUS
  <1>2. ASSUME q < 0 PROVE FALSE
    <2>1. w * (-1 - q) >= 0
      BY <1>1, <1>2
    <2>2. w * (-1 - q) = -w - w * q
      OBVIOUS
    <2> QED
      BY <2>1, <2>2
  <1>3. ASSUME q > 3 PROVE FALSE
    <2>1. w * (q - 4) >= 0
      BY <1>1, <1>3
    <2>2. w * (q - 4) = w * q - 4 * w
      OBVIOUS
    <2> QED
      BY <2>1, <2>2
  <1> QED
    BY <1>2, <1>3

\* The two words together are the time, up to the year 2446.
LEMMA EncodeDecode ==
    ASSUME NEW t \in Nat, t < (2 * EpochMask - 1) * Half
    PROVE  Decode(LowWord(t), EncodeExtra(t)) = t
  <1> DEFINE w == 2 * Half
             q == t \div w
             r == t % w
             e == (t - LowWord(t)) \div w
  <1>1. w \in Nat \ {0} /\ q \in Int /\ r \in 0 .. w - 1 /\ t = w * q + r
    BY Constants
  <1>2. q \in Nat /\ q <= 3
    <2>1. t < 4 * w
      BY Constants DEF EpochMask
    <2> HIDE DEF w, q, r
    <2> QED
      BY <1>1, <2>1, QuotientBelow
  <1>3. CASE r < Half
    <2>1. LowWord(t) = r
      BY <1>3, <1>1, Constants DEF LowWord
    <2>2. t - LowWord(t) = w * q
      BY <1>1, <2>1
    <2>3. (w * q) \div w = q
      <3> HIDE DEF w, q
      <3> QED
        BY <1>1, <1>2, DivExact
    <2>4. e = q /\ q % 4 = q
      BY <1>2, <2>2, <2>3, ModSmall
    <2> QED
      BY <1>1, <1>2, <2>1, <2>4, Constants DEF Decode, EncodeExtra, EpochMask
  <1>4. CASE r >= Half
    <2>1. LowWord(t) = r - w
      BY <1>4, <1>1, Constants DEF LowWord
    <2>2. t - LowWord(t) = w * (q + 1)
      BY <1>1, <1>2, <2>1
    <2>3. (w * (q + 1)) \div w = q + 1
      <3> HIDE DEF w, q
      <3>1. w \in Nat \ {0} /\ q + 1 \in Nat
        BY <1>1, <1>2
      <3> QED
        BY <3>1, DivExact
    <2>4. q <= 2
      <3>1. t < 7 * Half
        BY DEF EpochMask
      <3>2. q = 3 => t = w * 3 + r
        BY <1>1
      <3>3. w * 3 = 6 * Half
        BY Constants
      <3> HIDE DEF q, r, w
      <3>4. q # 3
        BY <1>1, <1>4, <3>1, <3>2, <3>3, Constants
      <3> QED
        BY <1>1, <1>2, <3>4
    <2>5. e = q + 1 /\ (q + 1) % 4 = q + 1
      <3>1. e = q + 1
        BY <2>2, <2>3
      <3>2. q + 1 \in 0 .. 4 - 1
        BY <1>2, <2>4
      <3> HIDE DEF q
      <3>3. (q + 1) % 4 = q + 1
        BY <3>2, ModSmall
      <3> QED
        BY <3>1, <3>3
    <2>6. EncodeExtra(t) = q + 1
      BY <2>5 DEF EncodeExtra, EpochMask
    <2>7. (q + 1) * 2 * Half = w * (q + 1)
      BY <1>1, <1>2, Constants
    <2>8. Decode(LowWord(t), EncodeExtra(t)) = LowWord(t) + w * (q + 1)
      BY <2>6, <2>7 DEF Decode
    <2>9. LowWord(t) \in Int
      BY LowWordType, Constants
    <2> HIDE DEF q, r, w
    <2> QED
      BY <1>1, <1>2, <2>2, <2>8, <2>9
  <1> QED
    BY <1>1, <1>3, <1>4, Constants
-----------------------------------------------------------------------------
(* Rows and files *)

\* Setting a time leaves a row whose words fit, and sets only its own words.
LEMMA RowWithTimes ==
    ASSUME TypeOK, NEW r \in Row, NEW xs
    PROVE  /\ SetLow(r, xs) \in Row
           /\ SetXtime(r, xs) \in Row
  <1>1. now \in Nat
    BY Constants DEF TypeOK
  <1>2. LowWord(now) \in -Half .. Half - 1 /\ EncodeExtra(now) \in 0 .. EpochMask - 1
    BY <1>1, LowWordType, EncodeExtraType
  <1>3. r.low \in [Times -> -Half .. Half - 1] /\ r.extra \in [Times -> 0 .. EpochMask - 1]
    BY DEF Row
  <1>4. [x \in Times |-> IF x \in xs THEN LowWord(now) ELSE r.low[x]]
          \in [Times -> -Half .. Half - 1]
    BY <1>2, <1>3
  <1>5. [x \in Times |-> IF x \in xs /\ Large THEN EncodeExtra(now) ELSE r.extra[x]]
          \in [Times -> 0 .. EpochMask - 1]
    BY <1>2, <1>3
  <1>6. SetLow(r, xs) \in Row
    BY <1>4 DEF SetLow, Row
  <1>7. SetXtime(r, xs) \in Row
    BY <1>4, <1>5 DEF SetXtime, Row
  <1> QED
    BY <1>6, <1>7

FilesOpen == {t \in Tasks : IsOpen(t)}

LEMMA TasksFinite == IsFiniteSet(Tasks)
  BY InodesAssumption, FS_Union DEF InodesAssumption, Tasks

LEMMA FilesFinite ==
    /\ IsFiniteSet(FilesOpen) /\ Cardinality(FilesOpen) \in Nat
    /\ HeapAccounted <=> heap.files = Cardinality(FilesOpen) + left /\ heap.buffers = 0
  <1>1. FilesOpen \subseteq Tasks
    BY DEF FilesOpen
  <1>2. IsFiniteSet(FilesOpen)
    BY <1>1, TasksFinite, FS_Subset
  <1> QED
    BY <1>2, FS_CardinalityType DEF HeapAccounted, FilesOpen

\* The same of the next state.
LEMMA FilesFiniteNext ==
    HeapAccounted' <=> heap'.files = Cardinality(FilesOpen)' + left' /\ heap'.buffers = 0
  BY DEF HeapAccounted, FilesOpen

\* Opening adds one file, closing or dropping takes one away, writing keeps them.
LEMMA OneMoreOpen ==
    ASSUME TypeOK, NEW u \in Tasks, ~IsOpen(u), file' = [file EXCEPT ![u] = row]
    PROVE  Cardinality(FilesOpen)' = Cardinality(FilesOpen) + 1
  <1>1. FilesOpen' = FilesOpen \cup {u}
    BY Constants DEF TypeOK, FilesOpen, IsOpen
  <1>2. u \notin FilesOpen
    BY DEF FilesOpen
  <1> QED
    BY <1>1, <1>2, FilesFinite, FS_AddElement

LEMMA OneLessOpen ==
    ASSUME TypeOK, NEW u \in Tasks, IsOpen(u), file' = [file EXCEPT ![u] = None]
    PROVE  /\ Cardinality(FilesOpen)' = Cardinality(FilesOpen) - 1
           /\ Cardinality(FilesOpen)' \in Nat
  <1>1. FilesOpen' = FilesOpen \ {u}
    BY DEF TypeOK, FilesOpen, IsOpen
  <1>2. u \in FilesOpen
    BY DEF FilesOpen
  <1>3. IsFiniteSet(FilesOpen \ {u}) /\ Cardinality(FilesOpen \ {u}) = Cardinality(FilesOpen) - 1
    BY <1>2, FilesFinite, FS_RemoveElement
  <1> QED
    BY <1>1, <1>3, FS_CardinalityType

LEMMA AsManyOpen ==
    ASSUME TypeOK, NEW u \in Tasks, IsOpen(u), NEW new \in Row, file' = [file EXCEPT ![u] = new]
    PROVE  FilesOpen' = FilesOpen
  BY Constants DEF TypeOK, FilesOpen, IsOpen

-----------------------------------------------------------------------------
(* The invariant holds at first *)

LEMMA Initially == Init => IInv
  <1> SUFFICES ASSUME Init PROVE IInv
    OBVIOUS
  <1>1. now \in Instants /\ now \in Nat
    BY Constants DEF Init
  <1>2. PICK kind \in Kinds, p \in Perms :
          row = SetLow([kind |-> kind, perm |-> p, uid |-> 0,
                        low |-> [x \in Times |-> 0], extra |-> [x \in Times |-> 0]], Times)
    BY DEF Init
  <1>3. LowWord(now) \in -Half .. Half - 1 /\ (now < Half => LowWord(now) = now)
    BY <1>1, LowWordType
  <1>4. row = [kind |-> kind, perm |-> p, uid |-> 0,
               low |-> [x \in Times |-> LowWord(now)], extra |-> [x \in Times |-> 0]]
    BY <1>2 DEF SetLow
  <1>5. row \in Row
    BY <1>3, <1>4, Constants DEF Row, EpochMask
  <1>6. FilesOpen = {}
    BY DEF Init, FilesOpen, IsOpen
  <1>7. HeapAccounted
    BY <1>6, FilesFinite, FS_EmptySet DEF Init
  <1>8. TypeOK
    BY <1>1, <1>5, Constants DEF Init, TypeOK
  <1>9. TimeInv
    BY <1>1, <1>4 DEF Init, TimeInv
  <1>10. SignInv
    BY <1>1, <1>3, <1>4 DEF Init, SignInv, IsOpen
  <1>11. StatInv /\ StatIsSnapshot
    BY DEF Init, StatInv, StatIsSnapshot, Tasks
  <1> QED
    BY <1>7, <1>8, <1>9, <1>10, <1>11 DEF IInv

-----------------------------------------------------------------------------
(* Every step keeps the invariant *)

\* What a call that leaves the inode, its copies and the stats alone keeps.
LEMMA Apart ==
    ASSUME IInv, UNCHANGED <<row, file, Stats, now, stamped>>
    PROVE  TimeInv' /\ SignInv' /\ StatInv' /\ StatIsSnapshot' /\ FilesOpen' = FilesOpen
  BY DEF IInv, Stats, TimeInv, SignInv, StatInv, StatIsSnapshot, IsOpen, FilesOpen

\* Readdir and OpenTruncFails: one more file, which is left.
LEMMA LeftBehind ==
    ASSUME IInv, MayAllocate, UNCHANGED <<row, file, Stats, now, stamped>>,
           heap' = [heap EXCEPT !.files = @ + 1], left' = left + 1
    PROVE  IInv'
  <1>1. TypeOK'
    BY Constants DEF IInv, TypeOK, MayAllocate, Stats
  <1>2. HeapAccounted'
    BY Apart, FilesFinite, FilesFiniteNext DEF IInv, TypeOK
  <1> QED
    BY <1>1, <1>2, Apart DEF IInv

LEMMA ReadlinkKeeps ==
    ASSUME IInv, NEW storage \in Storages, NEW isRead \in BOOLEAN, Readlink(storage, isRead)
    PROVE  IInv'
  <1>1. heap' = heap
    BY DEF IInv, TypeOK, Readlink, Freed, BuffersFor
  <1>2. TypeOK' /\ HeapAccounted'
    BY <1>1, Apart, FilesFinite, FilesFiniteNext DEF IInv, TypeOK, Readlink, Stats
  <1> QED
    BY <1>2, Apart DEF IInv, Readlink

\* A copy of the row is as positive as the row.
LEMMA OpenSigns ==
    ASSUME IInv, NEW u \in Tasks, FileOpen(u), UNCHANGED <<row, now, stamped>>
    PROVE  /\ TimeInv' /\ SignInv'
           /\ heap' \in [files : Nat, buffers : Nat] /\ heap'.files + heap'.buffers <= HeapSize
           /\ file' \in [Tasks -> Row \cup {None}] /\ file'[u] = row /\ row # None
           /\ \A s \in Tasks \ {u} : file'[s] = file[s]
           /\ left' = left => HeapAccounted'
  <1>1. TimeInv'
    BY DEF IInv, TimeInv
  <1>2. /\ file' \in [Tasks -> Row \cup {None}] /\ file'[u] = row /\ row # None
        /\ \A s \in Tasks \ {u} : file'[s] = file[s]
    BY Constants DEF IInv, TypeOK, FileOpen
  <1>3. SignInv'
    BY <1>2 DEF IInv, SignInv, IsOpen
  <1>4. heap' \in [files : Nat, buffers : Nat] /\ heap'.files + heap'.buffers <= HeapSize
    BY Constants DEF IInv, TypeOK, FileOpen, MayAllocate
  <1>5. ASSUME left' = left PROVE HeapAccounted'
    <2>1. Cardinality(FilesOpen)' = Cardinality(FilesOpen) + 1
      BY OneMoreOpen DEF FileOpen, IInv
    <2>2. heap'.files = heap.files + 1 /\ heap'.buffers = heap.buffers
      BY DEF FileOpen, IInv, TypeOK
    <2>3. heap.files = Cardinality(FilesOpen) + left /\ heap.buffers = 0
      BY FilesFinite DEF IInv
    <2>4. heap'.files = Cardinality(FilesOpen)' + left' /\ heap'.buffers = 0
      BY <1>5, <2>1, <2>2, <2>3, FilesFinite DEF IInv, TypeOK
    <2> QED
      BY <2>4, FilesFiniteNext
  <1> QED
    BY <1>1, <1>2, <1>3, <1>4, <1>5

\* A copy less: by a close, which frees it, or when nobody is left to close it.
LEMMA DropKeeps ==
    ASSUME IInv, NEW u \in Tasks, IsOpen(u), file' = [file EXCEPT ![u] = None],
           UNCHANGED <<row, now, stamped>>,
           \/ heap' = [heap EXCEPT !.files = @ - 1] /\ left' = left
           \/ heap' = heap /\ left' = left + 1
    PROVE  /\ TimeInv' /\ SignInv' /\ HeapAccounted' /\ left' \in Nat
           /\ heap' \in [files : Nat, buffers : Nat] /\ heap'.files + heap'.buffers <= HeapSize
           /\ file' \in [Tasks -> Row \cup {None}]
           /\ \A s \in Tasks \ {u} : file'[s] = file[s]
  <1>1. TimeInv'
    BY DEF IInv, TimeInv
  <1>2. /\ file' \in [Tasks -> Row \cup {None}] /\ file'[u] = None
        /\ \A s \in Tasks \ {u} : file'[s] = file[s]
    BY DEF IInv, TypeOK
  <1>3. SignInv'
    BY <1>2 DEF IInv, SignInv, IsOpen
  <1>4. Cardinality(FilesOpen)' = Cardinality(FilesOpen) - 1 /\ Cardinality(FilesOpen)' \in Nat
    BY OneLessOpen DEF IInv
  <1>5. heap.files = Cardinality(FilesOpen) + left /\ heap.buffers = 0
    BY FilesFinite DEF IInv
  <1>6. /\ left \in Nat /\ Cardinality(FilesOpen) \in Nat
        /\ heap \in [files : Nat, buffers : Nat] /\ heap.files + heap.buffers <= HeapSize
    BY FilesFinite DEF IInv, TypeOK
  <1>7. heap'.files = Cardinality(FilesOpen)' + left' /\ heap'.buffers = 0 /\ left' \in Nat
    BY <1>4, <1>5, <1>6
  <1>8. heap' \in [files : Nat, buffers : Nat] /\ heap'.files + heap'.buffers <= HeapSize
    BY <1>4, <1>5, <1>6, <1>7, Constants
  <1> QED
    BY <1>1, <1>2, <1>3, <1>7, <1>8, FilesFiniteNext

LEMMA UserOpens == ASSUME IInv, NEW u \in Users, Open(u) PROVE IInv'
  <1>1. u \in Tasks /\ FileOpen(u) /\ UNCHANGED <<row, Stats, now, stamped, left>>
    BY DEF Open, Tasks
  <1>2. TypeOK'
    BY <1>1, OpenSigns DEF IInv, TypeOK, Stats
  <1>3. StatInv' /\ StatIsSnapshot'
    BY <1>1, OpenSigns, Constants DEF IInv, Stats, StatInv, StatIsSnapshot, IsOpen, Tasks
  <1> QED
    BY <1>1, <1>2, <1>3, OpenSigns DEF IInv

LEMMA UserCloses == ASSUME IInv, NEW u \in Users, Close(u) PROVE IInv'
  <1>1. /\ u \in Tasks /\ IsOpen(u) /\ file' = [file EXCEPT ![u] = None]
        /\ heap' = [heap EXCEPT !.files = @ - 1]
        /\ UNCHANGED <<row, Stats, now, stamped, left>>
    BY DEF Close, FileClose, Tasks
  <1>2. TypeOK'
    BY <1>1, DropKeeps DEF IInv, TypeOK, Stats
  <1>3. StatInv' /\ StatIsSnapshot'
    BY <1>1, DropKeeps, Constants DEF IInv, Stats, StatInv, StatIsSnapshot, IsOpen, Tasks
  <1> QED
    BY <1>1, <1>2, <1>3, DropKeeps DEF IInv

\* A change of the inode through a file keeps what is not about its times.
LEMMA WriteKeeps ==
    ASSUME IInv, NEW u \in Users, NEW new \in Row, WriteInode(u, new)
    PROVE  /\ StatInv' /\ StatIsSnapshot' /\ HeapAccounted'
           /\ file' \in [Tasks -> Row \cup {None}] /\ file'[u] = new
           /\ \A s \in Tasks \ {u} : file'[s] = file[s]
  <1>1. /\ u \in Tasks /\ IsOpen(u) /\ file' = [file EXCEPT ![u] = new]
        /\ UNCHANGED <<Stats, heap, now, left>>
    BY DEF WriteInode, Tasks
  <1>2. /\ file' \in [Tasks -> Row \cup {None}] /\ file'[u] = new
        /\ \A s \in Tasks \ {u} : file'[s] = file[s]
    BY <1>1 DEF IInv, TypeOK
  <1>3. FilesOpen' = FilesOpen
    BY <1>1, AsManyOpen DEF IInv
  <1>4. HeapAccounted'
    BY <1>1, <1>3, FilesFinite, FilesFiniteNext DEF IInv
  <1>5. StatInv' /\ StatIsSnapshot'
    BY <1>1, <1>2, Constants DEF IInv, Stats, StatInv, StatIsSnapshot, IsOpen, Tasks
  <1> QED
    BY <1>2, <1>4, <1>5

\* chmod and chown.
LEMMA AttributeKeeps ==
    ASSUME IInv, NEW u \in Users, NEW new \in Row, WriteInode(u, new), UNCHANGED stamped,
           new.low = row.low, new.extra = row.extra
    PROVE  IInv'
  <1>1. row' = new /\ UNCHANGED <<Stats, heap, now, left>>
    BY DEF WriteInode
  <1>2. TypeOK'
    BY <1>1, WriteKeeps DEF IInv, TypeOK, Stats
  <1>3. TimeInv'
    BY <1>1 DEF IInv, TimeInv
  <1>4. SignInv'
    BY <1>1, WriteKeeps DEF IInv, SignInv, IsOpen
  <1> QED
    BY <1>2, <1>3, <1>4, WriteKeeps DEF IInv

\* A read or a write sets low words; their extra words stay 0 up to 2038.
LEMMA XtimeKeeps == ASSUME IInv, NEW u \in Users, NEW xs, UpdateXtime(u, xs) PROVE IInv'
  <1> DEFINE new == SetLow(row, xs)
  <1>1. new \in Row
    BY RowWithTimes DEF IInv, TypeOK
  <1>2. /\ WriteInode(u, new) /\ row' = new /\ UNCHANGED <<Stats, heap, now, left>>
        /\ Stamp(xs, FALSE)
    BY DEF UpdateXtime, WriteInode, ReadInode
  <1>3. now \in Nat /\ now \in Instants
    BY Constants DEF IInv, TypeOK
  <1>4. \A x \in Times : stamped'[x] = IF x \in xs THEN [at |-> now, full |-> FALSE] ELSE stamped[x]
    BY <1>2 DEF Stamp
  <1>5. \A x \in Times : /\ new.low[x] = IF x \in xs THEN LowWord(now) ELSE row.low[x]
                         /\ new.extra[x] = row.extra[x]
    BY DEF SetLow, IInv, TypeOK, Row
  <1>6. TypeOK'
    <2>1. stamped' \in [Times -> [at : Instants, full : BOOLEAN]]
      BY <1>2, <1>3 DEF Stamp, IInv, TypeOK
    <2> QED
      BY <1>1, <1>2, <2>1, WriteKeeps DEF IInv, TypeOK, Stats
  <1>7. TimeInv'
    <2>1. ASSUME NEW x \in Times
          PROVE  /\ new.low[x] = LowWord(stamped'[x].at) /\ stamped'[x].at <= now
                 /\ stamped'[x].full /\ Large => new.extra[x] = EncodeExtra(stamped'[x].at)
                 /\ now < Half => new.extra[x] = 0
      BY <1>3, <1>4, <1>5 DEF IInv, TimeInv
    <2> QED
      BY <1>2, <2>1 DEF TimeInv
  <1>8. SignInv'
    <2>1. now < Half => \A x \in Times : new.low[x] >= 0
      BY <1>3, <1>5, LowWordType DEF IInv, SignInv
    <2> QED
      BY <1>1, <1>2, <2>1, WriteKeeps DEF IInv, SignInv, IsOpen
  <1> QED
    BY <1>1, <1>2, <1>6, <1>7, <1>8, WriteKeeps DEF IInv

\* link, unlink, rename and the calls on directories set both words.
LEMMA FullKeeps == ASSUME IInv, NEW xs, UpdateFull(xs) PROVE IInv'
  <1> DEFINE new == SetXtime(row, xs)
  <1>1. new \in Row
    BY RowWithTimes DEF IInv, TypeOK
  <1>2. row' = new /\ UNCHANGED <<file, Stats, heap, now, left>> /\ Stamp(xs, TRUE)
    BY DEF UpdateFull
  <1>3. now \in Nat /\ now \in Instants
    BY Constants DEF IInv, TypeOK
  <1>4. \A x \in Times : stamped'[x] = IF x \in xs THEN [at |-> now, full |-> TRUE] ELSE stamped[x]
    BY <1>2 DEF Stamp
  <1>5. \A x \in Times :
          /\ new.low[x] = IF x \in xs THEN LowWord(now) ELSE row.low[x]
          /\ new.extra[x] = IF x \in xs /\ Large THEN EncodeExtra(now) ELSE row.extra[x]
    BY DEF SetXtime, IInv, TypeOK, Row
  <1>6. TypeOK'
    <2>1. stamped' \in [Times -> [at : Instants, full : BOOLEAN]]
      BY <1>2, <1>3 DEF Stamp, IInv, TypeOK
    <2> QED
      BY <1>1, <1>2, <2>1 DEF IInv, TypeOK, Stats
  <1>7. TimeInv'
    <2>1. now < Half => EncodeExtra(now) = 0
      BY <1>3, EncodeExtraType
    <2>2. ASSUME NEW x \in Times
          PROVE  /\ new.low[x] = LowWord(stamped'[x].at) /\ stamped'[x].at <= now
                 /\ stamped'[x].full /\ Large => new.extra[x] = EncodeExtra(stamped'[x].at)
                 /\ now < Half => new.extra[x] = 0
      BY <1>3, <1>4, <1>5, <2>1 DEF IInv, TimeInv
    <2> QED
      BY <1>2, <2>2 DEF TimeInv
  <1>8. SignInv'
    <2>1. now < Half => \A x \in Times : new.low[x] >= 0
      BY <1>3, <1>5, LowWordType DEF IInv, SignInv
    <2> QED
      BY <1>2, <2>1 DEF IInv, SignInv, IsOpen
  <1>9. StatInv' /\ StatIsSnapshot' /\ HeapAccounted'
    BY <1>2 DEF IInv, Stats, StatInv, StatIsSnapshot, HeapAccounted, IsOpen
  <1> QED
    BY <1>6, <1>7, <1>8, <1>9 DEF IInv

LEMMA TickKeeps == ASSUME IInv, Tick PROVE IInv'
  <1>1. now' \in Instants /\ now' \in Nat /\ now \in Nat /\ now' > now
    BY Constants DEF IInv, TypeOK, Tick
  <1>2. UNCHANGED <<row, file, Stats, heap, stamped, left>>
    BY DEF Tick
  <1>3. TypeOK'
    BY <1>1, <1>2 DEF IInv, TypeOK, Stats
  <1>4. \A x \in Times : stamped[x].at \in Nat
    BY Constants DEF IInv, TypeOK
  <1>5. TimeInv' /\ SignInv'
    BY <1>1, <1>2, <1>4, Constants DEF IInv, TimeInv, SignInv, IsOpen
  <1>6. StatInv' /\ StatIsSnapshot' /\ HeapAccounted'
    BY <1>1, <1>2, Constants DEF IInv, Stats, StatInv, StatIsSnapshot, HeapAccounted, IsOpen
  <1> QED
    BY <1>3, <1>5, <1>6 DEF IInv

-----------------------------------------------------------------------------
(* The steps of a stat *)

LEMMA StatOpens == ASSUME IInv, NEW s \in Staters, StatOpen(s) PROVE IInv'
  <1>1. /\ s \in Tasks /\ FileOpen(s) /\ UNCHANGED <<row, result, now, stamped, left>>
        /\ stage' = [stage EXCEPT ![s] = "opened"] /\ seen' = [seen EXCEPT ![s] = row]
    BY DEF StatOpen, Tasks
  <1>2. TypeOK'
    BY <1>1, OpenSigns DEF IInv, TypeOK
  <1>3. \A z \in Staters : IF z = s THEN stage'[z] = "opened" /\ seen'[z] = row
                           ELSE stage'[z] = stage[z] /\ seen'[z] = seen[z]
    BY <1>1 DEF IInv, TypeOK, Tasks
  <1>4. StatInv' /\ StatIsSnapshot'
    BY <1>1, <1>3, OpenSigns DEF IInv, StatInv, StatIsSnapshot, IsOpen, Tasks
  <1> QED
    BY <1>1, <1>2, <1>4, OpenSigns DEF IInv

\* A time is negative only after 2038: the stat throws, and leaves its file.
LEMMA StatThrows ==
    ASSUME IInv, NEW s \in Staters, IsOpen(s), NEW x \in Times, file[s].low[x] < 0, GetterThrows(s)
    PROVE  IInv'
  <1>1. /\ s \in Tasks /\ file' = [file EXCEPT ![s] = None]
        /\ heap' = heap /\ left' = left + 1 /\ UNCHANGED <<row, now, stamped>>
        /\ stage' = [stage EXCEPT ![s] = "threw"] /\ seen' = [seen EXCEPT ![s] = None]
        /\ result' = [result EXCEPT ![s] = None]
    BY DEF GetterThrows, Tasks
  <1>2. now >= Half
    <2>1. file[s].low[x] \in Int /\ now \in Nat
      BY <1>1, Constants DEF IInv, TypeOK, Row, IsOpen
    <2> QED
      BY <1>1, <2>1, Constants DEF IInv, SignInv
  <1>3. \A z \in Staters : IF z = s THEN stage'[z] = "threw"
                           ELSE stage'[z] = stage[z] /\ seen'[z] = seen[z] /\ result'[z] = result[z]
    BY <1>1 DEF IInv, TypeOK, Tasks
  <1>4. TypeOK'
    BY <1>1, DropKeeps, Constants DEF IInv, TypeOK, Row
  <1>5. \A z \in Staters \ {s} : z \in Tasks \ {s} /\ file'[z] = file[z]
    BY <1>1, DropKeeps DEF Tasks
  <1>6. StatInv'
    <2> SUFFICES ASSUME NEW z \in Staters
                 PROVE  /\ stage'[z] \in {"opened", "ctime", "rest"} => IsOpen(z)' /\ seen'[z] = file'[z]
                        /\ stage'[z] = "ctime" => result'[z] = [ctime |-> seen'[z].low["ctime"]]
      BY DEF StatInv
    <2>1. CASE z = s
      BY <2>1, <1>3
    <2>2. CASE z # s
      BY <2>2, <1>3, <1>5 DEF IInv, StatInv, IsOpen
    <2> QED
      BY <2>1, <2>2
  <1>7. StatIsSnapshot'
    <2>1. \A z \in Staters : stage'[z] = "rest" => stage[z] = "rest" /\ seen'[z] = seen[z]
                                                     /\ result'[z] = result[z]
      BY <1>3
    <2>2. StatIsSnapshot
      BY DEF IInv
    <2>3. ASSUME NEW z \in Staters, stage'[z] = "rest"
          PROVE  LET r == seen'[z]
                 IN result'[z] = [ctime |-> r.low["ctime"], mtime |-> r.low["mtime"],
                                  atime |-> r.low["atime"], kind |-> r.kind,
                                  perm |-> r.perm, uid |-> r.uid]
      BY <2>1, <2>2, <2>3 DEF StatIsSnapshot
    <2>4. now' >= Half
      BY <1>1, <1>2
    <2> QED
      BY <2>3, <2>4 DEF StatIsSnapshot
  <1> QED
    BY <1>1, <1>4, <1>6, <1>7, DropKeeps DEF IInv

LEMMA StatGetsCtime == ASSUME IInv, NEW s \in Staters, StatCtime(s) PROVE IInv'
  <1>1. s \in Tasks /\ stage[s] = "opened" /\ IsOpen(s) /\ seen[s] = file[s]
    BY DEF StatCtime, IInv, StatInv, Tasks
  <1>2. CASE GetterThrows(s) /\ file[s].low["ctime"] < 0
    BY <1>1, <1>2, StatThrows DEF Times
  <1>3. CASE Got(s, "ctime", [ctime |-> file[s].low["ctime"]])
    <2>1. /\ stage' = [stage EXCEPT ![s] = "ctime"]
          /\ result' = [result EXCEPT ![s] = [ctime |-> file[s].low["ctime"]]]
          /\ UNCHANGED <<row, file, heap, now, stamped, seen, left>>
      BY <1>3 DEF Got
    <2>2. \A z \in Staters : IF z = s THEN stage'[z] = "ctime" /\ result'[z] = [ctime |-> file[s].low["ctime"]]
                             ELSE stage'[z] = stage[z] /\ result'[z] = result[z]
      BY <2>1 DEF IInv, TypeOK, Tasks
    <2>3. TypeOK'
      BY <2>1 DEF IInv, TypeOK
    <2>4. StatInv' /\ StatIsSnapshot'
      BY <1>1, <2>1, <2>2 DEF IInv, StatInv, StatIsSnapshot, IsOpen
    <2>5. TimeInv' /\ SignInv' /\ HeapAccounted'
      BY <2>1 DEF IInv, TimeInv, SignInv, HeapAccounted, IsOpen
    <2> QED
      BY <2>3, <2>4, <2>5 DEF IInv
  <1> QED
    BY <1>2, <1>3 DEF StatCtime, CopyOf

LEMMA StatGetsRest == ASSUME IInv, NEW s \in Staters, StatRest(s) PROVE IInv'
  <1> DEFINE c == file[s]
             all == [ctime |-> result[s].ctime, mtime |-> c.low["mtime"], atime |-> c.low["atime"],
                     kind |-> c.kind, perm |-> c.perm, uid |-> c.uid]
  <1>1. /\ s \in Tasks /\ stage[s] = "ctime" /\ IsOpen(s) /\ seen[s] = c
        /\ result[s].ctime = c.low["ctime"]
    <2>1. stage[s] = "ctime" /\ s \in Tasks
      BY DEF StatRest, Tasks
    <2>2. IsOpen(s) /\ seen[s] = c /\ result[s] = [ctime |-> seen[s].low["ctime"]]
      BY <2>1 DEF IInv, StatInv
    <2> QED
      BY <2>1, <2>2
  <1>2. CASE GetterThrows(s) /\ (c.low["mtime"] < 0 \/ c.low["atime"] < 0)
    BY <1>1, <1>2, StatThrows DEF Times
  <1>3. CASE Got(s, "rest", all)
    <2>1. /\ stage' = [stage EXCEPT ![s] = "rest"] /\ result' = [result EXCEPT ![s] = all]
          /\ UNCHANGED <<row, file, heap, now, stamped, seen, left>>
      BY <1>3 DEF Got
    <2>2. \A z \in Staters : IF z = s THEN stage'[z] = "rest" /\ result'[z] = all
                             ELSE stage'[z] = stage[z] /\ result'[z] = result[z]
      BY <2>1 DEF IInv, TypeOK, Tasks
    <2>3. TypeOK'
      BY <2>1 DEF IInv, TypeOK
    <2>4. StatInv' /\ StatIsSnapshot'
      BY <1>1, <2>1, <2>2 DEF IInv, StatInv, StatIsSnapshot, IsOpen
    <2>5. TimeInv' /\ SignInv' /\ HeapAccounted'
      BY <2>1 DEF IInv, TimeInv, SignInv, HeapAccounted, IsOpen
    <2> QED
      BY <2>3, <2>4, <2>5 DEF IInv
  <1> QED
    BY <1>2, <1>3 DEF StatRest, CopyOf

LEMMA StatCloses == ASSUME IInv, NEW s \in Staters, StatClose(s) PROVE IInv'
  <1>1. /\ s \in Tasks /\ IsOpen(s) /\ file' = [file EXCEPT ![s] = None]
        /\ heap' = [heap EXCEPT !.files = @ - 1] /\ UNCHANGED <<row, now, stamped, left>>
        /\ stage' = [stage EXCEPT ![s] = "idle"] /\ seen' = [seen EXCEPT ![s] = None]
        /\ result' = [result EXCEPT ![s] = None]
    BY DEF StatClose, FileClose, Tasks
  <1>2. TypeOK'
    BY <1>1, DropKeeps DEF IInv, TypeOK
  <1>3. \A z \in Staters : IF z = s THEN stage'[z] = "idle"
                           ELSE stage'[z] = stage[z] /\ seen'[z] = seen[z] /\ result'[z] = result[z]
    BY <1>1 DEF IInv, TypeOK, Tasks
  <1>4. StatInv' /\ StatIsSnapshot'
    BY <1>1, <1>3, DropKeeps DEF IInv, StatInv, StatIsSnapshot, IsOpen, Tasks
  <1> QED
    BY <1>1, <1>2, <1>4, DropKeeps DEF IInv

-----------------------------------------------------------------------------
(* Theorems *)

LEMMA Inductive == IInv /\ [Next]_vars => IInv'
  <1> SUFFICES ASSUME IInv, [Next]_vars PROVE IInv'
    OBVIOUS
  <1>1. CASE UNCHANGED vars
    BY <1>1 DEF vars, IInv, TypeOK, TimeInv, SignInv, StatInv, StatIsSnapshot, HeapAccounted, IsOpen
  <1>2. ASSUME NEW u \in Users, Open(u) PROVE IInv'
    BY <1>2, UserOpens
  <1>3. ASSUME NEW u \in Users, Close(u) PROVE IInv'
    BY <1>3, UserCloses
  <1>4. ASSUME NEW u \in Users, Read(u) PROVE IInv'
    BY <1>4, XtimeKeeps DEF Read
  <1>5. ASSUME NEW u \in Users, Write(u) PROVE IInv'
    BY <1>5, XtimeKeeps DEF Write
  <1>6. ASSUME NEW u \in Users, NEW p \in Perms, Chmod(u, p) PROVE IInv'
    <2> DEFINE new == [row EXCEPT !.perm = p]
    <2>1. new \in Row /\ new.low = row.low /\ new.extra = row.extra
      BY DEF IInv, TypeOK, Row
    <2> QED
      BY <1>6, <2>1, AttributeKeeps DEF Chmod, ReadInode
  <1>7. ASSUME NEW u \in Users, NEW id \in Ids, Chown(u, id) PROVE IInv'
    <2> DEFINE new == [row EXCEPT !.uid = id % IdMod]
    <2>1. id % IdMod \in 0 .. IdMod - 1
      BY Constants, ModRange
    <2>2. new \in Row /\ new.low = row.low /\ new.extra = row.extra
      BY <2>1 DEF IInv, TypeOK, Row
    <2> QED
      BY <1>7, <2>2, AttributeKeeps DEF Chown, ReadInode
  <1>8. ASSUME NEW s \in Staters, StatOpen(s) \/ StatCtime(s) \/ StatRest(s) \/ StatClose(s)
        PROVE  IInv'
    BY <1>8, StatOpens, StatGetsCtime, StatGetsRest, StatCloses
  <1>9. CASE UpdateCtime \/ UpdateMtime
    BY <1>9, FullKeeps DEF UpdateCtime, UpdateMtime
  <1>10. CASE Tick
    BY <1>10, TickKeeps
  <1>11. CASE OpenTruncFails \/ Readdir
    BY <1>11, LeftBehind DEF OpenTruncFails, Readdir
  <1>12. ASSUME NEW storage \in Storages, NEW isRead \in BOOLEAN, Readlink(storage, isRead)
         PROVE  IInv'
    BY <1>12, ReadlinkKeeps
  <1> QED
    BY <1>1, <1>2, <1>3, <1>4, <1>5, <1>6, <1>7, <1>8, <1>9, <1>10, <1>11, <1>12 DEF Next

LEMMA AlwaysIInv == Spec => []IInv
  BY Initially, Inductive, PTL DEF Spec

\* Every word of every inode fits its field, and the heap is never exceeded.
THEOREM TypeCorrect == Spec => []TypeOK
  BY AlwaysIInv, PTL DEF IInv

\* What a stat resolves to is the inode as it was at the open, however many
\* others chmod, write and touch the file while it awaits its getters.
THEOREM StatSeesOneInode == Spec => []StatIsSnapshot
  BY AlwaysIInv, PTL DEF IInv

\* No way out of a call leaves a file or a buffer but those that are counted.
THEOREM MemoryAccounted == Spec => []HeapAccounted
  BY AlwaysIInv, PTL DEF IInv

\* A kernel reads the time that the last call set, up to the end of the extra
\* word if that call set both words, and up to 2038 if it did not.
THEOREM TimesDecode == Spec => []TimesRight
  <1>1. IInv => TimesRight
    <2> SUFFICES ASSUME IInv, NEW x \in Times, (stamped[x].full /\ Large) \/ now < Half
                 PROVE  Decode(row.low[x], row.extra[x]) = stamped[x].at
      BY DEF TimesRight
    <2> DEFINE t == stamped[x].at
    <2>1. t \in Nat /\ t < (2 * EpochMask - 1) * Half /\ now \in Nat /\ t <= now
      BY InodesAssumption, Constants DEF IInv, TypeOK, TimeInv, InodesAssumption, EpochMask
    <2>2. row.low[x] = LowWord(t)
      BY DEF IInv, TimeInv
    <2>3. row.extra[x] = EncodeExtra(t)
      <3>1. CASE stamped[x].full /\ Large
        BY <3>1 DEF IInv, TimeInv
      <3>2. CASE now < Half
        BY <2>1, <3>2, EncodeExtraType, Constants DEF IInv, TimeInv
      <3> QED
        BY <3>1, <3>2
    <2> QED
      BY <2>1, <2>2, <2>3, EncodeDecode
  <1> QED
    BY <1>1, AlwaysIInv, PTL
=============================================================================
