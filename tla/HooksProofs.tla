---------------------------- MODULE HooksProofs ----------------------------
(***************************************************************************)
(* Proofs about the hooks of lib/util.js, for any number of operations.    *)
(*                                                                         *)
(* The heap of JavaScript is one record, whose queue and jobs are          *)
(* sequences: what they hold says how far each C call and each operation   *)
(* is, and the invariant has to relate the two.  It does so through two    *)
(* functions that the program does not keep: st gives the stage of every   *)
(* C call (malloc or free of a buffer, or the call of an operation), os    *)
(* the part of its body an operation has come to.  Rep says that js is     *)
(* such a world: the queue and the jobs hold each call and operation once, *)
(* where its stage or part says, and all the rest follows from st and os - *)
(* the memory of C, the pointers filed, and the state, counters and ids of *)
(* the operations.  The invariant is that some st and os exist.            *)
(*                                                                         *)
(* A job takes one call or one operation from its stage to the next.       *)
(* While the code of an operation runs, up to its next await, it is        *)
(* "here", and "half" between the two useBuffers of a usePaths: run() may  *)
(* enter the first malloc before the second is asked for.                  *)
(***************************************************************************)
EXTENDS Hooks, FiniteSetTheorems, TLAPS

\* No operation reads the current id after an await: all but rename, readdir
\* and readlink, whose second hook follows the await of the first and finds
\* whatever id is current then.
Alone == Kind \in [Ops -> {"fd", "buffer", "path", "bothPaths"}]

-----------------------------------------------------------------------------
(* Where each call of C and each operation is *)

M(o, k) == Item(o, "malloc", <<o, k>>)
F(o, k) == Item(o, "free", <<o, k>>)
C(o)    == Item(o, "call", <<>>)
Items == {M(o, k) : o \in Ops, k \in {1, 2}} \cup {F(o, k) : o \in Ops, k \in {1, 2}}
         \cup {C(o) : o \in Ops}

\* The continuations that carry a call, and those of an operation itself.
JobStages == {"run", "ccall", "buffer", "path", "element", "all"}
OwnJobs   == {"body", "finally", "cleanup"}
Stages == {"none", "queued", "inC", "over"} \cup JobStages
\* "here" is an operation whose own code runs, "half" one that has asked for
\* the first of two buffers: no operation is either of them between two jobs.
Parts  == {"idle", "mallocs", "call", "frees", "over"} \cup OwnJobs
AllParts == Parts \cup {"here", "half"}

Job(o, at, item) == [op |-> o, at |-> at, item |-> item]
Jobs == [op : Ops, at : JobStages \cup OwnJobs, item : Items \cup {NoItem}]

JobSet(st, os) ==
    {j \in Jobs : \/ j.item \in Items /\ j.item.op = j.op /\ j.at \in JobStages /\ j.at = st[j.item]
                  \/ j.item = NoItem /\ j.at \in OwnJobs /\ j.at = os[j.op]}

QueueSet(st) == {it \in Items : st[it] = "queued"}

World == [jobs : Seq(Jobs), queue : Seq(Items), active : Items \cup {NoItem}, inC : BOOLEAN,
          hookId : Ids \cup {NoId}, nextId : 0 .. Cardinality(Ops), freeIds : Seq(Ids),
          objIds : [Ids -> {<<>>, NoId}], memAddrs : [Ids -> Seq(Ops \X Nat) \cup {NoId}],
          heap : SUBSET (Ops \X {1, 2}), objects : {{}}, misuse : {{}},
          state : [Ops -> {"idle", "busy", "failing", "done", "failed"}],
          error : [Ops -> {"none", "errno"}], pc : [Ops -> 0 .. 3],
          id : [Ops -> Ids \cup {NoId}], oldId : [Ops -> Ids \cup {NoId}],
          used : [Ops -> Seq(Ids)], waiting : [Ops -> 0 .. 2]]

Once(s) == \A k, l \in 1 .. Len(s) : s[k] = s[l] => k = l

-----------------------------------------------------------------------------
(* Sequences without repetition *)

\* What ToSet says of a sequence.
LEMMA Elements ==
    ASSUME NEW S, NEW s \in Seq(S)
    PROVE  /\ Len(s) \in Nat /\ ToSet(s) \subseteq S
           /\ \A x : x \in ToSet(s) <=> \E k \in 1 .. Len(s) : s[k] = x
  BY DEF ToSet

\* A new element is added at the end.
LEMMA OnceAppend ==
    ASSUME NEW S, NEW s \in Seq(S), NEW x \in S, Once(s), x \notin ToSet(s)
    PROVE  Append(s, x) \in Seq(S) /\ Once(Append(s, x)) /\ ToSet(Append(s, x)) = ToSet(s) \cup {x}
  <1> DEFINE t == Append(s, x)
  <1>1. /\ t \in Seq(S) /\ Len(t) = Len(s) + 1 /\ t[Len(s) + 1] = x /\ Len(s) \in Nat
        /\ \A k \in 1 .. Len(s) : t[k] = s[k]
    OBVIOUS
  <1> HIDE DEF t
  <1>2. /\ \A y : y \in ToSet(s) <=> \E k \in 1 .. Len(s) : s[k] = y
        /\ \A y : y \in ToSet(t) <=> \E k \in 1 .. Len(t) : t[k] = y
    BY <1>1, Elements
  <1>3. ASSUME NEW k \in 1 .. Len(t), NEW l \in 1 .. Len(t), t[k] = t[l]
        PROVE  k = l
    BY <1>1, <1>2, <1>3 DEF Once
  <1>4. ToSet(t) = ToSet(s) \cup {x}
    BY <1>1, <1>2
  <1> QED
    BY <1>1, <1>3, <1>4 DEF Once, t

\* The first element is removed.
LEMMA OnceTail ==
    ASSUME NEW S, NEW s \in Seq(S), Once(s), s # <<>>
    PROVE  /\ Tail(s) \in Seq(S) /\ Once(Tail(s)) /\ Head(s) \in S /\ Head(s) \in ToSet(s)
           /\ ToSet(Tail(s)) = ToSet(s) \ {Head(s)}
  <1> DEFINE t == Tail(s)
  <1>1. /\ t \in Seq(S) /\ Len(t) = Len(s) - 1 /\ Head(s) = s[1] /\ Len(s) \in Nat \ {0}
        /\ \A k \in 1 .. Len(t) : t[k] = s[k + 1]
    OBVIOUS
  <1> HIDE DEF t
  <1>2. /\ \A x : x \in ToSet(s) <=> \E k \in 1 .. Len(s) : s[k] = x
        /\ \A x : x \in ToSet(t) <=> \E k \in 1 .. Len(t) : t[k] = x
    BY <1>1, Elements
  <1>3. Once(t)
    BY <1>1 DEF Once
  <1>4. s[1] \in S /\ s[1] \in ToSet(s)
    BY <1>1, <1>2
  <1>5. ASSUME NEW x \in ToSet(t) PROVE x \in ToSet(s) \ {s[1]}
    <2>1. PICK k \in 1 .. Len(t) : x = t[k]
      BY <1>2
    <2>2. k + 1 \in 1 .. Len(s) /\ x = s[k + 1] /\ 1 \in 1 .. Len(s) /\ k + 1 # 1
      BY <2>1, <1>1
    <2> QED
      BY <2>2, <1>2 DEF Once
  <1>6. ASSUME NEW x \in ToSet(s) \ {s[1]} PROVE x \in ToSet(t)
    <2>1. PICK k \in 1 .. Len(s) : x = s[k]
      BY <1>2
    <2>2. k - 1 \in 1 .. Len(t) /\ x = t[k - 1]
      BY <2>1, <1>1
    <2> QED
      BY <2>2, <1>2
  <1> QED
    BY <1>1, <1>3, <1>4, <1>5, <1>6 DEF t

\* Two sequences that share no element are joined.
LEMMA OnceConcat ==
    ASSUME NEW S, NEW s \in Seq(S), NEW t \in Seq(S), Once(s), Once(t), ToSet(s) \cap ToSet(t) = {}
    PROVE  s \o t \in Seq(S) /\ Once(s \o t) /\ ToSet(s \o t) = ToSet(s) \cup ToSet(t)
  <1> DEFINE u == s \o t
  <1>1. /\ u \in Seq(S) /\ Len(u) = Len(s) + Len(t) /\ Len(s) \in Nat /\ Len(t) \in Nat
        /\ \A k \in 1 .. Len(u) : u[k] = IF k <= Len(s) THEN s[k] ELSE t[k - Len(s)]
    OBVIOUS
  <1> HIDE DEF u
  <1>2. /\ \A x : x \in ToSet(s) <=> \E k \in 1 .. Len(s) : s[k] = x
        /\ \A x : x \in ToSet(t) <=> \E k \in 1 .. Len(t) : t[k] = x
        /\ \A x : x \in ToSet(u) <=> \E k \in 1 .. Len(u) : u[k] = x
    BY <1>1, Elements
  <1>3. ASSUME NEW k \in 1 .. Len(u), NEW l \in 1 .. Len(u), u[k] = u[l]
        PROVE  k = l
    <2>1. CASE k <= Len(s) /\ l <= Len(s)
      BY <2>1, <1>1, <1>3 DEF Once
    <2>2. CASE k > Len(s) /\ l > Len(s)
      <3>1. /\ k - Len(s) \in 1 .. Len(t) /\ l - Len(s) \in 1 .. Len(t)
            /\ t[k - Len(s)] = t[l - Len(s)]
        BY <2>2, <1>1, <1>3
      <3>2. k - Len(s) = l - Len(s)
        BY <3>1 DEF Once
      <3> QED
        BY <3>2, <1>1
    <2>3. CASE k <= Len(s) /\ l > Len(s)
      <3>1. k \in 1 .. Len(s) /\ l - Len(s) \in 1 .. Len(t) /\ s[k] = t[l - Len(s)]
        BY <2>3, <1>1, <1>3
      <3> QED
        BY <3>1, <1>2
    <2>4. CASE k > Len(s) /\ l <= Len(s)
      <3>1. l \in 1 .. Len(s) /\ k - Len(s) \in 1 .. Len(t) /\ s[l] = t[k - Len(s)]
        BY <2>4, <1>1, <1>3
      <3> QED
        BY <3>1, <1>2
    <2> QED
      BY <2>1, <2>2, <2>3, <2>4, <1>1
  <1>4. ASSUME NEW x \in ToSet(s) PROVE x \in ToSet(u)
    BY <1>1, <1>2
  <1>5. ASSUME NEW x \in ToSet(t) PROVE x \in ToSet(u)
    <2>1. PICK k \in 1 .. Len(t) : x = t[k]
      BY <1>2
    <2> DEFINE l == k + Len(s)
    <2>2. l \in 1 .. Len(u) /\ ~(l <= Len(s)) /\ l - Len(s) = k
      BY <1>1
    <2>3. u[l] = t[l - Len(s)]
      BY <2>2, <1>1
    <2>4. u[l] = x
      BY <2>1, <2>2, <2>3
    <2> QED
      BY <2>2, <2>4, <1>2
  <1>6. ASSUME NEW x \in ToSet(u) PROVE x \in ToSet(s) \cup ToSet(t)
    <2>1. PICK k \in 1 .. Len(u) : x = u[k]
      BY <1>2
    <2>2. CASE k <= Len(s)
      <3>1. k \in 1 .. Len(s) /\ x = s[k]
        BY <2>1, <2>2, <1>1
      <3> QED
        BY <3>1, <1>2
    <2>3. CASE k > Len(s)
      <3>1. k - Len(s) \in 1 .. Len(t) /\ x = t[k - Len(s)]
        BY <2>1, <2>3, <1>1
      <3> QED
        BY <3>1, <1>2
    <2> QED
      BY <2>2, <2>3, <1>1
  <1> QED
    BY <1>1, <1>3, <1>4, <1>5, <1>6 DEF Once, u

\* A sequence without repetition of n things, n at most 2, has length n.
FirstOf(o, n) == {<<o, k>> : k \in 1 .. n}

LEMMA OnceLength ==
    ASSUME NEW S, NEW s \in Seq(S), Once(s), NEW n \in 0 .. 2, NEW o, ToSet(s) = FirstOf(o, n)
    PROVE  Len(s) = n
  <1>1. ToSet(s) = {s[k] : k \in 1 .. Len(s)} /\ Len(s) \in Nat /\ ToSet(s) = {<<o, k>> : k \in 1 .. n}
    BY DEF ToSet, FirstOf
  <1>2. Len(s) <= n
    <2> SUFFICES ASSUME Len(s) > n PROVE FALSE
      BY <1>1
    <2>1. \A k \in 1 .. Len(s) : \E l \in 1 .. n : s[k] = <<o, l>>
      BY <1>1
    <2>2. CASE n = 0
      BY <2>1, <2>2, <1>1
    <2>3. CASE n = 1
      <3>1. s[1] = <<o, 1>> /\ s[2] = <<o, 1>>
        BY <2>1, <2>3, <1>1
      <3> QED
        BY <3>1, <2>3, <1>1 DEF Once
    <2>4. CASE n = 2
      <3>1. \A k \in 1 .. 3 : s[k] = <<o, 1>> \/ s[k] = <<o, 2>>
        BY <2>1, <2>4, <1>1
      <3>2. s[1] # s[2] /\ s[1] # s[3] /\ s[2] # s[3]
        BY <2>4, <1>1 DEF Once
      <3> QED
        BY <3>1, <3>2
    <2> QED
      BY <2>2, <2>3, <2>4
  <1>3. Len(s) >= n
    <2> SUFFICES ASSUME Len(s) < n PROVE FALSE
      BY <1>1
    <2>1. \A l \in 1 .. n : \E k \in 1 .. Len(s) : s[k] = <<o, l>>
      BY <1>1
    <2>2. CASE n = 1
      BY <2>1, <2>2, <1>1
    <2>3. CASE n = 2
      <3>1. s[1] = <<o, 1>> /\ s[1] = <<o, 2>>
        BY <2>1, <2>3, <1>1
      <3> QED
        BY <3>1
    <2> QED
      BY <2>2, <2>3, <1>1
  <1> QED
    BY <1>1, <1>2, <1>3

-----------------------------------------------------------------------------
(* The invariant *)

MallocsAre(st, o, S) == \A k \in {1, 2} : st[M(o, k)] \in IF k <= Buffers(o) THEN S ELSE {"none"}
FreesAre(st, o, S)   == \A k \in {1, 2} : st[F(o, k)] \in IF k <= Buffers(o) THEN S ELSE {"none"}
CallIs(st, o, S)     == st[C(o)] \in S

\* useBuffer read the right id, each of n times.
Used(w, o, n) == Len(w.used[o]) = n /\ \A k \in 1 .. n : w.used[o][k] = w.id[o]

MallocStages(o) == {"queued", "run", "ccall", "buffer"} \cup
                   CASE Kind[o] = "path" -> {"path"}
                     [] Kind[o] = "bothPaths" -> {"path", "element", "over"}
                     [] OTHER -> {}
CallPc(o) == IF Buffers(o) = 0 THEN 1 ELSE 2
Left(stage) == IF stage \in {"none", "over"} THEN 0 ELSE 1
MallocsLeft(st, o) == Left(st[M(o, 1)]) + Left(st[M(o, 2)])
FreesLeft(st, o)   == Left(st[F(o, 1)]) + Left(st[F(o, 2)])

\* What holds of an operation that has come to this part.
Idle(w, st, o) ==
    /\ MallocsAre(st, o, {"none"}) /\ CallIs(st, o, {"none"}) /\ FreesAre(st, o, {"none"})
    /\ w.state[o] = "idle" /\ w.pc[o] = 0 /\ w.waiting[o] = 0 /\ w.used[o] = <<>>

Mallocing(w, st, o) ==
    /\ MallocsAre(st, o, MallocStages(o)) /\ CallIs(st, o, {"none"}) /\ FreesAre(st, o, {"none"})
    /\ w.state[o] = "busy" /\ w.pc[o] = 1 /\ Buffers(o) > 0 /\ Used(w, o, Buffers(o))
    /\ w.waiting[o] = IF Kind[o] = "bothPaths" THEN MallocsLeft(st, o) ELSE 0
    /\ MallocsLeft(st, o) > 0

Halfway(w, st, o) ==
    /\ st[M(o, 1)] \in {"queued", "run"} /\ st[M(o, 2)] = "none"
    /\ CallIs(st, o, {"none"}) /\ FreesAre(st, o, {"none"})
    /\ w.state[o] = "busy" /\ w.pc[o] = 1 /\ Kind[o] = "bothPaths" /\ Used(w, o, 1)
    /\ w.waiting[o] = 2

Calling(w, st, o) ==
    /\ MallocsAre(st, o, {"over"}) /\ FreesAre(st, o, {"none"})
    /\ CallIs(st, o, {"queued", "inC", "run", "ccall"})
    /\ w.state[o] = "busy" /\ w.pc[o] = CallPc(o) /\ w.waiting[o] = 0 /\ Used(w, o, Buffers(o))

BeforeCall(w, st, o) ==
    /\ MallocsAre(st, o, {"over"}) /\ CallIs(st, o, {"none"}) /\ FreesAre(st, o, {"none"})
    /\ w.state[o] = "busy" /\ w.pc[o] = 1 /\ Buffers(o) > 0 /\ w.waiting[o] = 0
    /\ Used(w, o, Buffers(o))

AfterCall(w, st, o) ==
    /\ MallocsAre(st, o, {"over"}) /\ CallIs(st, o, {"over"}) /\ FreesAre(st, o, {"none"})
    /\ w.state[o] \in {"busy", "failing"} /\ w.pc[o] = CallPc(o) /\ w.waiting[o] = 0
    /\ Used(w, o, Buffers(o))

Starting(w, st, o) ==
    /\ MallocsAre(st, o, {"none"}) /\ CallIs(st, o, {"none"}) /\ FreesAre(st, o, {"none"})
    /\ w.state[o] = "busy" /\ w.pc[o] = 0 /\ w.waiting[o] = 0 /\ w.used[o] = <<>>

Ending(w, st, o) ==
    /\ MallocsAre(st, o, {"over"}) /\ CallIs(st, o, {"over"}) /\ FreesAre(st, o, {"none"})
    /\ w.state[o] \in {"busy", "failing"} /\ w.waiting[o] = 0 /\ Used(w, o, Buffers(o))

Freeing(w, st, o) ==
    /\ MallocsAre(st, o, {"over"}) /\ CallIs(st, o, {"over"})
    /\ FreesAre(st, o, {"queued", "run", "ccall", "all", "over"})
    /\ w.state[o] \in {"busy", "failing"} /\ Used(w, o, Buffers(o))
    /\ w.waiting[o] = FreesLeft(st, o) /\ FreesLeft(st, o) > 0

Freed(w, st, o) ==
    /\ MallocsAre(st, o, {"over"}) /\ CallIs(st, o, {"over"}) /\ FreesAre(st, o, {"over"})
    /\ w.waiting[o] = 0 /\ Used(w, o, Buffers(o))

PartInv(w, st, part, o) ==
    /\ part = "idle"    => Idle(w, st, o)
    /\ part = "here"    => \/ Starting(w, st, o) \/ BeforeCall(w, st, o) \/ AfterCall(w, st, o)
                           \/ Ending(w, st, o) \/ Freed(w, st, o)
    /\ part = "half"    => Halfway(w, st, o)
    /\ part = "mallocs" => Mallocing(w, st, o)
    /\ part = "body"    => BeforeCall(w, st, o) \/ AfterCall(w, st, o)
    /\ part = "call"    => Calling(w, st, o)
    /\ part = "finally" => Ending(w, st, o)
    /\ part = "frees"   => Freeing(w, st, o)
    /\ part = "cleanup" => Freed(w, st, o) /\ w.state[o] \in {"busy", "failing"}
    /\ part = "over"    => Freed(w, st, o) /\ w.state[o] \in {"done", "failed"}

Busy(os, o) == os[o] \notin {"idle", "over"}

\* The queue and the jobs hold each call and each operation once, where its stage says.
QueueInv(w, st)    == Once(w.queue) /\ ToSet(w.queue) = QueueSet(st)
JobsInv(w, st, os) == Once(w.jobs) /\ ToSet(w.jobs) = JobSet(st, os)
ActiveInv(w, st) ==
    /\ \A it \in Items : w.active = it <=> st[it] \in {"inC", "run"}
    /\ w.inC <=> \E it \in Items : st[it] = "inC"

\* C has the memory of a malloc from its run to that of the free.
HeapInv(w, st) ==
    \A o \in Ops, k \in {1, 2} :
        <<o, k>> \in w.heap <=> /\ st[M(o, k)] \notin {"none", "queued"}
                                /\ st[F(o, k)] \in {"none", "queued"}

\* Under the id of an operation are its own pointers, each once, from the
\* continuation of useBuffer on.
Filed(st, o) == {<<o, k>> : k \in {l \in {1, 2} : st[M(o, l)] \in {"path", "element", "over"}}}
MemInv(w, st, os) ==
    \A o \in Ops : Busy(os, o) =>
        /\ w.id[o] \in Ids /\ w.memAddrs[w.id[o]] # NoId /\ w.objIds[w.id[o]] = <<>>
        /\ Once(w.memAddrs[w.id[o]]) /\ ToSet(w.memAddrs[w.id[o]]) = Filed(st, o)

\* The ids given out are those of the operations in progress and the free
\* ones, each once; the Maps have the former.
IdInv(w, os) ==
    /\ \A o \in Ops : Busy(os, o) => w.id[o] \in 0 .. w.nextId - 1
    /\ \A o, p \in Ops : Busy(os, o) /\ Busy(os, p) /\ w.id[o] = w.id[p] => o = p
    /\ Once(w.freeIds) /\ ToSet(w.freeIds) \subseteq 0 .. w.nextId - 1
    /\ \A o \in Ops : Busy(os, o) => w.id[o] \notin ToSet(w.freeIds)
    /\ \A i \in 0 .. w.nextId - 1 : i \in ToSet(w.freeIds) \/ \E o \in Ops : Busy(os, o) /\ w.id[o] = i
    /\ \A i \in Ids : w.memAddrs[i] # NoId \/ w.objIds[i] # NoId =>
                          \E o \in Ops : Busy(os, o) /\ w.id[o] = i

Core(w, st, os) ==
    (\A o \in Ops : PartInv(w, st, os[o], o)) /\ MemInv(w, st, os) /\ IdInv(w, os)
Loose(w, st, os) ==
    w \in World /\ QueueInv(w, st) /\ JobsInv(w, st, os) /\ HeapInv(w, st) /\ Core(w, st, os)
Rep(w, st, os) == Loose(w, st, os) /\ ActiveInv(w, st)

Good(w) == \E st \in [Items -> Stages], os \in [Ops -> Parts] : Rep(w, st, os)
Inv == Good(js)

-----------------------------------------------------------------------------
(* Calls of C and jobs *)

\* The calls of C differ, and each is of one of three kinds.
LEMMA ItemFacts ==
    /\ \A o \in Ops, k \in {1, 2} :
          /\ M(o, k) \in Items /\ M(o, k).op = o /\ M(o, k).what = "malloc" /\ M(o, k).ptr = <<o, k>>
          /\ F(o, k) \in Items /\ F(o, k).op = o /\ F(o, k).what = "free" /\ F(o, k).ptr = <<o, k>>
    /\ \A o \in Ops : C(o) \in Items /\ C(o).op = o /\ C(o).what = "call"
    /\ \A it \in Items : /\ it.op \in Ops /\ it # NoItem
                         /\ \/ \E k \in {1, 2} : it = M(it.op, k) \/ it = F(it.op, k)
                            \/ it = C(it.op)
    /\ \A o, p \in Ops, k, l \in {1, 2} : /\ M(o, k) = M(p, l) => o = p /\ k = l
                                          /\ F(o, k) = F(p, l) => o = p /\ k = l
                                          /\ M(o, k) # F(p, l) /\ M(o, k) # C(p) /\ F(o, k) # C(p)
    /\ \A o, p \in Ops : C(o) = C(p) => o = p
  <1>1. \A it \in Items : /\ it.op \in Ops /\ it.what # "none"
                          /\ \/ \E k \in {1, 2} : it = M(it.op, k) \/ it = F(it.op, k)
                             \/ it = C(it.op)
    BY DEF Items, M, F, C, Item
  <1>2. \A o \in Ops, k \in {1, 2} :
          /\ M(o, k) \in Items /\ M(o, k).op = o /\ M(o, k).what = "malloc" /\ M(o, k).ptr = <<o, k>>
          /\ F(o, k) \in Items /\ F(o, k).op = o /\ F(o, k).what = "free" /\ F(o, k).ptr = <<o, k>>
    BY DEF Items, M, F, Item
  <1>3. \A o \in Ops : C(o) \in Items /\ C(o).op = o /\ C(o).what = "call"
    BY DEF Items, C, Item
  <1>4. NoItem.what = "none"
    BY DEF NoItem
  <1>5. \A o, p \in Ops, k, l \in {1, 2} : /\ M(o, k) = M(p, l) => o = p /\ k = l
                                           /\ F(o, k) = F(p, l) => o = p /\ k = l
    BY <1>2
  <1>6. \A o, p \in Ops, k, l \in {1, 2} : M(o, k) # F(p, l) /\ M(o, k) # C(p) /\ F(o, k) # C(p)
    BY <1>2, <1>3
  <1> QED
    BY <1>1, <1>2, <1>3, <1>4, <1>5, <1>6

\* The kinds of one call, by what it asks of C.
LEMMA ItemKinds ==
    ASSUME NEW it \in Items, NEW o, it.op = o
    PROVE  /\ o \in Ops
           /\ (\E k \in {1, 2} : it = M(o, k) \/ it = F(o, k)) \/ it = C(o)
           /\ \/ it.what = "malloc" /\ \E k \in {1, 2} : it = M(o, k)
              \/ it.what = "free" /\ \E k \in {1, 2} : it = F(o, k)
              \/ it.what = "call" /\ it = C(o)
  <1>1. o \in Ops /\ ((\E k \in {1, 2} : it = M(o, k) \/ it = F(o, k)) \/ it = C(o))
    BY ItemFacts
  <1>2. C(o).what = "call" /\ \A k \in {1, 2} : M(o, k).what = "malloc" /\ F(o, k).what = "free"
    BY <1>1, ItemFacts
  <1> QED
    BY <1>1, <1>2

\* A job is its three fields.
LEMMA JobsEqual ==
    ASSUME NEW i \in Jobs, NEW j \in Jobs, i.op = j.op, i.at = j.at, i.item = j.item
    PROVE  i = j
  BY DEF Jobs

LEMMA JobFacts ==
    ASSUME NEW o \in Ops, NEW at \in JobStages \cup OwnJobs, NEW item \in Items \cup {NoItem}
    PROVE  Job(o, at, item) \in Jobs /\ Job(o, at, item).op = o /\ Job(o, at, item).at = at
           /\ Job(o, at, item).item = item
  BY DEF Job, Jobs

\* A call comes to another stage.
ItemMoved(st2, st, os, it, at) ==
    /\ at \in JobStages => /\ Job(it.op, at, it) \in Jobs \ JobSet(st, os)
                           /\ JobSet(st2, os) = (JobSet(st, os) \ {Job(it.op, st[it], it)})
                                                    \cup {Job(it.op, at, it)}
    /\ at \notin JobStages => JobSet(st2, os) = JobSet(st, os) \ {Job(it.op, st[it], it)}
    /\ at # "queued" => QueueSet(st2) = QueueSet(st) \ {it}
    /\ at = "queued" => QueueSet(st2) = QueueSet(st) \cup {it}

LEMMA ItemMoves ==
    ASSUME NEW st \in [Items -> Stages], NEW os \in [Ops -> AllParts], NEW it \in Items, NEW at \in Stages,
           st[it] # at
    PROVE  ItemMoved([st EXCEPT ![it] = at], st, os, it, at)
  <1> DEFINE st2 == [st EXCEPT ![it] = at]
             old == Job(it.op, st[it], it)
             new == Job(it.op, at, it)
  <1>1. it.op \in Ops /\ it # NoItem
    BY ItemFacts
  <1>2. st2 \in [Items -> Stages] /\ st2[it] = at /\ \A i \in Items \ {it} : st2[i] = st[i]
    OBVIOUS
  <1>3. /\ old.op = it.op /\ old.at = st[it] /\ old.item = it
        /\ new.op = it.op /\ new.at = at /\ new.item = it
    BY DEF Job
  <1>4. at \in JobStages => new \in Jobs
    BY <1>1, JobFacts
  <1>5. st[it] \in JobStages => old \in Jobs
    BY <1>1, JobFacts
  <1> HIDE DEF st2, old, new
  <1>6. ASSUME NEW j \in Jobs, j # old, j # new
        PROVE  j \in JobSet(st2, os) <=> j \in JobSet(st, os)
    <2>1. CASE j.item = it
      <3>1. ~(j.item = it /\ j.op = it.op /\ j.at = st[it] /\ j.at \in JobStages)
        BY <1>3, <1>5, <1>6, JobsEqual
      <3>2. ~(j.item = it /\ j.op = it.op /\ j.at = at /\ j.at \in JobStages)
        BY <1>3, <1>4, <1>6, JobsEqual
      <3> QED
        BY <2>1, <3>1, <3>2, <1>1, <1>2 DEF JobSet
    <2>2. CASE j.item # it
      BY <2>2, <1>2 DEF JobSet
    <2> QED
      BY <2>1, <2>2
  <1>7. old \notin JobSet(st2, os) /\ new \notin JobSet(st, os)
    BY <1>1, <1>2, <1>3 DEF JobSet
  <1>8. at \in JobStages => new \in JobSet(st2, os)
    BY <1>1, <1>2, <1>3, <1>4 DEF JobSet
  <1>9. at \notin JobStages => new \notin JobSet(st2, os)
    BY <1>1, <1>2, <1>3 DEF JobSet
  <1>10. JobSet(st, os) \subseteq Jobs /\ JobSet(st2, os) \subseteq Jobs
    BY DEF JobSet
  <1>11. /\ at # "queued" => QueueSet(st2) = QueueSet(st) \ {it}
         /\ at = "queued" => QueueSet(st2) = QueueSet(st) \cup {it}
    BY <1>2 DEF QueueSet
  <1> QED
    BY <1>2, <1>4, <1>6, <1>7, <1>8, <1>9, <1>10, <1>11 DEF st2, old, new, ItemMoved

\* An operation comes to another part.
OpMoved(os2, st, os, o, part) ==
    /\ part \in OwnJobs => /\ Job(o, part, NoItem) \in Jobs \ JobSet(st, os)
                           /\ JobSet(st, os2) = (JobSet(st, os) \ {Job(o, os[o], NoItem)})
                                                    \cup {Job(o, part, NoItem)}
    /\ part \notin OwnJobs => JobSet(st, os2) = JobSet(st, os) \ {Job(o, os[o], NoItem)}

LEMMA OpMoves ==
    ASSUME NEW st \in [Items -> Stages], NEW os \in [Ops -> AllParts], NEW o \in Ops, NEW part \in AllParts,
           os[o] # part
    PROVE  OpMoved([os EXCEPT ![o] = part], st, os, o, part)
  <1> DEFINE os2 == [os EXCEPT ![o] = part]
             old == Job(o, os[o], NoItem)
             new == Job(o, part, NoItem)
  <1>1. NoItem \notin Items
    BY ItemFacts
  <1>2. os2 \in [Ops -> AllParts] /\ os2[o] = part /\ \A p \in Ops \ {o} : os2[p] = os[p]
    OBVIOUS
  <1>3. /\ old.op = o /\ old.at = os[o] /\ old.item = NoItem
        /\ new.op = o /\ new.at = part /\ new.item = NoItem
    BY DEF Job
  <1>4. part \in OwnJobs => new \in Jobs
    BY <1>1, JobFacts
  <1>5. os[o] \in OwnJobs => old \in Jobs
    BY <1>1, JobFacts
  <1> HIDE DEF os2, old, new
  <1>6. ASSUME NEW j \in Jobs, j # old, j # new
        PROVE  j \in JobSet(st, os2) <=> j \in JobSet(st, os)
    <2>1. CASE j.item = NoItem /\ j.op = o
      <3>1. ~(j.at = os[o] /\ j.at \in OwnJobs)
        BY <2>1, <1>3, <1>5, <1>6, JobsEqual
      <3>2. ~(j.at = part /\ j.at \in OwnJobs)
        BY <2>1, <1>3, <1>4, <1>6, JobsEqual
      <3> QED
        BY <2>1, <3>1, <3>2, <1>1, <1>2 DEF JobSet
    <2>2. CASE j.item # NoItem
      BY <2>2, <1>2 DEF JobSet
    <2>3. CASE j.op # o
      <3>1. j.op \in Ops
        BY DEF Jobs
      <3> QED
        BY <2>3, <3>1, <1>2 DEF JobSet
    <2> QED
      BY <2>1, <2>2, <2>3
  <1>7. old \notin JobSet(st, os2) /\ new \notin JobSet(st, os)
    BY <1>1, <1>2, <1>3 DEF JobSet
  <1>8. part \in OwnJobs => new \in JobSet(st, os2)
    BY <1>1, <1>2, <1>3, <1>4 DEF JobSet
  <1>9. part \notin OwnJobs => new \notin JobSet(st, os2)
    BY <1>1, <1>2, <1>3 DEF JobSet
  <1>10. JobSet(st, os) \subseteq Jobs /\ JobSet(st, os2) \subseteq Jobs
    BY DEF JobSet
  <1> QED
    BY <1>2, <1>4, <1>6, <1>7, <1>8, <1>9, <1>10 DEF os2, old, new, OpMoved

-----------------------------------------------------------------------------
(* What a step leaves alone *)

SameQueue(v, w) == v.queue = w.queue /\ v.active = w.active /\ v.inC = w.inC
SameC(v, w)     == v.heap = w.heap /\ v.objects = w.objects /\ v.misuse = w.misuse
SameIds(v, w)   == /\ v.hookId = w.hookId /\ v.nextId = w.nextId /\ v.freeIds = w.freeIds
                   /\ v.objIds = w.objIds /\ v.memAddrs = w.memAddrs
                   /\ v.id = w.id /\ v.oldId = w.oldId
SameOp(v, w, o) == /\ v.state[o] = w.state[o] /\ v.pc[o] = w.pc[o] /\ v.used[o] = w.used[o]
                   /\ v.waiting[o] = w.waiting[o] /\ v.id[o] = w.id[o]
SameOps(v, w)   == /\ v.state = w.state /\ v.pc = w.pc /\ v.used = w.used
                   /\ v.waiting = w.waiting /\ v.error = w.error
SameCalls(st2, st, o) == /\ \A k \in {1, 2} : st2[M(o, k)] = st[M(o, k)] /\ st2[F(o, k)] = st[F(o, k)]
                         /\ st2[C(o)] = st[C(o)]

Pushed(v, w, job) ==
    /\ v \in World /\ v.jobs = Append(w.jobs, job)
    /\ SameQueue(v, w) /\ SameC(v, w) /\ SameIds(v, w) /\ SameOps(v, w)

\* Push changes the jobs alone.
LEMMA PushIs ==
    ASSUME NEW w \in World, NEW o \in Ops, NEW at \in JobStages \cup OwnJobs, NEW item \in Items \cup {NoItem}
    PROVE  Pushed(Push(w, o, at, item), w, Job(o, at, item))
  <1>1. Job(o, at, item) \in Jobs /\ w.jobs \in Seq(Jobs)
    BY JobFacts DEF World
  <1>2. Append(w.jobs, Job(o, at, item)) \in Seq(Jobs)
    BY <1>1
  <1> QED
    BY <1>1, <1>2 DEF Push, Pushed, World, Job, SameQueue, SameC, SameIds, SameOps

\* v is w once the C call of o has failed.
Thrown(v, w, o) ==
    /\ v \in World /\ v.jobs = w.jobs /\ SameQueue(v, w) /\ SameC(v, w) /\ SameIds(v, w)
    /\ v.pc = w.pc /\ v.used = w.used /\ v.waiting = w.waiting
    /\ v.state[o] = "failing" /\ \A p \in Ops \ {o} : v.state[p] = w.state[p]

LEMMA ThrowIs ==
    ASSUME NEW w \in World, NEW o \in Ops
    PROVE  Thrown(Throw(w, o, "errno"), w, o)
  <1> DEFINE v == [w EXCEPT !.state = [@ EXCEPT ![o] = "failing"], !.error = [@ EXCEPT ![o] = "errno"]]
  <1>1. Throw(w, o, "errno") = v
    BY DEF Throw, World
  <1>2. /\ [w.state EXCEPT ![o] = "failing"] \in [Ops -> {"idle", "busy", "failing", "done", "failed"}]
        /\ [w.error EXCEPT ![o] = "errno"] \in [Ops -> {"none", "errno"}]
    BY DEF World
  <1>3. v \in World
    BY <1>2, ZenonT(60) DEF World
  <1>4. v.jobs = w.jobs /\ SameQueue(v, w) /\ SameC(v, w) /\ SameIds(v, w)
        /\ v.pc = w.pc /\ v.used = w.used /\ v.waiting = w.waiting
        /\ v.state = [w.state EXCEPT ![o] = "failing"]
    BY DEF World, SameQueue, SameC, SameIds
  <1>5. w.state \in [Ops -> {"idle", "busy", "failing", "done", "failed"}]
    BY DEF World
  <1> HIDE DEF v
  <1>6. v.state[o] = "failing" /\ \A p \in Ops \ {o} : v.state[p] = w.state[p]
    BY <1>4, <1>5
  <1> QED
    BY <1>1, <1>3, <1>4, <1>6 DEF Thrown

\* What holds of an operation depends on its own fields and calls.
LEMMA PartFrame ==
    ASSUME NEW v, NEW w, NEW st, NEW st2, NEW part, NEW o \in Ops,
           SameOp(v, w, o), SameCalls(st2, st, o), PartInv(w, st, part, o)
    PROVE  PartInv(v, st2, part, o)
  <1>1. /\ \A S : MallocsAre(st2, o, S) <=> MallocsAre(st, o, S)
        /\ \A S : FreesAre(st2, o, S) <=> FreesAre(st, o, S)
        /\ \A S : CallIs(st2, o, S) <=> CallIs(st, o, S)
    BY DEF SameCalls, MallocsAre, FreesAre, CallIs
  <1>2. MallocsLeft(st2, o) = MallocsLeft(st, o) /\ FreesLeft(st2, o) = FreesLeft(st, o)
    BY DEF SameCalls, MallocsLeft, FreesLeft
  <1>3. \A n : Used(v, o, n) <=> Used(w, o, n)
    BY DEF SameOp, Used
  <1>4. Idle(w, st, o) => Idle(v, st2, o)
    BY <1>1 DEF Idle, SameOp
  <1>5. Mallocing(w, st, o) => Mallocing(v, st2, o)
    BY <1>1, <1>2, <1>3 DEF Mallocing, SameOp
  <1>6. Halfway(w, st, o) => Halfway(v, st2, o)
    BY <1>1, <1>3 DEF Halfway, SameOp, SameCalls
  <1>7. Calling(w, st, o) => Calling(v, st2, o)
    BY <1>1, <1>3 DEF Calling, SameOp
  <1>8. BeforeCall(w, st, o) => BeforeCall(v, st2, o)
    BY <1>1, <1>3 DEF BeforeCall, SameOp
  <1>9. AfterCall(w, st, o) => AfterCall(v, st2, o)
    BY <1>1, <1>3 DEF AfterCall, SameOp
  <1>10. Starting(w, st, o) => Starting(v, st2, o)
    BY <1>1 DEF Starting, SameOp
  <1>11. Ending(w, st, o) => Ending(v, st2, o)
    BY <1>1, <1>3 DEF Ending, SameOp
  <1>12. Freeing(w, st, o) => Freeing(v, st2, o)
    BY <1>1, <1>2, <1>3 DEF Freeing, SameOp
  <1>13. Freed(w, st, o) => Freed(v, st2, o)
    BY <1>1, <1>3 DEF Freed, SameOp
  <1> QED
    BY <1>4, <1>5, <1>6, <1>7, <1>8, <1>9, <1>10, <1>11, <1>12, <1>13 DEF PartInv, SameOp

\* Only the operation o, and its calls, go on.
OnlyOf(v, w, st2, st, os2, os, o) ==
    /\ \A it \in Items : it.op # o => st2[it] = st[it]
    /\ \A p \in Ops \ {o} : os2[p] = os[p] /\ SameOp(v, w, p)

LEMMA OthersSame ==
    ASSUME NEW v, NEW w, NEW st, NEW st2, NEW os, NEW os2, NEW o \in Ops, NEW p \in Ops \ {o},
           OnlyOf(v, w, st2, st, os2, os, o), PartInv(w, st, os[p], p)
    PROVE  PartInv(v, st2, os2[p], p) /\ Filed(st2, p) = Filed(st, p)
  <1>1. SameCalls(st2, st, p)
    BY ItemFacts DEF SameCalls, OnlyOf
  <1>2. os2[p] = os[p] /\ SameOp(v, w, p)
    BY DEF OnlyOf
  <1>3. PartInv(v, st2, os2[p], p)
    BY <1>1, <1>2, PartFrame
  <1> QED
    BY <1>1, <1>3 DEF SameCalls, Filed

LEMMA OneMoves ==
    ASSUME NEW w, NEW v, NEW st, NEW st2, NEW os, NEW os2, NEW o \in Ops,
           Core(w, st, os), OnlyOf(v, w, st2, st, os2, os, o), SameIds(v, w),
           Busy(os, o), Busy(os2, o), Filed(st2, o) = Filed(st, o), PartInv(v, st2, os2[o], o)
    PROVE  Core(v, st2, os2)
  <1>1. \A p \in Ops : PartInv(v, st2, os2[p], p) /\ Filed(st2, p) = Filed(st, p)
    BY OthersSame DEF Core
  <1>2. \A p \in Ops : Busy(os2, p) <=> Busy(os, p)
    BY DEF Busy, OnlyOf
  <1>3. MemInv(v, st2, os2)
    BY <1>1, <1>2 DEF Core, MemInv, SameIds
  <1>4. IdInv(v, os2)
    BY <1>2 DEF Core, IdInv, SameIds
  <1> QED
    BY <1>1, <1>3, <1>4 DEF Core

\* The kinds that Alone leaves, and their buffers.
LEMMA KindFacts ==
    ASSUME Alone, NEW o \in Ops
    PROVE  /\ Kind[o] \in {"fd", "buffer", "path", "bothPaths"} /\ Buffers(o) \in 0 .. 2
           /\ Kind[o] = "fd" <=> Buffers(o) = 0
           /\ Kind[o] \in {"buffer", "path"} <=> Buffers(o) = 1
           /\ Kind[o] = "bothPaths" <=> Buffers(o) = 2
           /\ Pointers(o) = {<<o, k>> : k \in 1 .. Buffers(o)}
  <1>1. Kind[o] \in {"fd", "buffer", "path", "bothPaths"}
    BY DEF Alone
  <1> QED
    BY <1>1 DEF Buffers, Pointers

-----------------------------------------------------------------------------
(* The queue *)

\* v is w once the call is entered.
Entered(v, w, it) ==
    /\ v \in World /\ v.queue = w.queue /\ v.active = it
    /\ v.misuse = w.misuse /\ v.objects = w.objects /\ SameIds(v, w) /\ SameOps(v, w)
    /\ v.heap = HeapAfter(w, it)
    /\ it.what = "call" => v.inC /\ v.jobs = w.jobs
    /\ it.what # "call" => v.inC = w.inC /\ v.jobs = Append(w.jobs, Job(it.op, "run", it))

LEMMA EnterIs ==
    ASSUME Alone, NEW w \in World, NEW it \in Items,
           it.what = "free" => it.ptr \in w.heap, it.what = "call" => Pointers(it.op) \subseteq w.heap
    PROVE  Entered(Enter(w, it), w, it)
  <1> DEFINE u == [w EXCEPT !.active = it, !.heap = HeapAfter(w, it), !.misuse = @ \cup MisuseBy(w, it)]
  <1>1. /\ it.op \in Ops /\ it.what \in {"malloc", "free", "call"}
        /\ it.what # "call" => it.ptr \in Ops \X {1, 2}
    <2>1. it.op \in Ops /\ ((\E k \in {1, 2} : it = M(it.op, k) \/ it = F(it.op, k)) \/ it = C(it.op))
      BY ItemFacts
    <2>2. CASE \E k \in {1, 2} : it = M(it.op, k) \/ it = F(it.op, k)
      <3>1. PICK k \in {1, 2} : it = M(it.op, k) \/ it = F(it.op, k)
        BY <2>2
      <3>2. it.ptr = <<it.op, k>> /\ it.what \in {"malloc", "free"}
        BY <2>1, <3>1, ItemFacts
      <3> QED
        BY <2>1, <3>2
    <2>3. CASE it = C(it.op)
      <3>1. it.what = "call"
        BY <2>1, <2>3, ItemFacts
      <3> QED
        BY <2>1, <3>1
    <2> QED
      BY <2>1, <2>2, <2>3
  <1>2. Kind[it.op] # "pathArray"
    BY <1>1, KindFacts
  <1>3. w.misuse \cup MisuseBy(w, it) = w.misuse
    BY <1>2 DEF MisuseBy
  <1>4. HeapAfter(w, it) \in SUBSET (Ops \X {1, 2})
    BY <1>1 DEF World, HeapAfter
  <1>5. /\ it.what = "call" => Enter(w, it) = [u EXCEPT !.inC = TRUE]
        /\ it.what # "call" => Enter(w, it) = Push(u, it.op, "run", it)
    BY DEF Enter
  <1>6. /\ u \in World /\ u.queue = w.queue /\ u.active = it /\ u.misuse = w.misuse
        /\ u.objects = w.objects /\ SameIds(u, w) /\ SameOps(u, w) /\ u.heap = HeapAfter(w, it) /\ u.inC = w.inC
        /\ u.jobs = w.jobs
    BY ZenonT(60), <1>3, <1>4 DEF World, SameIds, SameOps
  <1> HIDE DEF u
  <1>7. CASE it.what = "call"
    <2> DEFINE v == [u EXCEPT !.inC = TRUE]
    <2>1. /\ v \in World /\ v.queue = u.queue /\ v.active = u.active /\ v.misuse = u.misuse
          /\ v.objects = u.objects /\ SameIds(v, u) /\ SameOps(v, u) /\ v.heap = u.heap /\ v.inC = TRUE
          /\ v.jobs = u.jobs
      BY ZenonT(60), <1>6 DEF World, SameIds, SameOps
    <2> HIDE DEF v
    <2>2. Enter(w, it) = v
      BY <1>5, <1>7 DEF v
    <2>3. HeapAfter(w, it) = w.heap
      BY <1>7 DEF HeapAfter
    <2>4. SameIds(v, w) /\ SameOps(v, w)
      BY <2>1, <1>6 DEF SameIds, SameOps
    <2> QED
      BY <1>6, <1>7, <2>1, <2>2, <2>3, <2>4 DEF Entered
  <1>8. CASE it.what # "call"
    <2> DEFINE v == Push(u, it.op, "run", it)
    <2>1. "run" \in JobStages \cup OwnJobs /\ it \in Items \cup {NoItem}
      BY DEF JobStages
    <2>2. /\ v \in World /\ v.jobs = Append(u.jobs, Job(it.op, "run", it))
          /\ SameQueue(v, u) /\ SameC(v, u) /\ SameIds(v, u) /\ SameOps(v, u)
      BY <1>1, <1>6, <2>1, PushIs DEF Pushed
    <2> HIDE DEF v
    <2>3. Enter(w, it) = v
      BY <1>5, <1>8 DEF v
    <2>4. SameIds(v, w) /\ SameOps(v, w)
      BY <2>2, <1>6 DEF SameIds, SameOps
    <2>5. v.queue = w.queue /\ v.active = it /\ v.inC = w.inC /\ v.heap = HeapAfter(w, it) /\ v.misuse = w.misuse
          /\ v.objects = w.objects /\ v.jobs = Append(w.jobs, Job(it.op, "run", it))
      BY <2>2, <1>6 DEF SameQueue, SameC
    <2> QED
      BY <1>8, <2>2, <2>3, <2>4, <2>5 DEF Entered
  <1> QED
    BY <1>7, <1>8

\* Which part an operation is in, by the stage of one of its calls.
LEMMA StageSays ==
    ASSUME Alone, NEW w, NEW st, NEW part \in AllParts, NEW o \in Ops, NEW k \in {1, 2}, PartInv(w, st, part, o)
    PROVE  /\ st[M(o, k)] \in {"queued", "run", "ccall", "buffer", "path", "element"}
                => /\ part \in {"mallocs", "half"} /\ st[F(o, k)] = "none" /\ k <= Buffers(o)
                   /\ part = "half" => st[M(o, k)] \in {"queued", "run"} /\ k = 1
           /\ st[F(o, k)] \in {"queued", "run", "ccall", "all"}
                => part = "frees" /\ st[M(o, k)] = "over" /\ k <= Buffers(o)
           /\ st[C(o)] \in {"queued", "inC", "run", "ccall"}
                => part = "call" /\ MallocsAre(st, o, {"over"}) /\ FreesAre(st, o, {"none"})
           /\ st[M(o, k)] \notin {"all", "inC"} /\ st[F(o, k)] \notin {"buffer", "path", "element", "inC"}
           /\ st[C(o)] \notin {"buffer", "path", "element", "all"}
  <1>1. Kind[o] \in {"fd", "buffer", "path", "bothPaths"} /\ Buffers(o) \in 0 .. 2
        /\ (Kind[o] = "bothPaths" <=> Buffers(o) = 2)
    BY KindFacts
  <1>2. Idle(w, st, o) \/ Starting(w, st, o) =>
          st[M(o, k)] = "none" /\ st[F(o, k)] = "none" /\ st[C(o)] = "none"
    BY DEF Idle, Starting, MallocsAre, FreesAre, CallIs
  <1>3. BeforeCall(w, st, o) \/ AfterCall(w, st, o) \/ Ending(w, st, o) \/ Freed(w, st, o) =>
          st[M(o, k)] \in {"none", "over"} /\ st[F(o, k)] \in {"none", "over"} /\ st[C(o)] \in {"none", "over"}
    BY DEF BeforeCall, AfterCall, Ending, Freed, MallocsAre, FreesAre, CallIs
  <1>4. Calling(w, st, o) => /\ st[M(o, k)] \in {"none", "over"} /\ st[F(o, k)] = "none"
                             /\ st[C(o)] \in {"queued", "inC", "run", "ccall"}
                             /\ MallocsAre(st, o, {"over"}) /\ FreesAre(st, o, {"none"})
    BY DEF Calling, MallocsAre, FreesAre, CallIs
  <1>5. Freeing(w, st, o) => /\ k <= Buffers(o) => /\ st[M(o, k)] = "over"
                                                   /\ st[F(o, k)] \in {"queued", "run", "ccall", "all", "over"}
                             /\ ~(k <= Buffers(o)) => st[M(o, k)] = "none" /\ st[F(o, k)] = "none"
                             /\ st[C(o)] = "over"
    BY DEF Freeing, MallocsAre, FreesAre, CallIs
  <1>6. Mallocing(w, st, o) => /\ k <= Buffers(o) => st[M(o, k)] \in {"queued", "run", "ccall", "buffer", "path", "element", "over"}
                               /\ ~(k <= Buffers(o)) => st[M(o, k)] = "none"
                               /\ st[F(o, k)] = "none" /\ st[C(o)] = "none"
    BY DEF Mallocing, MallocStages, MallocsAre, FreesAre, CallIs
  <1>7. Halfway(w, st, o) => /\ k = 1 => st[M(o, k)] \in {"queued", "run"}
                             /\ k = 2 => st[M(o, k)] = "none"
                             /\ st[F(o, k)] = "none" /\ st[C(o)] = "none" /\ Buffers(o) = 2
    BY <1>1 DEF Halfway, MallocsAre, FreesAre, CallIs
  <1>8. CASE part = "idle"
    BY <1>8, <1>2 DEF PartInv
  <1>9. CASE part = "here"
    BY <1>9, <1>2, <1>3 DEF PartInv
  <1>10. CASE part \in {"body", "finally", "cleanup", "over"}
    BY <1>10, <1>3 DEF PartInv
  <1>11. CASE part = "call"
    BY <1>11, <1>4 DEF PartInv
  <1>12. CASE part = "frees"
    BY <1>12, <1>5 DEF PartInv
  <1>13. CASE part = "mallocs"
    BY <1>13, <1>6 DEF PartInv
  <1>14. CASE part = "half"
    BY <1>14, <1>7, <1>1 DEF PartInv
  <1> QED
    BY <1>8, <1>9, <1>10, <1>11, <1>12, <1>13, <1>14 DEF AllParts, Parts, OwnJobs

\* Nothing that the core of the invariant is about has changed.
LEMMA CoreSame ==
    ASSUME NEW w, NEW v, NEW st, NEW os, Core(w, st, os), SameIds(v, w), SameOps(v, w)
    PROVE  Core(v, st, os)
  <1>1. \A o \in Ops : PartInv(v, st, os[o], o)
    <2> TAKE o \in Ops
    <2>1. SameOp(v, w, o) /\ SameCalls(st, st, o)
      BY DEF SameOp, SameOps, SameIds, SameCalls
    <2> QED
      BY <2>1, PartFrame DEF Core
  <1>2. MemInv(v, st, os)
    BY DEF Core, MemInv, SameIds
  <1>3. IdInv(v, os)
    BY DEF Core, IdInv, SameIds
  <1> QED
    BY <1>1, <1>2, <1>3 DEF Core

\* A call goes on, and its operation is in the same part.
LEMMA MallocGoes ==
    ASSUME Alone, NEW w, NEW v, NEW st \in [Items -> Stages], NEW o \in Ops, NEW k \in {1, 2},
           Mallocing(w, st, o), SameOp(v, w, o), st[M(o, k)] \notin {"none", "over"},
           NEW at \in MallocStages(o) \ {"over"}
    PROVE  LET st2 == [st EXCEPT ![M(o, k)] = at] IN Mallocing(v, st2, o)
  <1> DEFINE st2 == [st EXCEPT ![M(o, k)] = at]
  <1>1. /\ st2[M(o, k)] = at /\ \A l \in {1, 2} \ {k} : st2[M(o, l)] = st[M(o, l)]
        /\ \A l \in {1, 2} : st2[F(o, l)] = st[F(o, l)]
        /\ st2[C(o)] = st[C(o)]
    BY ItemFacts
  <1> HIDE DEF st2
  <1>2. k <= Buffers(o)
    BY DEF Mallocing, MallocsAre
  <1>3. at # "none"
    BY DEF MallocStages
  <1>4. MallocsAre(st2, o, MallocStages(o))
    BY <1>1, <1>2 DEF Mallocing, MallocsAre
  <1>5. CallIs(st2, o, {"none"}) /\ FreesAre(st2, o, {"none"})
    BY <1>1 DEF Mallocing, CallIs, FreesAre
  <1>6. Left(st2[M(o, 1)]) = Left(st[M(o, 1)]) /\ Left(st2[M(o, 2)]) = Left(st[M(o, 2)])
    BY <1>1, <1>3 DEF Left
  <1> QED
    BY <1>4, <1>5, <1>6 DEF Mallocing, MallocsLeft, SameOp, Used, st2

LEMMA HalfGoes ==
    ASSUME Alone, NEW w, NEW v, NEW st \in [Items -> Stages], NEW o \in Ops,
           Halfway(w, st, o), SameOp(v, w, o)
    PROVE  LET st2 == [st EXCEPT ![M(o, 1)] = "run"] IN Halfway(v, st2, o)
  <1> DEFINE st2 == [st EXCEPT ![M(o, 1)] = "run"]
  <1>1. /\ st2[M(o, 1)] = "run" /\ st2[M(o, 2)] = st[M(o, 2)]
        /\ \A l \in {1, 2} : st2[F(o, l)] = st[F(o, l)]
        /\ st2[C(o)] = st[C(o)]
    BY ItemFacts
  <1> HIDE DEF st2
  <1>5. CallIs(st2, o, {"none"}) /\ FreesAre(st2, o, {"none"})
    BY <1>1 DEF Halfway, CallIs, FreesAre
  <1> QED
    BY <1>1, <1>5 DEF Halfway, SameOp, Used, st2

LEMMA FreeGoes ==
    ASSUME Alone, NEW w, NEW v, NEW st \in [Items -> Stages], NEW o \in Ops, NEW k \in {1, 2},
           Freeing(w, st, o), SameOp(v, w, o), st[F(o, k)] \notin {"none", "over"},
           NEW at \in {"queued", "run", "ccall", "all"}
    PROVE  LET st2 == [st EXCEPT ![F(o, k)] = at] IN Freeing(v, st2, o)
  <1> DEFINE st2 == [st EXCEPT ![F(o, k)] = at]
  <1>1. /\ st2[F(o, k)] = at /\ \A l \in {1, 2} \ {k} : st2[F(o, l)] = st[F(o, l)]
        /\ \A l \in {1, 2} : st2[M(o, l)] = st[M(o, l)]
        /\ st2[C(o)] = st[C(o)]
    BY ItemFacts
  <1> HIDE DEF st2
  <1>2. k <= Buffers(o)
    BY DEF Freeing, FreesAre
  <1>4. FreesAre(st2, o, {"queued", "run", "ccall", "all", "over"})
    BY <1>1, <1>2 DEF Freeing, FreesAre
  <1>5. CallIs(st2, o, {"over"}) /\ MallocsAre(st2, o, {"over"})
    BY <1>1 DEF Freeing, CallIs, MallocsAre
  <1>6. Left(st2[F(o, 1)]) = Left(st[F(o, 1)]) /\ Left(st2[F(o, 2)]) = Left(st[F(o, 2)])
    BY <1>1 DEF Left
  <1> QED
    BY <1>4, <1>5, <1>6 DEF Freeing, FreesLeft, SameOp, Used, st2

LEMMA CallGoes ==
    ASSUME Alone, NEW w, NEW v, NEW st \in [Items -> Stages], NEW o \in Ops,
           Calling(w, st, o), SameOp(v, w, o), NEW at \in {"queued", "inC", "run", "ccall"}
    PROVE  LET st2 == [st EXCEPT ![C(o)] = at] IN Calling(v, st2, o)
  <1> DEFINE st2 == [st EXCEPT ![C(o)] = at]
  <1>1. /\ st2[C(o)] = at
        /\ \A l \in {1, 2} : st2[M(o, l)] = st[M(o, l)] /\ st2[F(o, l)] = st[F(o, l)]
    BY ItemFacts
  <1> HIDE DEF st2
  <1>2. MallocsAre(st2, o, {"over"}) /\ FreesAre(st2, o, {"none"})
    BY <1>1 DEF Calling, MallocsAre, FreesAre
  <1> QED
    BY <1>1, <1>2 DEF Calling, CallIs, SameOp, Used, st2

\* A call goes on before or after its pointer is filed, and its operation with it.
LEMMA CallStep ==
    ASSUME Alone, NEW w, NEW v, NEW st \in [Items -> Stages], NEW os \in [Ops -> AllParts],
           Core(w, st, os), SameIds(v, w), SameOps(v, w), NEW it \in Items, NEW at \in Stages,
           st[it] \notin {"none", "over"},
           \/ it.what = "malloc" /\ st[it] = "queued" /\ at = "run"
           \/ /\ it.what = "malloc" /\ at \in MallocStages(it.op) \ {"over"} /\ os[it.op] = "mallocs"
              /\ (st[it] \in {"path", "element", "over"} <=> at \in {"path", "element", "over"})
           \/ it.what = "free" /\ at \in {"queued", "run", "ccall", "all"}
           \/ it.what = "call" /\ at \in {"queued", "inC", "run", "ccall"}
    PROVE  Core(v, [st EXCEPT ![it] = at], os)
  <1> DEFINE o == it.op
             st2 == [st EXCEPT ![it] = at]
  <1>1. o \in Ops /\ ((\E k \in {1, 2} : it = M(o, k) \/ it = F(o, k)) \/ it = C(o))
    BY ItemFacts
  <1> HIDE DEF o
  <1>2. SameOp(v, w, o) /\ \A p \in Ops : SameOp(v, w, p)
    BY <1>1 DEF SameOp, SameOps, SameIds
  <1>3. OnlyOf(v, w, st2, st, os, os, o)
    BY <1>2 DEF OnlyOf, o
  <1>4. PartInv(w, st, os[o], o) /\ os[o] \in AllParts
    BY <1>1 DEF Core
  <1>5. \A k \in {1, 2} : it # M(o, k) => st2[M(o, k)] = st[M(o, k)]
    BY <1>1, ItemFacts
  <1>6. /\ it.what = "malloc" => \E k \in {1, 2} : it = M(o, k)
        /\ it.what = "free" => \E k \in {1, 2} : it = F(o, k)
        /\ it.what = "call" => it = C(o)
    BY <1>1, ItemFacts
  <1>7. CASE it.what = "malloc"
    <2>1. PICK k \in {1, 2} : it = M(o, k)
      BY <1>6, <1>7
    <2>2. CASE st[it] = "queued" /\ at = "run"
      <3>1. os[o] \in {"mallocs", "half"} /\ (os[o] = "half" => k = 1)
        BY <2>1, <2>2, <1>1, <1>4, StageSays
      <3>2. Filed(st2, o) = Filed(st, o)
        BY <1>5, <2>1, <2>2 DEF Filed
      <3>3. PartInv(v, st2, os[o], o)
        <4>1. CASE os[o] = "mallocs"
          <5>1. Mallocing(w, st, o)
            BY <4>1, <1>4 DEF PartInv
          <5>2. "run" \in MallocStages(o) \ {"over"}
            BY DEF MallocStages
          <5>3. Mallocing(v, [st EXCEPT ![M(o, k)] = "run"], o)
            BY <5>1, <5>2, <1>1, <1>2, <2>1, <2>2, MallocGoes
          <5> QED
            BY <4>1, <5>3, <2>1, <2>2 DEF PartInv
        <4>2. CASE os[o] = "half"
          <5>1. Halfway(w, st, o)
            BY <4>2, <1>4 DEF PartInv
          <5>2. Halfway(v, [st EXCEPT ![M(o, 1)] = "run"], o)
            BY <5>1, <1>1, <1>2, HalfGoes
          <5> QED
            BY <4>2, <5>2, <2>1, <2>2, <3>1 DEF PartInv
        <4> QED
          BY <3>1, <4>1, <4>2
      <3>4. Busy(os, o)
        BY <3>1 DEF Busy
      <3> QED
        BY <1>1, <1>3, <3>2, <3>3, <3>4, OneMoves
    <2>3. CASE /\ at \in MallocStages(o) \ {"over"} /\ os[o] = "mallocs"
               /\ (st[it] \in {"path", "element", "over"} <=> at \in {"path", "element", "over"})
      <3>1. st2[M(o, k)] = at
        BY <2>1
      <3>2. Filed(st2, o) = Filed(st, o)
        BY <1>5, <2>1, <2>3, <3>1 DEF Filed
      <3>3. Mallocing(w, st, o)
        BY <2>3, <1>4 DEF PartInv
      <3>4. Mallocing(v, [st EXCEPT ![M(o, k)] = at], o)
        BY <3>3, <1>1, <1>2, <2>1, <2>3, MallocGoes
      <3>5. PartInv(v, st2, os[o], o) /\ Busy(os, o)
        BY <3>4, <2>1, <2>3 DEF PartInv, Busy
      <3> QED
        BY <1>1, <1>3, <3>2, <3>5, OneMoves
    <2> QED
      BY <1>7, <2>2, <2>3 DEF o
  <1>8. CASE it.what = "free"
    <2>1. PICK k \in {1, 2} : it = F(o, k)
      BY <1>6, <1>8
    <2>2. at \in {"queued", "run", "ccall", "all"} /\ st[it] \in {"queued", "run", "ccall", "all"}
      <3>1. st[it] \notin {"buffer", "path", "element", "inC"}
        BY <2>1, <1>1, <1>4, StageSays
      <3> QED
        BY <1>8, <3>1 DEF Stages, JobStages
    <2>3. os[o] = "frees"
      BY <2>1, <2>2, <1>1, <1>4, StageSays
    <2>4. Freeing(w, st, o)
      BY <2>3, <1>4 DEF PartInv
    <2>5. Freeing(v, [st EXCEPT ![F(o, k)] = at], o)
      BY <2>4, <1>1, <1>2, <2>1, <2>2, FreeGoes
    <2>6. PartInv(v, st2, os[o], o) /\ Busy(os, o)
      BY <2>5, <2>1, <2>3 DEF PartInv, Busy
    <2>7. Filed(st2, o) = Filed(st, o)
      <3>1. \A l \in {1, 2} : it # M(o, l)
        BY <2>1, <1>1, ItemFacts
      <3> QED
        BY <3>1, <1>5 DEF Filed
    <2> QED
      BY <1>1, <1>3, <2>6, <2>7, OneMoves
  <1>9. CASE it.what = "call"
    <2>1. it = C(o)
      BY <1>6, <1>9
    <2>2. at \in {"queued", "inC", "run", "ccall"} /\ st[it] \in {"queued", "inC", "run", "ccall"}
      <3>1. st[it] \notin {"buffer", "path", "element", "all"}
        <4>1. 1 \in {1, 2}
          OBVIOUS
        <4> QED
          BY <2>1, <1>1, <1>4, <4>1, StageSays
      <3> QED
        BY <1>9, <3>1 DEF Stages, JobStages
    <2>3. os[o] = "call"
      <3>1. 1 \in {1, 2}
        OBVIOUS
      <3> QED
        BY <3>1, <2>1, <2>2, <1>1, <1>4, StageSays
    <2>4. Calling(w, st, o)
      BY <2>3, <1>4 DEF PartInv
    <2>5. Calling(v, [st EXCEPT ![C(o)] = at], o)
      BY <2>4, <1>1, <1>2, <2>1, <2>2, CallGoes
    <2>6. PartInv(v, st2, os[o], o) /\ Busy(os, o)
      BY <2>5, <2>1, <2>3 DEF PartInv, Busy
    <2>7. Filed(st2, o) = Filed(st, o)
      <3>1. \A l \in {1, 2} : it # M(o, l)
        BY <2>1, <1>1, ItemFacts
      <3> QED
        BY <3>1, <1>5 DEF Filed
    <2> QED
      BY <1>1, <1>3, <2>6, <2>7, OneMoves
  <1> QED
    BY <1>7, <1>8, <1>9

\* run(): the call at the head of the queue is entered, if there is one.
LEMMA RunQueueKeeps ==
    ASSUME Alone, NEW w, NEW st \in [Items -> Stages], NEW os \in [Ops -> AllParts], Loose(w, st, os),
           \A it \in Items : st[it] \notin {"inC", "run"}, ~w.inC
    PROVE  SameIds(RunQueue(w), w) /\ \E st2 \in [Items -> Stages] : Rep(RunQueue(w), st2, os)
  <1>1. w \in World /\ w.queue \in Seq(Items) /\ Once(w.queue) /\ ToSet(w.queue) = QueueSet(st)
        /\ w.jobs \in Seq(Jobs) /\ Once(w.jobs) /\ ToSet(w.jobs) = JobSet(st, os)
        /\ HeapInv(w, st) /\ Core(w, st, os)
    BY DEF Loose, QueueInv, JobsInv, World
  <1>2. CASE w.queue = <<>>
    <2> DEFINE v == [w EXCEPT !.active = NoItem]
    <2>1. v \in World /\ v.active = NoItem /\ v.inC = w.inC /\ v.jobs = w.jobs /\ v.queue = w.queue
          /\ SameC(v, w) /\ SameIds(v, w) /\ SameOps(v, w)
      BY ZenonT(60), <1>1 DEF World, SameC, SameIds, SameOps
    <2>2. RunQueue(w) = v
      BY <1>2 DEF RunQueue
    <2> HIDE DEF v
    <2>3. Core(v, st, os)
      BY <1>1, <2>1, CoreSame
    <2>4. Loose(v, st, os)
      BY <1>1, <2>1, <2>3 DEF Loose, QueueInv, JobsInv, HeapInv, SameC
    <2>5. ActiveInv(v, st)
      BY <2>1, ItemFacts DEF ActiveInv
    <2> QED
      BY <2>1, <2>2, <2>4, <2>5 DEF Rep
  <1>3. CASE w.queue # <<>>
    <2> DEFINE u  == [w EXCEPT !.queue = Tail(@)]
               it == Head(w.queue)
               v  == Enter(u, it)
               o  == it.op
               at == IF it.what = "call" THEN "inC" ELSE "run"
               st2 == [st EXCEPT ![it] = at]
    <2>1. Tail(w.queue) \in Seq(Items) /\ Once(Tail(w.queue)) /\ it \in Items /\ it \in ToSet(w.queue)
          /\ ToSet(Tail(w.queue)) = ToSet(w.queue) \ {it}
      BY <1>1, <1>3, OnceTail
    <2>2. u \in World /\ u.queue = Tail(w.queue) /\ u.active = w.active /\ u.inC = w.inC /\ u.jobs = w.jobs
          /\ SameC(u, w) /\ SameIds(u, w) /\ SameOps(u, w)
      BY ZenonT(60), <1>1, <2>1 DEF World, SameC, SameIds, SameOps
    <2>3. RunQueue(w) = v
      BY <1>3 DEF RunQueue
    <2> HIDE DEF u, it, v, o, at
    <2>4. st[it] = "queued"
      BY <1>1, <2>1 DEF QueueSet
    <2>5. /\ o \in Ops /\ ((\E k \in {1, 2} : it = M(o, k) \/ it = F(o, k)) \/ it = C(o))
          /\ it.what = "malloc" => \E k \in {1, 2} : it = M(o, k)
          /\ it.what = "free" => \E k \in {1, 2} : it = F(o, k)
          /\ it.what = "call" => it = C(o)
          /\ it.what \in {"malloc", "free", "call"}
      BY <2>1, ItemFacts DEF o
    <2>6. PartInv(w, st, os[o], o) /\ os[o] \in AllParts
      BY <1>1, <2>5 DEF Core
    <2>7. it.what = "free" => it.ptr \in u.heap
      <3> SUFFICES ASSUME it.what = "free" PROVE it.ptr \in u.heap
        OBVIOUS
      <3>1. PICK k \in {1, 2} : it = F(o, k)
        BY <2>5
      <3>2. st[M(o, k)] = "over"
        BY <2>4, <2>5, <2>6, <3>1, StageSays
      <3>3. <<o, k>> \in w.heap
        <4>1. st[F(o, k)] = "queued"
          BY <2>4, <3>1
        <4> QED
          BY <1>1, <2>5, <3>2, <4>1 DEF HeapInv
      <3>4. it.ptr = <<o, k>>
        BY <2>5, <3>1, ItemFacts
      <3> QED
        BY <2>2, <3>3, <3>4 DEF SameC
    <2>8. it.what = "call" => Pointers(o) \subseteq u.heap
      <3> SUFFICES ASSUME it.what = "call" PROVE Pointers(o) \subseteq u.heap
        OBVIOUS
      <3>1. it = C(o) /\ 1 \in {1, 2}
        BY <2>5
      <3>2. MallocsAre(st, o, {"over"}) /\ FreesAre(st, o, {"none"})
        BY <2>4, <2>5, <2>6, <3>1, StageSays
      <3>3. \A k \in {1, 2} : k <= Buffers(o) => <<o, k>> \in w.heap
        BY <1>1, <2>5, <3>2 DEF HeapInv, MallocsAre, FreesAre
      <3>4. Pointers(o) = {<<o, k>> : k \in 1 .. Buffers(o)} /\ Buffers(o) \in 0 .. 2
        BY <2>5, KindFacts
      <3>5. \A k \in 1 .. Buffers(o) : k \in {1, 2} /\ k <= Buffers(o)
        BY <3>4
      <3> QED
        BY <2>2, <3>3, <3>4, <3>5 DEF SameC
    <2>21. Entered(v, u, it)
      BY <2>1, <2>2, <2>7, <2>8, EnterIs DEF v, o
    <2>9. /\ v \in World /\ v.queue = u.queue /\ v.active = it
          /\ v.misuse = u.misuse /\ v.objects = u.objects /\ SameIds(v, u) /\ SameOps(v, u)
          /\ v.heap = HeapAfter(u, it)
          /\ it.what = "call" => v.inC /\ v.jobs = u.jobs
          /\ it.what # "call" => /\ v.inC = u.inC
                                 /\ v.jobs = Append(u.jobs, Job(o, "run", it))
      BY <2>21 DEF Entered, o
    <2>10. SameIds(v, w) /\ SameOps(v, w) /\ v.queue = Tail(w.queue) /\ u.heap = w.heap
      BY <2>2, <2>9 DEF SameIds, SameOps, SameC
    <2>11. at \in Stages /\ st[it] # at /\ at # "queued" /\ (at \in JobStages <=> it.what # "call")
      BY <2>4 DEF Stages, JobStages, at
    <2>12. /\ at \in JobStages => /\ Job(o, at, it) \in Jobs \ JobSet(st, os)
                                  /\ JobSet(st2, os) = (JobSet(st, os) \ {Job(o, st[it], it)})
                                                           \cup {Job(o, at, it)}
           /\ at \notin JobStages => JobSet(st2, os) = JobSet(st, os) \ {Job(o, st[it], it)}
           /\ QueueSet(st2) = QueueSet(st) \ {it}
      <3>1. ItemMoved(st2, st, os, it, at)
        BY <2>1, <2>11, ItemMoves
      <3> QED
        BY <2>11, <3>1 DEF ItemMoved, o
    <2>20. st2 \in [Items -> Stages] /\ st2[it] = at /\ \A i \in Items \ {it} : st2[i] = st[i]
      BY <2>1, <2>11
    <2>13. Core(v, st2, os)
      <3>1. \/ it.what = "malloc" /\ st[it] = "queued" /\ at = "run"
            \/ it.what = "free" /\ at \in {"queued", "run", "ccall", "all"}
            \/ it.what = "call" /\ at \in {"queued", "inC", "run", "ccall"}
        BY <2>4, <2>5 DEF at
      <3> QED
        BY <1>1, <2>1, <2>4, <2>10, <2>11, <3>1, CallStep
    <2> HIDE DEF st2
    <2>14. QueueInv(v, st2)
      BY <1>1, <2>1, <2>10, <2>12, <2>20 DEF QueueInv
    <2>15. Job(o, st[it], it) \notin JobSet(st, os)
      BY <2>4 DEF Job, JobSet, OwnJobs, JobStages
    <2>16. JobsInv(v, st2, os)
      <3>1. CASE it.what = "call"
        <4>1. JobSet(st2, os) = JobSet(st, os)
          BY <3>1, <2>11, <2>12, <2>20, <2>15
        <4>2. v.jobs = w.jobs
          BY <3>1, <2>2, <2>9
        <4> QED
          BY <4>1, <4>2, <1>1 DEF JobsInv
      <3>2. CASE it.what # "call"
        <4>0. at = "run" /\ at \in JobStages
          BY <3>2, <2>11 DEF at
        <4>1. Job(o, "run", it) \in Jobs \ JobSet(st, os)
              /\ JobSet(st2, os) = JobSet(st, os) \cup {Job(o, "run", it)}
          BY <4>0, <2>12, <2>20, <2>15
        <4>2. v.jobs = Append(w.jobs, Job(o, "run", it))
          BY <3>2, <2>2, <2>9
        <4> QED
          BY <4>1, <4>2, <1>1, OnceAppend DEF JobsInv
      <3> QED
        BY <3>1, <3>2
    <2>17. HeapInv(v, st2)
      <3> SUFFICES ASSUME NEW p \in Ops, NEW k \in {1, 2}
                   PROVE <<p, k>> \in v.heap <=> /\ st2[M(p, k)] \notin {"none", "queued"}
                                                 /\ st2[F(p, k)] \in {"none", "queued"}
        BY DEF HeapInv
      <3>1. <<p, k>> \in w.heap <=> /\ st[M(p, k)] \notin {"none", "queued"}
                                    /\ st[F(p, k)] \in {"none", "queued"}
        BY <1>1 DEF HeapInv
      <3>2. CASE it = M(p, k)
        <4>1. it.what = "malloc" /\ it.ptr = <<p, k>> /\ it # F(p, k) /\ o = p
          BY <3>2, ItemFacts DEF o
        <4>2. v.heap = w.heap \cup {<<p, k>>}
          BY <4>1, <2>9, <2>10 DEF HeapAfter
        <4>3. st[F(p, k)] = "none"
          BY <3>2, <4>1, <2>4, <2>5, <2>6, StageSays
        <4>4. st2[M(p, k)] = "run" /\ st2[F(p, k)] = "none"
          BY <3>2, <4>1, <4>3, <2>1, <2>12, <2>20, ItemFacts DEF at
        <4> QED
          BY <4>2, <4>4
      <3>3. CASE it = F(p, k)
        <4>1. it.what = "free" /\ it.ptr = <<p, k>> /\ o = p
          BY <3>3, ItemFacts DEF o
        <4>2. v.heap = w.heap \ {<<p, k>>}
          BY <4>1, <2>9, <2>10 DEF HeapAfter
        <4>3. st2[F(p, k)] = "run"
          BY <3>3, <4>1, <2>12, <2>20 DEF at
        <4> QED
          BY <4>2, <4>3
      <3>4. CASE it # M(p, k) /\ it # F(p, k)
        <4>1. st2[M(p, k)] = st[M(p, k)] /\ st2[F(p, k)] = st[F(p, k)]
          BY <3>4, <2>12, <2>20, ItemFacts
        <4>2. it.what # "call" => it.ptr # <<p, k>>
          <5> SUFFICES ASSUME it.what # "call" PROVE it.ptr # <<p, k>>
            OBVIOUS
          <5>1. PICK l \in {1, 2} : it = M(o, l) \/ it = F(o, l)
            BY <2>5
          <5>2. it.ptr = <<o, l>>
            BY <5>1, <2>5, ItemFacts
          <5> QED
            BY <5>1, <5>2, <3>4
        <4>3. <<p, k>> \in v.heap <=> <<p, k>> \in w.heap
          BY <4>2, <2>5, <2>9, <2>10 DEF HeapAfter
        <4> QED
          BY <3>1, <4>1, <4>3
      <3> QED
        BY <3>2, <3>3, <3>4
    <2>18. ActiveInv(v, st2)
      <3>1. \A i \in Items : v.active = i <=> st2[i] \in {"inC", "run"}
        BY <2>1, <2>9, <2>12, <2>20 DEF at
      <3>2. CASE it.what = "call"
        <4>1. v.inC /\ st2[it] = "inC"
          BY <3>2, <2>9, <2>12, <2>20 DEF at
        <4> QED
          BY <3>1, <4>1, <2>1 DEF ActiveInv
      <3>3. CASE it.what # "call"
        <4>1. ~v.inC
          BY <3>3, <2>2, <2>9
        <4>2. \A i \in Items : st2[i] # "inC"
          BY <3>3, <2>12, <2>20 DEF at
        <4> QED
          BY <3>1, <4>1, <4>2 DEF ActiveInv
      <3> QED
        BY <3>2, <3>3
    <2>19. Rep(v, st2, os)
      BY <2>9, <2>13, <2>14, <2>16, <2>17, <2>18 DEF Rep, Loose
    <2> QED
      BY <2>3, <2>10, <2>20, <2>19
  <1> QED
    BY <1>2, <1>3

\* addOperation: w is the state with the calls in the queue.
LEMMA AddKeeps ==
    ASSUME Alone, NEW w, NEW items, NEW st \in [Items -> Stages], NEW os \in [Ops -> AllParts],
           Rep([w EXCEPT !.queue = @ \o items], st, os), w \in World
    PROVE  /\ SameIds(AddOperations(w, items), w)
           /\ \E st2 \in [Items -> Stages] : Rep(AddOperations(w, items), st2, os)
  <1> DEFINE v == [w EXCEPT !.queue = @ \o items]
  <1>1. v.active = w.active /\ SameIds(v, w)
    BY DEF World, SameIds
  <1> HIDE DEF v
  <1>2. Rep(v, st, os) /\ Loose(v, st, os) /\ ActiveInv(v, st) /\ v \in World
    BY DEF v, Rep, Loose
  <1>3. AddOperations(w, items) = IF w.active = NoItem THEN RunQueue(v) ELSE v
    BY DEF AddOperations, v
  <1>4. CASE w.active = NoItem
    <2>1. \A it \in Items : st[it] \notin {"inC", "run"}
      BY <1>1, <1>2, <1>4, ItemFacts DEF ActiveInv
    <2>2. ~v.inC
      BY <2>1, <1>2 DEF ActiveInv
    <2>3. AddOperations(w, items) = RunQueue(v)
      BY <1>3, <1>4
    <2>4. SameIds(RunQueue(v), v) /\ \E st2 \in [Items -> Stages] : Rep(RunQueue(v), st2, os)
      BY <1>2, <2>1, <2>2, RunQueueKeeps
    <2>5. SameIds(RunQueue(v), w)
      BY <1>1, <2>4 DEF SameIds
    <2> QED
      BY <2>3, <2>4, <2>5
  <1>5. CASE w.active # NoItem
    BY <1>1, <1>2, <1>3, <1>5
  <1> QED
    BY <1>4, <1>5

-----------------------------------------------------------------------------
(* The jobs *)

Lists(w, st, os) == QueueInv(w, st) /\ JobsInv(w, st, os) /\ ActiveInv(w, st)

\* The state in which the oldest job runs.
Started(w) == [w EXCEPT !.jobs = Tail(@)]

\* The oldest job is taken off.
LEMMA TakeJob ==
    ASSUME NEW w \in World, NEW st, NEW os, JobsInv(w, st, os), w.jobs # <<>>
    PROVE  /\ Started(w) \in World /\ Started(w).jobs = Tail(w.jobs)
           /\ SameQueue(Started(w), w) /\ SameC(Started(w), w) /\ SameIds(Started(w), w)
           /\ SameOps(Started(w), w)
           /\ Head(w.jobs) \in JobSet(st, os) /\ Tail(w.jobs) \in Seq(Jobs) /\ Once(Tail(w.jobs))
           /\ ToSet(Tail(w.jobs)) = JobSet(st, os) \ {Head(w.jobs)}
  <1>1. w.jobs \in Seq(Jobs) /\ Once(w.jobs) /\ ToSet(w.jobs) = JobSet(st, os)
    BY DEF World, JobsInv
  <1>2. /\ Tail(w.jobs) \in Seq(Jobs) /\ Once(Tail(w.jobs)) /\ Head(w.jobs) \in ToSet(w.jobs)
        /\ ToSet(Tail(w.jobs)) = ToSet(w.jobs) \ {Head(w.jobs)}
    BY <1>1, OnceTail
  <1>3. /\ Started(w) \in World /\ Started(w).jobs = Tail(w.jobs)
        /\ SameQueue(Started(w), w) /\ SameC(Started(w), w) /\ SameIds(Started(w), w)
        /\ SameOps(Started(w), w)
    BY <1>2, ZenonT(60) DEF Started, World, SameQueue, SameC, SameIds, SameOps
  <1> QED
    BY <1>1, <1>2, <1>3

\* A job is that of a call at its stage, or of an operation at its part.
LEMMA JobIs ==
    ASSUME NEW st, NEW os, NEW j \in JobSet(st, os)
    PROVE  /\ j.op \in Ops /\ j.at \in JobStages \cup OwnJobs
           /\ j.at \in JobStages => /\ j.item \in Items /\ j.item.op = j.op /\ st[j.item] = j.at
                                    /\ j = Job(j.item.op, st[j.item], j.item)
           /\ j.at \in OwnJobs => j.item = NoItem /\ os[j.op] = j.at /\ j = Job(j.op, os[j.op], NoItem)
  <1>1. j \in Jobs /\ NoItem \notin Items
    BY ItemFacts DEF JobSet
  <1>2. j.op \in Ops /\ j.at \in JobStages \cup OwnJobs /\ j = Job(j.op, j.at, j.item)
    BY <1>1 DEF Jobs, Job
  <1>3. JobStages \cap OwnJobs = {}
    BY DEF JobStages, OwnJobs
  <1>4. \/ j.item \in Items /\ j.item.op = j.op /\ j.at \in JobStages /\ j.at = st[j.item]
        \/ j.item = NoItem /\ j.at \in OwnJobs /\ j.at = os[j.op]
    BY DEF JobSet
  <1> QED
    BY <1>1, <1>2, <1>3, <1>4

\* The oldest job has run, and has left at most one other.
LEMMA JobsGo ==
    ASSUME NEW w \in World, NEW u \in World, NEW st, NEW st2, NEW os, NEW os2,
           JobsInv(w, st, os), w.jobs # <<>>,
           \/ u.jobs = Tail(w.jobs) /\ JobSet(st2, os2) = JobSet(st, os) \ {Head(w.jobs)}
           \/ \E new \in Jobs \ JobSet(st, os) :
                 /\ u.jobs = Append(Tail(w.jobs), new)
                 /\ JobSet(st2, os2) = (JobSet(st, os) \ {Head(w.jobs)}) \cup {new}
    PROVE  JobsInv(u, st2, os2)
  <1>1. Tail(w.jobs) \in Seq(Jobs) /\ Once(Tail(w.jobs))
        /\ ToSet(Tail(w.jobs)) = JobSet(st, os) \ {Head(w.jobs)}
    BY TakeJob
  <1>2. JobsInv(u, st2, os2)
    <2>1. CASE u.jobs = Tail(w.jobs) /\ JobSet(st2, os2) = JobSet(st, os) \ {Head(w.jobs)}
      BY <2>1, <1>1 DEF JobsInv
    <2>2. CASE \E new \in Jobs \ JobSet(st, os) :
                 /\ u.jobs = Append(Tail(w.jobs), new)
                 /\ JobSet(st2, os2) = (JobSet(st, os) \ {Head(w.jobs)}) \cup {new}
      <3>1. PICK new \in Jobs \ JobSet(st, os) :
                 /\ u.jobs = Append(Tail(w.jobs), new)
                 /\ JobSet(st2, os2) = (JobSet(st, os) \ {Head(w.jobs)}) \cup {new}
        BY <2>2
      <3>2. new \notin ToSet(Tail(w.jobs)) /\ new \in Jobs
        BY <1>1
      <3>3. /\ Once(Append(Tail(w.jobs), new))
            /\ ToSet(Append(Tail(w.jobs), new)) = ToSet(Tail(w.jobs)) \cup {new}
        <4> DEFINE s == Tail(w.jobs)
        <4>1. s \in Seq(Jobs) /\ Once(s) /\ new \notin ToSet(s) /\ new \in Jobs
          BY <1>1, <3>2
        <4> HIDE DEF s
        <4>2. Once(Append(s, new)) /\ ToSet(Append(s, new)) = ToSet(s) \cup {new}
          BY <4>1, OnceAppend
        <4> QED
          BY <4>2 DEF s
      <3> QED
        BY <3>1, <3>3, <1>1 DEF JobsInv
    <2> QED
      BY <2>1, <2>2
  <1> QED
    BY <1>2

LEMMA ListsGo ==
    ASSUME NEW w \in World, NEW u \in World, NEW st, NEW st2, NEW os, NEW os2,
           Lists(w, st, os), w.jobs # <<>>, SameQueue(u, w), QueueSet(st2) = QueueSet(st),
           \A it \in Items : st2[it] # st[it] => {st2[it], st[it]} \cap {"inC", "run"} = {},
           \/ u.jobs = Tail(w.jobs) /\ JobSet(st2, os2) = JobSet(st, os) \ {Head(w.jobs)}
           \/ \E new \in Jobs \ JobSet(st, os) :
                 /\ u.jobs = Append(Tail(w.jobs), new)
                 /\ JobSet(st2, os2) = (JobSet(st, os) \ {Head(w.jobs)}) \cup {new}
    PROVE  Lists(u, st2, os2)
  <1>2. JobsInv(u, st2, os2)
    BY JobsGo DEF Lists
  <1>3. QueueInv(u, st2)
    BY DEF Lists, QueueInv, SameQueue
  <1>4. \A it \in Items : /\ st2[it] \in {"inC", "run"} <=> st[it] \in {"inC", "run"}
                          /\ st2[it] = "inC" <=> st[it] = "inC"
    OBVIOUS
  <1>5. ActiveInv(u, st2)
    BY <1>4 DEF Lists, ActiveInv, SameQueue
  <1> QED
    BY <1>2, <1>3, <1>5 DEF Lists

\* A call that has been entered goes on, which does not touch the heap of C.
LEMMA HeapStays ==
    ASSUME NEW w, NEW u, NEW st \in [Items -> Stages], NEW it \in Items, NEW at,
           HeapInv(w, st), SameC(u, w), {st[it], at} \cap {"none", "queued"} = {}
    PROVE  HeapInv(u, [st EXCEPT ![it] = at])
  <1> DEFINE st2 == [st EXCEPT ![it] = at]
  <1>1. \A i \in Items : /\ st2[i] \in {"none", "queued"} <=> st[i] \in {"none", "queued"}
    OBVIOUS
  <1> HIDE DEF st2
  <1>2. \A o \in Ops, k \in {1, 2} : M(o, k) \in Items /\ F(o, k) \in Items
    BY ItemFacts
  <1> QED
    BY <1>1, <1>2 DEF HeapInv, SameC, st2

\* The job of a call is followed by another of the same call.
LEMMA NextJob ==
    ASSUME Alone, NEW w, NEW st \in [Items -> Stages], NEW os \in [Ops -> Parts], Rep(w, st, os),
           w.jobs # <<>>, NEW at \in JobStages \ {"run"}, Head(w.jobs).at \in JobStages \ {"run", at},
           NEW u \in World, SameQueue(u, w), SameC(u, w),
           u.jobs = Append(Tail(w.jobs), Job(Head(w.jobs).op, at, Head(w.jobs).item))
    PROVE  LET st2 == [st EXCEPT ![Head(w.jobs).item] = at]
           IN st2 \in [Items -> Stages] /\ Lists(u, st2, os) /\ HeapInv(u, st2)
  <1> DEFINE j  == Head(w.jobs)
             it == j.item
             st2 == [st EXCEPT ![it] = at]
  <1>1. w \in World /\ Lists(w, st, os) /\ HeapInv(w, st) /\ JobsInv(w, st, os)
    BY DEF Rep, Loose, Lists
  <1>2. j \in JobSet(st, os)
    BY <1>1, TakeJob
  <1>3. /\ j.op \in Ops /\ it \in Items /\ it.op = j.op /\ st[it] = j.at /\ j = Job(it.op, st[it], it)
    BY <1>2, JobIs
  <1> HIDE DEF j, it
  <1>4. u.jobs = Append(Tail(w.jobs), Job(it.op, at, it))
    BY <1>3 DEF it, j
  <1>6. st[it] \in JobStages \ {"run", at} /\ at \in Stages /\ os \in [Ops -> AllParts] /\ at \in JobStages
    BY <1>3 DEF Stages, AllParts, j
  <1>7. ItemMoved(st2, st, os, it, at)
    BY <1>3, <1>6, ItemMoves
  <1>8. st2 \in [Items -> Stages] /\ st2[it] = at /\ \A i \in Items \ {it} : st2[i] = st[i]
    BY <1>3, <1>6
  <1>9. /\ Job(it.op, at, it) \in Jobs \ JobSet(st, os)
        /\ JobSet(st2, os) = (JobSet(st, os) \ {j}) \cup {Job(it.op, at, it)}
    BY <1>3, <1>6, <1>7 DEF ItemMoved
  <1>10. QueueSet(st2) = QueueSet(st)
    <2>1. st[it] # "queued" /\ at # "queued"
      BY <1>6 DEF JobStages
    <2> QED
      BY <2>1, <1>7 DEF ItemMoved, QueueSet
  <1>11. \A i \in Items : st2[i] # st[i] => {st2[i], st[i]} \cap {"inC", "run"} = {}
    BY <1>6, <1>8 DEF JobStages
  <1>12. HeapInv(u, st2)
    <2>1. {st[it], at} \cap {"none", "queued"} = {}
      BY <1>6 DEF JobStages
    <2> QED
      BY <2>1, <1>1, <1>3, HeapStays
  <1> HIDE DEF st2
  <1>14. Lists(u, st2, os)
    BY <1>1, <1>4, <1>9, <1>10, <1>11, ListsGo DEF j
  <1> QED
    BY <1>8, <1>12, <1>14 DEF st2, it, j

\* The same, when nothing else changes.
LEMMA GoesOn ==
    ASSUME Alone, NEW w, NEW st \in [Items -> Stages], NEW os \in [Ops -> Parts], Rep(w, st, os),
           w.jobs # <<>>, NEW at \in JobStages \ {"run"}, Head(w.jobs).at \in JobStages \ {"run", at},
           LET it == Head(w.jobs).item IN
              \/ /\ it.what = "malloc" /\ at \in MallocStages(it.op) /\ os[it.op] = "mallocs"
                 /\ (st[it] \in {"path", "element", "over"} <=> at \in {"path", "element", "over"})
              \/ it.what = "free" /\ at \in {"ccall", "all"}
              \/ it.what = "call" /\ at = "ccall"
    PROVE  Good(Push(Started(w), Head(w.jobs).op, at, Head(w.jobs).item))
  <1> DEFINE j  == Head(w.jobs)
             it == j.item
             v  == Started(w)
             u  == Push(v, j.op, at, it)
             st2 == [st EXCEPT ![it] = at]
  <1>1. w \in World /\ Core(w, st, os) /\ JobsInv(w, st, os)
    BY DEF Rep, Loose
  <1>2. /\ v \in World /\ v.jobs = Tail(w.jobs) /\ SameQueue(v, w) /\ SameC(v, w) /\ SameIds(v, w)
        /\ SameOps(v, w) /\ j \in JobSet(st, os)
    BY <1>1, TakeJob
  <1> HIDE DEF v
  <1>3. j.op \in Ops /\ it \in Items /\ it.op = j.op /\ st[it] = j.at
    BY <1>2, JobIs
  <1> HIDE DEF j, it
  <1>4. Pushed(u, v, Job(j.op, at, it))
    BY <1>2, <1>3, PushIs
  <1> HIDE DEF u
  <1>5. /\ u \in World /\ u.jobs = Append(Tail(w.jobs), Job(j.op, at, it))
        /\ SameQueue(u, w) /\ SameC(u, w) /\ SameIds(u, w) /\ SameOps(u, w)
    BY <1>2, <1>4 DEF Pushed, SameQueue, SameC, SameIds, SameOps
  <1>6. st[it] \in JobStages \ {"run", at} /\ at \in Stages /\ os \in [Ops -> AllParts]
    BY <1>3 DEF Stages, AllParts, j
  <1>7. st2 \in [Items -> Stages] /\ Lists(u, st2, os) /\ HeapInv(u, st2)
    BY <1>5, NextJob DEF it, j
  <1>8. Core(u, st2, os)
    <2>1. st[it] \notin {"none", "over"} /\ at # "over"
      BY <1>6 DEF JobStages
    <2>2. \/ /\ it.what = "malloc" /\ at \in MallocStages(it.op) \ {"over"} /\ os[it.op] = "mallocs"
             /\ (st[it] \in {"path", "element", "over"} <=> at \in {"path", "element", "over"})
          \/ it.what = "free" /\ at \in {"queued", "run", "ccall", "all"}
          \/ it.what = "call" /\ at \in {"queued", "inC", "run", "ccall"}
      BY <2>1 DEF it, j
    <2> QED
      BY <2>1, <2>2, <1>1, <1>3, <1>5, <1>6, CallStep
  <1> HIDE DEF st2
  <1>9. Rep(u, st2, os)
    BY <1>5, <1>7, <1>8 DEF Rep, Loose, Lists
  <1> QED
    BY <1>7, <1>9 DEF Good, u, v, it, j

\* The continuation of run().
LEMMA StepRun ==
    ASSUME Alone, NEW w, NEW st \in [Items -> Stages], NEW os \in [Ops -> Parts], Rep(w, st, os),
           w.jobs # <<>>, Head(w.jobs).at = "run"
    PROVE  Good(RunContinues(Started(w), Head(w.jobs)))
  <1> DEFINE j  == Head(w.jobs)
             it == j.item
             v  == Started(w)
             u  == Push(v, j.op, "ccall", it)
             st2 == [st EXCEPT ![it] = "ccall"]
  <1>1. w \in World /\ QueueInv(w, st) /\ HeapInv(w, st) /\ Core(w, st, os) /\ JobsInv(w, st, os)
        /\ ActiveInv(w, st)
    BY DEF Rep, Loose
  <1>2. /\ v \in World /\ v.jobs = Tail(w.jobs) /\ SameQueue(v, w) /\ SameC(v, w) /\ SameIds(v, w)
        /\ SameOps(v, w) /\ j \in JobSet(st, os)
    BY <1>1, TakeJob
  <1>0. RunContinues(v, j) = RunQueue(u)
    BY DEF RunContinues
  <1> HIDE DEF v
  <1>3. /\ j.op \in Ops /\ it \in Items /\ it.op = j.op /\ st[it] = "run" /\ j = Job(it.op, st[it], it)
    BY <1>2, JobIs DEF JobStages
  <1> HIDE DEF j, it
  <1>4. /\ u \in World /\ u.jobs = Append(v.jobs, Job(it.op, "ccall", it))
        /\ SameQueue(u, v) /\ SameC(u, v) /\ SameIds(u, v) /\ SameOps(u, v)
    <2>1. "ccall" \in JobStages \cup OwnJobs
      BY DEF JobStages
    <2>2. Pushed(u, v, Job(j.op, "ccall", it))
      BY <1>2, <1>3, <2>1, PushIs
    <2> HIDE DEF u
    <2> QED
      BY <2>2, <1>3 DEF Pushed
  <1> HIDE DEF u
  <1>5. SameQueue(u, w) /\ SameC(u, w) /\ SameIds(u, w) /\ SameOps(u, w)
    BY <1>2, <1>4 DEF SameQueue, SameC, SameIds, SameOps
  <1>6. "ccall" \in JobStages /\ "ccall" \in Stages /\ os \in [Ops -> AllParts]
    BY DEF Stages, JobStages, AllParts
  <1>7. ItemMoved(st2, st, os, it, "ccall")
    BY <1>3, <1>6, ItemMoves
  <1>8. st2 \in [Items -> Stages] /\ st2[it] = "ccall" /\ \A i \in Items \ {it} : st2[i] = st[i]
    BY <1>3, <1>6
  <1>9. /\ Job(it.op, "ccall", it) \in Jobs \ JobSet(st, os)
        /\ JobSet(st2, os) = (JobSet(st, os) \ {j}) \cup {Job(it.op, "ccall", it)}
    BY <1>3, <1>6, <1>7 DEF ItemMoved
  <1>10. QueueInv(u, st2)
    <2>1. QueueSet(st2) = QueueSet(st)
      BY <1>3, <1>7 DEF ItemMoved, QueueSet
    <2> QED
      BY <2>1, <1>1, <1>5 DEF QueueInv, SameQueue
  <1>11. JobsInv(u, st2, os)
    BY <1>1, <1>2, <1>4, <1>9, JobsGo DEF j
  <1>12. HeapInv(u, st2)
    <2>1. {st[it], "ccall"} \cap {"none", "queued"} = {}
      BY <1>3
    <2> QED
      BY <2>1, <1>1, <1>3, <1>5, HeapStays
  <1>13. Core(u, st2, os)
    <2>1. (it.what = "malloc" /\ \E k \in {1, 2} : it = M(it.op, k)) \/ it.what \in {"free", "call"}
      BY <1>3, ItemFacts
    <2>2. CASE it.what = "malloc"
      <3>1. PICK k \in {1, 2} : it = M(it.op, k)
        BY <2>1, <2>2
      <3>2. PartInv(w, st, os[it.op], it.op) /\ os[it.op] \in Parts
        BY <1>1, <1>3 DEF Core
      <3>3. os[it.op] \in {"mallocs", "half"}
        BY <1>3, <1>6, <3>1, <3>2, StageSays
      <3>4. os[it.op] = "mallocs"
        BY <3>2, <3>3 DEF Parts, OwnJobs
      <3>5. "ccall" \in MallocStages(it.op) \ {"over"}
        BY DEF MallocStages
      <3> QED
        BY <2>2, <3>4, <3>5, <1>1, <1>3, <1>5, <1>6, CallStep
    <2>3. CASE it.what \in {"free", "call"}
      BY <2>3, <1>1, <1>3, <1>5, <1>6, CallStep
    <2> QED
      BY <2>1, <2>2, <2>3
  <1>14. Loose(u, st2, os)
    BY <1>4, <1>10, <1>11, <1>12, <1>13 DEF Loose
  <1>15. \A i \in Items : st2[i] \notin {"inC", "run"}
    BY <1>1, <1>3, <1>8 DEF ActiveInv
  <1>16. ~u.inC
    <2>1. \A i \in Items : st[i] # "inC"
      BY <1>1, <1>3 DEF ActiveInv
    <2> QED
      BY <2>1, <1>1, <1>5 DEF ActiveInv, SameQueue
  <1> HIDE DEF st2
  <1>17. \E st3 \in [Items -> Stages] : Rep(RunQueue(u), st3, os)
    BY <1>6, <1>8, <1>14, <1>15, <1>16, RunQueueKeeps
  <1> QED
    BY <1>0, <1>17 DEF Good, u, v, it, j

\* The last job of a call has run: its operation waits for others or goes on.
JobOver(u, st, os, it, o, part) ==
    LET st2 == [st EXCEPT ![it] = "over"]
        os2 == [os EXCEPT ![o] = part]
    IN st2 \in [Items -> Stages] /\ os2 \in [Ops -> Parts] /\ Lists(u, st2, os2) /\ HeapInv(u, st2)

LEMMA LastJob ==
    ASSUME Alone, NEW w, NEW st \in [Items -> Stages], NEW os \in [Ops -> Parts], Rep(w, st, os),
           w.jobs # <<>>, Head(w.jobs).at \in JobStages \ {"run"},
           NEW u \in World, SameQueue(u, w), SameC(u, w), NEW part \in Parts,
           NEW o, o = Head(w.jobs).op, NEW it, it = Head(w.jobs).item,
           os[o] \notin OwnJobs,
           \/ part = os[o] /\ u.jobs = Tail(w.jobs)
           \/ part \in OwnJobs /\ u.jobs = Append(Tail(w.jobs), Job(o, part, NoItem))
    PROVE  JobOver(u, st, os, it, o, part)
  <1> DEFINE j  == Head(w.jobs)
             st2 == [st EXCEPT ![it] = "over"]
             os2 == [os EXCEPT ![o] = part]
             new == Job(o, part, NoItem)
  <1>1. w \in World /\ Lists(w, st, os) /\ HeapInv(w, st) /\ JobsInv(w, st, os)
    BY DEF Rep, Loose, Lists
  <1>2. j \in JobSet(st, os)
    BY <1>1, TakeJob
  <1>3. /\ o \in Ops /\ it \in Items /\ it.op = o /\ st[it] = j.at /\ j = Job(o, st[it], it)
    BY <1>2, JobIs
  <1> HIDE DEF j
  <1>4. os[o] \notin OwnJobs /\ st[it] \in JobStages \ {"run"}
    BY <1>3 DEF j
  <1>5. \/ part = os[o] /\ u.jobs = Tail(w.jobs)
        \/ part \in OwnJobs /\ u.jobs = Append(Tail(w.jobs), new)
    OBVIOUS
  <1>6. "over" \in Stages /\ "over" \notin JobStages /\ os \in [Ops -> AllParts] /\ part \in AllParts
    BY DEF Stages, JobStages, AllParts
  <1>7. st2 \in [Items -> Stages] /\ st2[it] = "over" /\ \A i \in Items \ {it} : st2[i] = st[i]
    BY <1>3, <1>6
  <1>8. os2 \in [Ops -> Parts] /\ os2[o] = part /\ \A p \in Ops \ {o} : os2[p] = os[p]
    BY <1>3
  <1>9. ItemMoved(st2, st, os, it, "over")
    BY <1>3, <1>4, <1>6, ItemMoves
  <1>10. JobSet(st2, os) = JobSet(st, os) \ {j} /\ QueueSet(st2) = QueueSet(st)
    BY <1>3, <1>4, <1>6, <1>9 DEF ItemMoved, QueueSet, JobStages
  <1>11. \A i \in Items : st2[i] # st[i] => {st2[i], st[i]} \cap {"inC", "run"} = {}
    BY <1>4, <1>7 DEF JobStages
  <1>12. HeapInv(u, st2)
    <2>1. {st[it], "over"} \cap {"none", "queued"} = {}
      BY <1>4 DEF JobStages
    <2> QED
      BY <2>1, <1>1, <1>3, HeapStays
  <1> HIDE DEF st2
  <1>13. Lists(u, st2, os2)
    <2>1. CASE part = os[o] /\ u.jobs = Tail(w.jobs)
      <3>1. os2 = os
        BY <2>1, <1>3
      <3>2. Lists(u, st2, os)
        BY <2>1, <1>1, <1>10, <1>11, ListsGo DEF j
      <3> QED
        BY <3>1, <3>2
    <2>2. CASE part \in OwnJobs /\ u.jobs = Append(Tail(w.jobs), new)
      <3>1. OpMoved(os2, st2, os, o, part)
        BY <2>2, <1>3, <1>4, <1>6, <1>7, OpMoves
      <3> HIDE DEF os2
      <3>2. Job(o, os[o], NoItem) \notin JobSet(st2, os)
        <4>1. Job(o, os[o], NoItem).at = os[o] /\ Job(o, os[o], NoItem).item = NoItem
          BY DEF Job
        <4> QED
          BY <4>1, <1>4, ItemFacts DEF JobSet
      <3>3. /\ new \in Jobs \ JobSet(st2, os) /\ JobSet(st2, os2) = JobSet(st2, os) \cup {new}
        BY <2>2, <3>1, <3>2 DEF OpMoved
      <3>4. new # j
        BY <1>3, ItemFacts DEF Job
      <3>5. new \in Jobs \ JobSet(st, os) /\ JobSet(st2, os2) = (JobSet(st, os) \ {j}) \cup {new}
        BY <3>3, <3>4, <1>10
      <3> HIDE DEF new
      <3> QED
        BY <2>2, <3>5, <1>1, <1>10, <1>11, ListsGo DEF j
    <2> QED
      BY <1>5, <2>1, <2>2
  <1> QED
    BY <1>7, <1>8, <1>12, <1>13 DEF st2, JobOver

\* One malloc less is left.
LEMMA OneMallocOver ==
    ASSUME Alone, NEW w, NEW st \in [Items -> Stages], NEW o \in Ops, NEW k \in {1, 2},
           Mallocing(w, st, o), st[M(o, k)] \notin {"none", "over"}
    PROVE  LET st2 == [st EXCEPT ![M(o, k)] = "over"] IN
           /\ CallIs(st2, o, {"none"}) /\ FreesAre(st2, o, {"none"})
           /\ MallocsLeft(st, o) \in {1, 2} /\ MallocsLeft(st2, o) = MallocsLeft(st, o) - 1
           /\ Kind[o] # "bothPaths" => MallocsLeft(st, o) = 1
           /\ MallocsLeft(st, o) = 1 => MallocsAre(st2, o, {"over"})
           /\ Kind[o] = "bothPaths" => MallocsAre(st2, o, MallocStages(o))
  <1> DEFINE st2 == [st EXCEPT ![M(o, k)] = "over"]
  <1>1. /\ st2[M(o, k)] = "over" /\ \A l \in {1, 2} \ {k} : st2[M(o, l)] = st[M(o, l)]
        /\ \A l \in {1, 2} : st2[F(o, l)] = st[F(o, l)]
        /\ st2[C(o)] = st[C(o)]
    BY ItemFacts DEF Stages
  <1> HIDE DEF st2
  <1>2. k <= Buffers(o) /\ Buffers(o) \in {1, 2} /\ (Kind[o] = "bothPaths" <=> Buffers(o) = 2)
    BY KindFacts DEF Mallocing, MallocsAre
  <1>3. CallIs(st2, o, {"none"}) /\ FreesAre(st2, o, {"none"})
    BY <1>1 DEF Mallocing, CallIs, FreesAre
  <1>4. \A l \in {1, 2} : /\ l <= Buffers(o) => st[M(o, l)] \in MallocStages(o)
                          /\ ~(l <= Buffers(o)) => st[M(o, l)] = "none"
    BY DEF Mallocing, MallocsAre
  <1>5. "none" \notin MallocStages(o)
    BY DEF MallocStages
  <1>6. CASE Buffers(o) = 1
    <2>1. k = 1 /\ st[M(o, 2)] = "none" /\ st2[M(o, 2)] = "none" /\ st2[M(o, 1)] = "over"
      BY <1>6, <1>1, <1>2, <1>4
    <2>2. MallocsLeft(st, o) = 1 /\ MallocsLeft(st2, o) = 0
      BY <2>1 DEF MallocsLeft, Left
    <2>3. MallocsAre(st2, o, {"over"})
      BY <2>1, <1>6 DEF MallocsAre
    <2> QED
      BY <2>2, <2>3, <1>2, <1>3, <1>6 DEF st2
  <1>7. CASE Buffers(o) = 2
    <2>1. PICK l \in {1, 2} : {k, l} = {1, 2}
      OBVIOUS
    <2>2. /\ MallocsLeft(st, o) = 1 + Left(st[M(o, l)]) /\ MallocsLeft(st2, o) = Left(st[M(o, l)])
          /\ Left(st[M(o, l)]) \in {0, 1}
      BY <2>1, <1>1 DEF MallocsLeft, Left
    <2>3. Left(st[M(o, l)]) = 0 => st[M(o, l)] = "over"
      BY <1>4, <1>5, <1>7 DEF Left
    <2>4. MallocsLeft(st, o) = 1 => MallocsAre(st2, o, {"over"})
      BY <2>1, <2>2, <2>3, <1>1, <1>7 DEF MallocsAre
    <2>5. "over" \in MallocStages(o)
      BY <1>2, <1>7 DEF MallocStages
    <2>6. MallocsAre(st2, o, MallocStages(o))
      BY <2>1, <2>5, <1>1, <1>4, <1>7 DEF MallocsAre
    <2> QED
      BY <2>2, <2>4, <2>6, <1>2, <1>3, <1>7 DEF st2
  <1> QED
    BY <1>2, <1>6, <1>7

\* One free less is left.
LEMMA OneFreeOver ==
    ASSUME Alone, NEW w, NEW st \in [Items -> Stages], NEW o \in Ops, NEW k \in {1, 2},
           Freeing(w, st, o), st[F(o, k)] \notin {"none", "over"}
    PROVE  LET st2 == [st EXCEPT ![F(o, k)] = "over"] IN
           /\ CallIs(st2, o, {"over"}) /\ MallocsAre(st2, o, {"over"})
           /\ FreesLeft(st, o) \in {1, 2} /\ FreesLeft(st2, o) = FreesLeft(st, o) - 1
           /\ FreesLeft(st, o) = 1 => FreesAre(st2, o, {"over"})
           /\ FreesAre(st2, o, {"queued", "run", "ccall", "all", "over"})
  <1> DEFINE st2 == [st EXCEPT ![F(o, k)] = "over"]
             S == {"queued", "run", "ccall", "all", "over"}
  <1>1. /\ st2[F(o, k)] = "over" /\ \A l \in {1, 2} \ {k} : st2[F(o, l)] = st[F(o, l)]
        /\ \A l \in {1, 2} : st2[M(o, l)] = st[M(o, l)]
        /\ st2[C(o)] = st[C(o)]
    BY ItemFacts DEF Stages
  <1> HIDE DEF st2
  <1>2. k <= Buffers(o) /\ Buffers(o) \in {1, 2}
    BY KindFacts DEF Freeing, FreesAre
  <1>3. CallIs(st2, o, {"over"}) /\ MallocsAre(st2, o, {"over"})
    BY <1>1 DEF Freeing, CallIs, MallocsAre
  <1>4. \A l \in {1, 2} : /\ l <= Buffers(o) => st[F(o, l)] \in S
                          /\ ~(l <= Buffers(o)) => st[F(o, l)] = "none"
    BY DEF Freeing, FreesAre
  <1>5. FreesAre(st2, o, S)
    BY <1>1, <1>2, <1>4 DEF FreesAre
  <1>6. CASE Buffers(o) = 1
    <2>1. k = 1 /\ st[F(o, 2)] = "none" /\ st2[F(o, 2)] = "none" /\ st2[F(o, 1)] = "over"
      BY <1>6, <1>1, <1>2, <1>4
    <2>2. FreesLeft(st, o) = 1 /\ FreesLeft(st2, o) = 0
      BY <2>1 DEF FreesLeft, Left
    <2>3. FreesAre(st2, o, {"over"})
      BY <2>1, <1>6 DEF FreesAre
    <2> QED
      BY <2>2, <2>3, <1>3, <1>5 DEF st2
  <1>7. CASE Buffers(o) = 2
    <2>1. PICK l \in {1, 2} : {k, l} = {1, 2}
      OBVIOUS
    <2>2. /\ FreesLeft(st, o) = 1 + Left(st[F(o, l)]) /\ FreesLeft(st2, o) = Left(st[F(o, l)])
          /\ Left(st[F(o, l)]) \in {0, 1}
      BY <2>1, <1>1 DEF FreesLeft, Left
    <2>3. Left(st[F(o, l)]) = 0 => st[F(o, l)] = "over"
      BY <1>4, <1>7 DEF Left
    <2>4. FreesLeft(st, o) = 1 => FreesAre(st2, o, {"over"})
      BY <2>1, <2>2, <2>3, <1>1, <1>7 DEF FreesAre
    <2> QED
      BY <2>2, <2>4, <1>3, <1>5 DEF st2
  <1> QED
    BY <1>2, <1>6, <1>7

\* The last job of a call has run: what is left to show.
LEMMA LastJobGood ==
    ASSUME Alone, NEW w, NEW st \in [Items -> Stages], NEW os \in [Ops -> Parts], Rep(w, st, os),
           w.jobs # <<>>, Head(w.jobs).at \in JobStages \ {"run"},
           NEW u \in World, SameQueue(u, w), SameC(u, w), SameIds(u, w), NEW part \in Parts \ {"idle", "over"},
           NEW o, o = Head(w.jobs).op, NEW it, it = Head(w.jobs).item,
           os[o] \notin OwnJobs,
           \/ part = os[o] /\ u.jobs = Tail(w.jobs)
           \/ part \in OwnJobs /\ u.jobs = Append(Tail(w.jobs), Job(o, part, NoItem)),
           \A p \in Ops \ {o} : SameOp(u, w, p),
           Filed([st EXCEPT ![it] = "over"], o) = Filed(st, o),
           PartInv(u, [st EXCEPT ![it] = "over"], part, o)
    PROVE  Good(u)
  <1> DEFINE st2 == [st EXCEPT ![it] = "over"]
             os2 == [os EXCEPT ![o] = part]
  <1>1. st2 \in [Items -> Stages] /\ os2 \in [Ops -> Parts] /\ Lists(u, st2, os2) /\ HeapInv(u, st2)
    <2>1. JobOver(u, st, os, it, o, part)
      BY LastJob
    <2> QED
      BY <2>1 DEF JobOver
  <1>2. w \in World /\ Core(w, st, os) /\ JobsInv(w, st, os)
    BY DEF Rep, Loose
  <1>3. Head(w.jobs) \in JobSet(st, os)
    BY <1>2, TakeJob
  <1>4. o \in Ops /\ it \in Items /\ it.op = o
    BY <1>3, JobIs
  <1>5. os2[o] = part /\ \A p \in Ops \ {o} : os2[p] = os[p]
    BY <1>4
  <1>6. OnlyOf(u, w, st2, st, os2, os, o)
    BY <1>4, <1>5 DEF OnlyOf
  <1>7. Busy(os, o)
    <2>1. st[it] \in JobStages \ {"run"}
      BY <1>3, JobIs
    <2>2. PartInv(w, st, os[o], o) /\ os[o] \in AllParts
      BY <1>2, <1>4 DEF Core, AllParts
    <2>3. 1 \in {1, 2}
      OBVIOUS
    <2>4. (\E k \in {1, 2} : it = M(o, k) \/ it = F(o, k)) \/ it = C(o)
      BY <1>4, ItemKinds
    <2>5. os[o] \in {"mallocs", "half", "frees", "call"}
      <3>1. CASE \E k \in {1, 2} : it = M(o, k) \/ it = F(o, k)
        <4>1. PICK k \in {1, 2} : it = M(o, k) \/ it = F(o, k)
          BY <3>1
        <4> QED
          BY <4>1, <2>1, <2>2, <1>4, StageSays DEF JobStages
      <3>2. CASE it = C(o)
        BY <3>2, <2>1, <2>2, <2>3, <1>4, StageSays DEF JobStages
      <3> QED
        BY <2>4, <3>1, <3>2
    <2> QED
      BY <2>5 DEF Busy
  <1>8. Busy(os2, o)
    BY <1>5 DEF Busy
  <1>9. Core(u, st2, os2)
    BY <1>2, <1>4, <1>5, <1>6, <1>7, <1>8, OneMoves
  <1> HIDE DEF st2, os2
  <1>10. Rep(u, st2, os2)
    BY <1>1, <1>9 DEF Rep, Loose, Lists
  <1> QED
    BY <1>1, <1>10 DEF Good

\* What is known when the oldest job carries a call.
Carried(w, st, os, it, o) ==
    /\ o \in Ops /\ it \in Items /\ it.op = o /\ st[it] = Head(w.jobs).at
    /\ Head(w.jobs).op = o /\ Head(w.jobs).item = it
    /\ PartInv(w, st, os[o], o) /\ os[o] \in AllParts /\ os[o] \in Parts
    /\ Started(w) \in World /\ Started(w).jobs = Tail(w.jobs)
    /\ SameQueue(Started(w), w) /\ SameC(Started(w), w) /\ SameIds(Started(w), w)
    /\ SameOps(Started(w), w)
    /\ \/ it.what = "malloc" /\ \E k \in {1, 2} : it = M(o, k)
       \/ it.what = "free" /\ \E k \in {1, 2} : it = F(o, k)
       \/ it.what = "call" /\ it = C(o)

LEMMA Carries ==
    ASSUME NEW w, NEW st, NEW os \in [Ops -> Parts], Rep(w, st, os),
           w.jobs # <<>>, Head(w.jobs).at \in JobStages
    PROVE  Carried(w, st, os, Head(w.jobs).item, Head(w.jobs).op)
  <1> DEFINE j == Head(w.jobs)
             it == j.item
             o == j.op
  <1>1. w \in World /\ JobsInv(w, st, os) /\ Core(w, st, os)
    BY DEF Rep, Loose
  <1>2. /\ Started(w) \in World /\ Started(w).jobs = Tail(w.jobs)
        /\ SameQueue(Started(w), w) /\ SameC(Started(w), w) /\ SameIds(Started(w), w)
        /\ SameOps(Started(w), w) /\ j \in JobSet(st, os)
    BY <1>1, TakeJob
  <1>3. o \in Ops /\ it \in Items /\ it.op = o /\ st[it] = j.at
    BY <1>2, JobIs
  <1>4. \/ it.what = "malloc" /\ \E k \in {1, 2} : it = M(o, k)
        \/ it.what = "free" /\ \E k \in {1, 2} : it = F(o, k)
        \/ it.what = "call" /\ it = C(o)
    <2> HIDE DEF it, o
    <2> QED
      BY <1>3, ItemKinds
  <1>5. PartInv(w, st, os[o], o) /\ os[o] \in Parts /\ os[o] \in AllParts
    BY <1>1, <1>3 DEF Core, AllParts
  <1> HIDE DEF it, o
  <1>6. Head(w.jobs).op = o /\ Head(w.jobs).item = it
    BY DEF it, o
  <1>7. Carried(w, st, os, it, o)
    BY <1>2, <1>3, <1>4, <1>5, <1>6 DEF Carried
  <1> QED
    BY <1>7 DEF it, o

\* The continuation of ccallThrowAsync.
LEMMA StepCcall ==
    ASSUME Alone, NEW w, NEW st \in [Items -> Stages], NEW os \in [Ops -> Parts], Rep(w, st, os),
           w.jobs # <<>>, Head(w.jobs).at = "ccall", NEW ok \in BOOLEAN
    PROVE  Good(CcallContinues(Started(w), Head(w.jobs), ok))
  <1> DEFINE j == Head(w.jobs)
             it == j.item
             o == j.op
             v == Started(w)
  <1>1. Carried(w, st, os, it, o)
    BY Carries DEF JobStages
  <1>2. /\ it.what = "malloc" => CcallContinues(v, j, ok) = Push(v, j.op, "buffer", it)
        /\ it.what = "free" => CcallContinues(v, j, ok) = Push(v, j.op, "all", it)
        /\ it.what = "call" => CcallContinues(v, j, ok) =
               Push(IF ok THEN v ELSE Throw(v, j.op, "errno"), j.op, "body", NoItem)
    BY DEF CcallContinues
  <1>3. Head(w.jobs).op = o /\ Head(w.jobs).item = it
    OBVIOUS
  <1> HIDE DEF v, it, o
  <1>4. CASE it.what = "malloc"
    <2>1. PICK k \in {1, 2} : it = M(o, k)
      BY <1>1, <1>4 DEF Carried
    <2>2. st[it] = "ccall" /\ it.op = o
      BY <1>1 DEF Carried
    <2>3. os[o] = "mallocs"
      BY <1>1, <2>1, <2>2, StageSays DEF Carried
    <2>4. "buffer" \in MallocStages(o) /\ "buffer" \in JobStages \ {"run"} /\ "ccall" \in JobStages \ {"run", "buffer"}
      BY DEF MallocStages, JobStages
    <2>5. Good(Push(Started(w), Head(w.jobs).op, "buffer", Head(w.jobs).item))
      BY <1>4, <2>2, <2>3, <2>4, <1>3, GoesOn
    <2> QED
      BY <1>2, <1>4, <2>5 DEF v, it
  <1>5. CASE it.what = "free"
    <2>1. "all" \in JobStages \ {"run"} /\ "ccall" \in JobStages \ {"run", "all"}
      BY DEF JobStages
    <2>2. Good(Push(Started(w), Head(w.jobs).op, "all", Head(w.jobs).item))
      BY <1>3, <1>5, <2>1, GoesOn
    <2> QED
      BY <1>2, <1>5, <2>2 DEF v, it
  <1>6. CASE it.what = "call"
    <2> DEFINE t == IF ok THEN v ELSE Throw(v, o, "errno")
               u == Push(t, o, "body", NoItem)
               st2 == [st EXCEPT ![it] = "over"]
    <2>1. /\ v \in World /\ v.jobs = Tail(w.jobs) /\ SameQueue(v, w) /\ SameC(v, w) /\ SameIds(v, w)
          /\ SameOps(v, w) /\ o \in Ops /\ it = C(o) /\ it \in Items /\ st[it] = "ccall"
          /\ PartInv(w, st, os[o], o) /\ os[o] \in AllParts
      <3>1. it.what # "malloc" /\ it.what # "free"
        BY <1>6
      <3> QED
        BY <1>1, <3>1 DEF Carried, v
    <2>2. os[o] = "call" /\ Calling(w, st, o)
      <3>1. 1 \in {1, 2}
        OBVIOUS
      <3>2. os[o] = "call"
        BY <2>1, <3>1, StageSays
      <3> QED
        BY <2>1, <3>2 DEF PartInv
    <2>3. /\ t \in World /\ t.jobs = v.jobs /\ SameQueue(t, v) /\ SameC(t, v) /\ SameIds(t, v)
          /\ t.pc = v.pc /\ t.used = v.used /\ t.waiting = v.waiting /\ t.state[o] \in {v.state[o], "failing"}
          /\ \A p \in Ops \ {o} : t.state[p] = v.state[p]
      <3>1. CASE ok
        BY <3>1, <2>1 DEF SameQueue, SameC, SameIds
      <3>2. CASE ~ok
        <4>1. Thrown(t, v, o)
          BY <3>2, <2>1, ThrowIs
        <4> HIDE DEF t
        <4> QED
          BY <4>1 DEF Thrown
      <3> QED
        BY <3>1, <3>2
    <2> HIDE DEF t
    <2>4. Pushed(u, t, Job(o, "body", NoItem))
      BY <2>1, <2>3, PushIs DEF OwnJobs
    <2> HIDE DEF u
    <2>5. /\ u \in World /\ u.jobs = Append(Tail(w.jobs), Job(o, "body", NoItem))
          /\ SameQueue(u, w) /\ SameC(u, w) /\ SameIds(u, w)
          /\ u.pc = w.pc /\ u.used = w.used /\ u.waiting = w.waiting /\ u.state[o] \in {w.state[o], "failing"}
          /\ \A p \in Ops \ {o} : u.state[p] = w.state[p]
      BY <2>1, <2>3, <2>4 DEF Pushed, SameQueue, SameC, SameIds, SameOps
    <2>6. \A p \in Ops \ {o} : SameOp(u, w, p)
      BY <2>5 DEF SameOp, SameIds
    <2>7. st2[C(o)] = "over" /\ \A k \in {1, 2} : st2[M(o, k)] = st[M(o, k)] /\ st2[F(o, k)] = st[F(o, k)]
      BY <2>1, ItemFacts
    <2>8. Filed(st2, o) = Filed(st, o)
      BY <2>7 DEF Filed
    <2>9. PartInv(u, st2, "body", o)
      <3>1. MallocsAre(st2, o, {"over"}) /\ FreesAre(st2, o, {"none"}) /\ CallIs(st2, o, {"over"})
        BY <2>2, <2>7 DEF Calling, MallocsAre, FreesAre, CallIs
      <3>2. Used(u, o, Buffers(o))
        BY <2>2, <2>5 DEF Calling, Used, SameIds
      <3>3. AfterCall(u, st2, o)
        BY <2>2, <2>5, <3>1, <3>2 DEF Calling, AfterCall
      <3> QED
        BY <3>3 DEF PartInv
    <2> HIDE DEF st2
    <2>10. "body" \in Parts \ {"idle", "over"} /\ "body" \in OwnJobs /\ os[o] \notin OwnJobs
           /\ "ccall" \in JobStages \ {"run"}
      BY <2>2 DEF Parts, OwnJobs, JobStages
    <2>11. Good(u)
      BY <1>3, <2>5, <2>6, <2>8, <2>9, <2>10, LastJobGood DEF st2
    <2> QED
      BY <1>2, <1>3, <1>6, <2>11 DEF u, t, it, v, o
  <1> QED
    BY <1>1, <1>4, <1>5, <1>6 DEF Carried

\* A pointer is filed under the id of its operation.
FiledIn(v, w, o, k) ==
    /\ v.memAddrs = [w.memAddrs EXCEPT ![w.id[o]] = Append(@, <<o, k>>)]
    /\ v.nextId = w.nextId /\ v.freeIds = w.freeIds /\ v.objIds = w.objIds /\ v.id = w.id

LEMMA FilesPointer ==
    ASSUME NEW w \in World, NEW v, NEW st, NEW st2, NEW os, NEW os2, NEW o \in Ops, NEW k \in {1, 2},
           Core(w, st, os), OnlyOf(v, w, st2, st, os2, os, o), FiledIn(v, w, o, k),
           Busy(os, o), Busy(os2, o), PartInv(v, st2, os2[o], o),
           <<o, k>> \notin Filed(st, o), Filed(st2, o) = Filed(st, o) \cup {<<o, k>>}
    PROVE  Core(v, st2, os2)
  <1> DEFINE i == w.id[o]
  <1>1. \A p \in Ops : PartInv(v, st2, os2[p], p) /\ (p # o => Filed(st2, p) = Filed(st, p))
    BY OthersSame DEF Core
  <1>2. \A p \in Ops : Busy(os2, p) <=> Busy(os, p)
    BY DEF Busy, OnlyOf
  <1>3. /\ i \in Ids /\ w.memAddrs[i] # NoId /\ w.objIds[i] = <<>>
        /\ Once(w.memAddrs[i]) /\ ToSet(w.memAddrs[i]) = Filed(st, o)
    BY DEF Core, MemInv
  <1>4. w.memAddrs \in [Ids -> Seq(Ops \X Nat) \cup {NoId}] /\ NoId \notin Seq(Ops \X Nat)
    BY HooksAssumption DEF World
  <1>5. w.memAddrs[i] \in Seq(Ops \X Nat) /\ <<o, k>> \in Ops \X Nat
    BY <1>3, <1>4
  <1> DEFINE new == Append(w.memAddrs[i], <<o, k>>)
  <1>6. new \in Seq(Ops \X Nat) /\ Once(new) /\ ToSet(new) = Filed(st, o) \cup {<<o, k>>}
    BY <1>3, <1>5, OnceAppend
  <1>7. v.memAddrs[i] = new /\ \A l \in Ids \ {i} : v.memAddrs[l] = w.memAddrs[l]
    BY <1>3, <1>4 DEF FiledIn
  <1>8. new # NoId
    BY <1>4, <1>6
  <1> HIDE DEF new
  <1>9. MemInv(v, st2, os2)
    <2> SUFFICES ASSUME NEW p \in Ops, Busy(os, p)
                 PROVE  /\ w.id[p] \in Ids /\ v.memAddrs[w.id[p]] # NoId /\ w.objIds[w.id[p]] = <<>>
                        /\ Once(v.memAddrs[w.id[p]]) /\ ToSet(v.memAddrs[w.id[p]]) = Filed(st2, p)
      BY <1>2 DEF MemInv, FiledIn
    <2>1. CASE p = o
      BY <2>1, <1>3, <1>6, <1>7, <1>8
    <2>2. CASE p # o
      <3>1. w.id[p] # i
        BY <2>2 DEF Core, IdInv
      <3>2. /\ w.id[p] \in Ids /\ w.memAddrs[w.id[p]] # NoId /\ w.objIds[w.id[p]] = <<>>
            /\ Once(w.memAddrs[w.id[p]]) /\ ToSet(w.memAddrs[w.id[p]]) = Filed(st, p)
        BY DEF Core, MemInv
      <3> QED
        BY <2>2, <3>1, <3>2, <1>1, <1>7
    <2> QED
      BY <2>1, <2>2
  <1>10. IdInv(v, os2)
    <2>1. \A l \in Ids : v.memAddrs[l] # NoId => w.memAddrs[l] # NoId \/ l = i
      BY <1>7
    <2>2. IdInv(w, os)
      BY DEF Core
    <2> HIDE DEF i
    <2>3. \A l \in Ids : v.memAddrs[l] # NoId \/ v.objIds[l] # NoId => \E p \in Ops : Busy(os2, p) /\ v.id[p] = l
      BY <2>1, <2>2, <1>2 DEF IdInv, FiledIn, i
    <2> QED
      BY <2>2, <2>3, <1>2 DEF IdInv, FiledIn
  <1> QED
    BY <1>1, <1>9, <1>10 DEF Core

\* A job of useBuffer, usePath or usePaths.
LEMMA MallocJob ==
    ASSUME Alone, NEW w, NEW st \in [Items -> Stages], NEW os \in [Ops -> Parts], NEW it, NEW o,
           Carried(w, st, os, it, o), Head(w.jobs).at \in {"buffer", "path", "element"}
    PROVE  \E k \in {1, 2} : /\ it = M(o, k) /\ it.ptr = <<o, k>> /\ k <= Buffers(o)
                             /\ os[o] = "mallocs" /\ Mallocing(w, st, o) /\ st[it] \in MallocStages(o)
  <1>1. /\ o \in Ops /\ it \in Items /\ it.op = o /\ st[it] \in {"buffer", "path", "element"}
        /\ PartInv(w, st, os[o], o) /\ os[o] \in AllParts
    BY DEF Carried
  <1>2. PICK k \in {1, 2} : it = M(o, k)
    <2>1. \A k \in {1, 2} : /\ st[F(o, k)] \notin {"buffer", "path", "element"}
                            /\ st[C(o)] \notin {"buffer", "path", "element"}
      BY <1>1, StageSays
    <2>2. 1 \in {1, 2}
      OBVIOUS
    <2>3. (\E k \in {1, 2} : it = M(o, k) \/ it = F(o, k)) \/ it = C(o)
      BY <1>1, ItemKinds
    <2> QED
      BY <2>1, <2>2, <2>3, <1>1
  <1>3. os[o] = "mallocs" /\ k <= Buffers(o) /\ it.ptr = <<o, k>>
    <2>1. it.ptr = <<o, k>>
      BY <1>1, <1>2, ItemFacts
    <2>2. os[o] = "mallocs" /\ k <= Buffers(o)
      BY <1>1, <1>2, StageSays
    <2> QED
      BY <2>1, <2>2
  <1>4. Mallocing(w, st, o)
    BY <1>1, <1>3 DEF PartInv
  <1>5. st[it] \in MallocStages(o)
    BY <1>2, <1>3, <1>4 DEF Mallocing, MallocsAre
  <1> QED
    BY <1>2, <1>3, <1>4, <1>5

\* The continuation of the await in useBuffer.
LEMMA StepBuffer ==
    ASSUME Alone, NEW w, NEW st \in [Items -> Stages], NEW os \in [Ops -> Parts], Rep(w, st, os),
           w.jobs # <<>>, Head(w.jobs).at = "buffer"
    PROVE  Good(BufferReady(Started(w), Head(w.jobs).op, Head(w.jobs).item))
  <1> DEFINE it == Head(w.jobs).item
             o  == Head(w.jobs).op
             v  == Started(w)
             i  == w.id[o]
  <1>1. Carried(w, st, os, it, o)
    BY Carries DEF JobStages
  <1>2. Head(w.jobs).op = o /\ Head(w.jobs).item = it
    OBVIOUS
  <1> HIDE DEF v, it, o
  <1>3. /\ v \in World /\ v.jobs = Tail(w.jobs) /\ SameQueue(v, w) /\ SameC(v, w) /\ SameIds(v, w)
        /\ SameOps(v, w) /\ o \in Ops /\ it \in Items /\ it.op = o /\ st[it] = "buffer"
        /\ PartInv(w, st, os[o], o) /\ os[o] \in Parts /\ os[o] \in AllParts
    BY <1>1 DEF Carried, v
  <1>4. PICK k \in {1, 2} : /\ it = M(o, k) /\ it.ptr = <<o, k>> /\ k <= Buffers(o)
                            /\ os[o] = "mallocs" /\ Mallocing(w, st, o) /\ st[it] \in MallocStages(o)
    BY <1>1, MallocJob
  <1>5. it = M(o, k) /\ os[o] = "mallocs" /\ k <= Buffers(o) /\ it.ptr = <<o, k>>
    BY <1>4
  <1>6. Mallocing(w, st, o)
    BY <1>4
  <1>7. w \in World /\ Core(w, st, os)
    BY DEF Rep, Loose
  <1>8. Busy(os, o)
    BY <1>5 DEF Busy
  <1>9. i \in Ids /\ i # NoId /\ w.memAddrs[i] # NoId
    BY <1>3, <1>7, <1>8, HooksAssumption DEF Core, MemInv, Ids
  <1>10. v.used[o][k] = i
    <2>1. k \in 1 .. Buffers(o)
      BY <1>5
    <2> QED
      BY <2>1, <1>3, <1>6 DEF Mallocing, Used, SameOps
  <1> DEFINE x == [v EXCEPT !.memAddrs[i] = Append(@, <<o, k>>), !.hookId = i]
  <1>11. BufferReady(v, o, it) = AfterBuffer(x, o, it)
    <2>1. FileUnder(v, o, it.ptr[2]) = i
      BY <1>5, <1>10 DEF FileUnder
    <2>2. v.memAddrs[i] # NoId
      BY <1>3, <1>9 DEF SameIds
    <2> HIDE DEF i
    <2> QED
      BY <2>1, <2>2, <1>5, <1>9 DEF BufferReady
  <1>12. /\ x \in World /\ x.jobs = Tail(w.jobs) /\ SameQueue(x, w) /\ SameC(x, w) /\ SameOps(x, w)
         /\ FiledIn(x, w, o, k)
    <2>1. v.memAddrs \in [Ids -> Seq(Ops \X Nat) \cup {NoId}] /\ v.memAddrs[i] # NoId
          /\ v.memAddrs = w.memAddrs
      BY <1>3, <1>9 DEF World, SameIds
    <2>2. Append(v.memAddrs[i], <<o, k>>) \in Seq(Ops \X Nat)
      BY <2>1, <1>3, <1>9
    <2> DEFINE m == [v.memAddrs EXCEPT ![i] = Append(@, <<o, k>>)]
               y == [v EXCEPT !.memAddrs = m, !.hookId = i]
    <2>3. m \in [Ids -> Seq(Ops \X Nat) \cup {NoId}]
      BY <2>1, <2>2
    <2>4. m = [w.memAddrs EXCEPT ![w.id[o]] = Append(@, <<o, k>>)]
      BY <2>1
    <2>5. x = y
      OBVIOUS
    <2> HIDE DEF m, x
    <2>6. y \in World
      BY <2>3, <1>3, <1>9, ZenonT(60) DEF World
    <2>7. /\ y.jobs = v.jobs /\ SameQueue(y, v) /\ SameC(y, v) /\ SameOps(y, v)
          /\ y.memAddrs = m /\ y.nextId = v.nextId /\ y.freeIds = v.freeIds /\ y.objIds = v.objIds /\ y.id = v.id
      BY <1>3 DEF World, SameQueue, SameC, SameOps
    <2> HIDE DEF y
    <2> QED
      BY <2>4, <2>5, <2>6, <2>7, <1>3 DEF SameQueue, SameC, SameOps, SameIds, FiledIn
  <1> HIDE DEF x, i
  <1>13. <<o, k>> \notin Filed(st, o)
    BY <1>3, <1>4 DEF Filed
  <1>14. CASE Kind[o] = "buffer"
    <2> DEFINE u == Push(x, o, "body", NoItem)
               st2 == [st EXCEPT ![it] = "over"]
               os2 == [os EXCEPT ![o] = "body"]
    <2>1. Pushed(u, x, Job(o, "body", NoItem))
      BY <1>3, <1>12, PushIs DEF OwnJobs
    <2>2. AfterBuffer(x, o, it) = u
      BY <1>14 DEF AfterBuffer
    <2> HIDE DEF u
    <2>3. /\ u \in World /\ u.jobs = Append(Tail(w.jobs), Job(o, "body", NoItem))
          /\ SameQueue(u, w) /\ SameC(u, w) /\ SameOps(u, w) /\ FiledIn(u, w, o, k)
      BY <2>1, <1>12 DEF Pushed, SameQueue, SameC, SameIds, SameOps, FiledIn
    <2>4. "body" \in Parts /\ "body" \in OwnJobs /\ os[o] \notin OwnJobs /\ "buffer" \in JobStages \ {"run"}
      BY <1>5 DEF Parts, OwnJobs, JobStages
    <2>5. st2 \in [Items -> Stages] /\ os2 \in [Ops -> Parts] /\ Lists(u, st2, os2) /\ HeapInv(u, st2)
      <3>1. JobOver(u, st, os, it, o, "body")
        BY <2>3, <2>4, <1>2, LastJob
      <3> QED
        BY <3>1 DEF JobOver
    <2>6. os2[o] = "body" /\ \A p \in Ops \ {o} : os2[p] = os[p]
      BY <1>3
    <2>7. st2[M(o, k)] = "over" /\ \A l \in {1, 2} : l # k => st2[M(o, l)] = st[M(o, l)]
      BY <1>3, <1>4, ItemFacts
    <2>8. Filed(st2, o) = Filed(st, o) \cup {<<o, k>>}
      BY <2>7 DEF Filed
    <2>9. OnlyOf(u, w, st2, st, os2, os, o)
      BY <2>3, <2>6, <1>3 DEF OnlyOf, SameOp, SameOps, FiledIn
    <2>10. PartInv(u, st2, os2[o], o)
      <3>1. /\ CallIs(st2, o, {"none"}) /\ FreesAre(st2, o, {"none"}) /\ MallocsAre(st2, o, {"over"})
        BY <1>3, <1>4, <1>6, <1>14, OneMallocOver, ZenonT(60)
      <3>2. BeforeCall(u, st2, o)
        BY <3>1, <2>3, <1>6, <1>14 DEF Mallocing, BeforeCall, Used, SameOps, FiledIn
      <3> QED
        BY <3>2, <2>6 DEF PartInv
    <2>11. Busy(os2, o)
      BY <2>6 DEF Busy
    <2> HIDE DEF st2, os2
    <2>12. Core(u, st2, os2)
      <3>1. FiledIn(u, w, o, k) /\ o \in Ops
        BY <2>3, <1>3
      <3> QED
        BY <3>1, <2>8, <2>9, <2>10, <2>11, <1>7, <1>8, <1>13, FilesPointer, ZenonT(60)
    <2>13. Rep(u, st2, os2)
      BY <2>3, <2>5, <2>12 DEF Rep, Loose, Lists
    <2>14. Good(u)
      BY <2>5, <2>13 DEF Good
    <2> QED
      BY <2>2, <2>14, <1>11 DEF v, it, o
  <1>15. CASE Kind[o] # "buffer"
    <2> DEFINE u == Push(x, o, "path", it)
               st2 == [st EXCEPT ![it] = "path"]
    <2>0. "path" \in JobStages \ {"run"} /\ "buffer" \in JobStages \ {"run", "path"}
      BY DEF JobStages
    <2>1. Pushed(u, x, Job(o, "path", it))
      BY <1>3, <1>12, <2>0, PushIs
    <2>2. AfterBuffer(x, o, it) = u
      BY <1>15 DEF AfterBuffer
    <2> HIDE DEF u
    <2>3. /\ u \in World /\ u.jobs = Append(Tail(w.jobs), Job(o, "path", it))
          /\ SameQueue(u, w) /\ SameC(u, w) /\ SameOps(u, w) /\ FiledIn(u, w, o, k)
      BY <2>1, <1>12 DEF Pushed, SameQueue, SameC, SameIds, SameOps, FiledIn
    <2>5. st2 \in [Items -> Stages] /\ Lists(u, st2, os) /\ HeapInv(u, st2)
      BY <2>0, <2>3, <1>2, NextJob
    <2>7. st2[M(o, k)] = "path" /\ \A l \in {1, 2} : l # k => st2[M(o, l)] = st[M(o, l)]
      BY <1>3, <1>4, ItemFacts
    <2>8. Filed(st2, o) = Filed(st, o) \cup {<<o, k>>}
      BY <2>7 DEF Filed
    <2>9. SameOp(u, w, o) /\ \A p \in Ops : SameOp(u, w, p)
      BY <2>3, <1>3 DEF SameOp, SameOps, FiledIn
    <2>10. OnlyOf(u, w, st2, st, os, os, o)
      BY <2>9, <1>3 DEF OnlyOf
    <2>11. PartInv(u, st2, os[o], o)
      <3>1. Kind[o] \in {"path", "bothPaths"}
        BY <1>3, <1>5, <1>15, KindFacts
      <3>2. "path" \in MallocStages(o) \ {"over"}
        BY <3>1 DEF MallocStages
      <3>3. st[M(o, k)] \notin {"none", "over"}
        BY <1>3, <1>4
      <3>4. Mallocing(u, [st EXCEPT ![M(o, k)] = "path"], o)
        BY <3>2, <3>3, <2>9, <1>3, <1>6, MallocGoes
      <3> QED
        BY <3>4, <1>4, <1>5 DEF PartInv
    <2>12. Core(u, st2, os)
      BY <2>3, <2>8, <2>10, <2>11, <1>3, <1>7, <1>8, <1>13, FilesPointer, ZenonT(60)
    <2> HIDE DEF st2
    <2>13. Rep(u, st2, os)
      BY <2>3, <2>5, <2>12 DEF Rep, Loose, Lists
    <2>14. Good(u)
      BY <2>5, <2>13 DEF Good
    <2> QED
      BY <2>2, <2>14, <1>11 DEF v, it, o
  <1> QED
    BY <1>14, <1>15

\* The continuation of the await in usePath.
LEMMA StepPath ==
    ASSUME Alone, NEW w, NEW st \in [Items -> Stages], NEW os \in [Ops -> Parts], Rep(w, st, os),
           w.jobs # <<>>, Head(w.jobs).at = "path"
    PROVE  Good(IF Kind[Head(w.jobs).op] = "bothPaths"
                THEN Push(Started(w), Head(w.jobs).op, "element", Head(w.jobs).item)
                ELSE Push(Started(w), Head(w.jobs).op, "body", NoItem))
  <1> DEFINE it == Head(w.jobs).item
             o  == Head(w.jobs).op
             v  == Started(w)
  <1>1. Carried(w, st, os, it, o)
    BY Carries DEF JobStages
  <1>2. Head(w.jobs).op = o /\ Head(w.jobs).item = it
    OBVIOUS
  <1> HIDE DEF v, it, o
  <1>3. /\ v \in World /\ v.jobs = Tail(w.jobs) /\ SameQueue(v, w) /\ SameC(v, w) /\ SameIds(v, w)
        /\ SameOps(v, w) /\ o \in Ops /\ it.op = o /\ st[it] = "path"
    BY <1>1 DEF Carried, v
  <1>4. PICK k \in {1, 2} : /\ it = M(o, k) /\ it.ptr = <<o, k>> /\ k <= Buffers(o)
                            /\ os[o] = "mallocs" /\ Mallocing(w, st, o) /\ st[it] \in MallocStages(o)
    BY <1>1, MallocJob
  <1>5. CASE Kind[o] = "bothPaths"
    <2>1. it.what = "malloc"
      BY <1>3, <1>4, ItemFacts
    <2>2. "element" \in MallocStages(o) /\ "element" \in JobStages \ {"run"} /\ "path" \in JobStages \ {"run", "element"}
      BY <1>5 DEF MallocStages, JobStages
    <2>3. Good(Push(Started(w), Head(w.jobs).op, "element", Head(w.jobs).item))
      BY <2>1, <2>2, <1>2, <1>3, <1>4, GoesOn
    <2> QED
      BY <2>3, <1>5 DEF o
  <1>6. CASE Kind[o] # "bothPaths"
    <2> DEFINE u == Push(v, o, "body", NoItem)
               st2 == [st EXCEPT ![it] = "over"]
    <2>1. Pushed(u, v, Job(o, "body", NoItem))
      BY <1>3, PushIs DEF OwnJobs
    <2> HIDE DEF u
    <2>2. /\ u \in World /\ u.jobs = Append(Tail(w.jobs), Job(o, "body", NoItem))
          /\ SameQueue(u, w) /\ SameC(u, w) /\ SameIds(u, w) /\ SameOps(u, w)
      BY <2>1, <1>3 DEF Pushed, SameQueue, SameC, SameIds, SameOps
    <2>3. \A p \in Ops \ {o} : SameOp(u, w, p)
      BY <2>2 DEF SameOp, SameIds, SameOps
    <2>4. st2[M(o, k)] = "over" /\ \A l \in {1, 2} : l # k => st2[M(o, l)] = st[M(o, l)]
      BY <1>3, <1>4, ItemFacts
    <2>5. Filed(st2, o) = Filed(st, o)
      BY <2>4, <1>3, <1>4 DEF Filed
    <2>6. PartInv(u, st2, "body", o)
      <3>1. /\ CallIs(st2, o, {"none"}) /\ FreesAre(st2, o, {"none"}) /\ MallocsAre(st2, o, {"over"})
        BY <1>3, <1>4, <1>6, OneMallocOver, ZenonT(60)
      <3>2. BeforeCall(u, st2, o)
        BY <3>1, <2>2, <1>4, <1>6 DEF Mallocing, BeforeCall, Used, SameOps, SameIds
      <3> QED
        BY <3>2 DEF PartInv
    <2> HIDE DEF st2
    <2>7. "body" \in Parts \ {"idle", "over"} /\ "body" \in OwnJobs /\ os[o] \notin OwnJobs
          /\ "path" \in JobStages \ {"run"}
      BY <1>4 DEF Parts, OwnJobs, JobStages
    <2>8. Good(u)
      BY <1>2, <2>2, <2>3, <2>5, <2>6, <2>7, LastJobGood DEF st2
    <2> QED
      BY <2>8, <1>6 DEF u, v, o
  <1> QED
    BY <1>5, <1>6

\* u is w once one promise of o is settled.
Settled(u, w, o, then) ==
    /\ u \in World /\ SameQueue(u, w) /\ SameC(u, w) /\ SameIds(u, w)
    /\ u.state = w.state /\ u.pc = w.pc /\ u.used = w.used
    /\ u.waiting[o] = w.waiting[o] - 1 /\ \A p \in Ops \ {o} : u.waiting[p] = w.waiting[p]
    /\ w.waiting[o] = 1 => u.jobs = Append(w.jobs, Job(o, then, NoItem))
    /\ w.waiting[o] # 1 => u.jobs = w.jobs

LEMMA OneOfAllIs ==
    ASSUME NEW w \in World, NEW o \in Ops, NEW then \in OwnJobs, w.waiting[o] # 0,
           then = "body" => w.state[o] = "busy"
    PROVE  Settled(OneOfAll(w, o, then), w, o, then)
  <1>1. w.waiting \in [Ops -> 0 .. 2] /\ w.waiting[o] \in {1, 2}
    BY DEF World
  <1> DEFINE n == [w.waiting EXCEPT ![o] = @ - 1]
             v == [w EXCEPT !.waiting = n]
  <1>2. n \in [Ops -> 0 .. 2] /\ n[o] = w.waiting[o] - 1 /\ \A p \in Ops \ {o} : n[p] = w.waiting[p]
    BY <1>1
  <1>3. OneOfAll(w, o, then) = IF n[o] = 0 THEN Push(v, o, then, NoItem) ELSE v
    <2>1. ~(w.waiting[o] = 0 \/ (w.state[o] = "failing" /\ then = "body"))
      BY <1>1
    <2>2. [w EXCEPT !.waiting[o] = IF @ = 0 \/ (w.state[o] = "failing" /\ then = "body") THEN 0 ELSE @ - 1] = v
      BY <2>1
    <2>3. v.waiting = n /\ w.waiting[o] > 0
      BY <1>1 DEF World
    <2> HIDE DEF n, v
    <2> QED
      BY <2>2, <2>3 DEF OneOfAll
  <1> HIDE DEF n
  <1>4. v \in World
    BY <1>2, ZenonT(60) DEF World
  <1>5. /\ v.jobs = w.jobs /\ SameQueue(v, w) /\ SameC(v, w) /\ SameIds(v, w)
        /\ v.state = w.state /\ v.pc = w.pc /\ v.used = w.used /\ v.waiting = n
    BY DEF World, SameQueue, SameC, SameIds
  <1> HIDE DEF v
  <1>6. CASE w.waiting[o] = 1
    <2> DEFINE u == Push(v, o, then, NoItem)
    <2>1. Pushed(u, v, Job(o, then, NoItem))
      BY <1>4, PushIs
    <2>2. OneOfAll(w, o, then) = u
      BY <1>2, <1>3, <1>6
    <2> HIDE DEF u
    <2>3. Settled(u, w, o, then)
      BY <2>1, <1>2, <1>5, <1>6 DEF Pushed, Settled, SameQueue, SameC, SameIds, SameOps
    <2> QED
      BY <2>2, <2>3
  <1>7. CASE w.waiting[o] = 2
    <2>1. OneOfAll(w, o, then) = v
      BY <1>2, <1>3, <1>7
    <2> QED
      BY <2>1, <1>2, <1>4, <1>5, <1>7 DEF Settled
  <1> QED
    BY <1>1, <1>6, <1>7

\* One of the two promises of usePaths is resolved.
LEMMA StepElement ==
    ASSUME Alone, NEW w, NEW st \in [Items -> Stages], NEW os \in [Ops -> Parts], Rep(w, st, os),
           w.jobs # <<>>, Head(w.jobs).at = "element"
    PROVE  Good(OneOfAll(Started(w), Head(w.jobs).op, "body"))
  <1> DEFINE it == Head(w.jobs).item
             o  == Head(w.jobs).op
             v  == Started(w)
             u  == OneOfAll(v, o, "body")
             st2 == [st EXCEPT ![it] = "over"]
  <1>1. Carried(w, st, os, it, o)
    BY Carries DEF JobStages
  <1>2. Head(w.jobs).op = o /\ Head(w.jobs).item = it
    OBVIOUS
  <1> HIDE DEF v, it, o
  <1>3. /\ v \in World /\ v.jobs = Tail(w.jobs) /\ SameQueue(v, w) /\ SameC(v, w) /\ SameIds(v, w)
        /\ SameOps(v, w) /\ o \in Ops /\ it.op = o /\ st[it] = "element"
    BY <1>1 DEF Carried, v
  <1>4. PICK k \in {1, 2} : /\ it = M(o, k) /\ it.ptr = <<o, k>> /\ k <= Buffers(o)
                            /\ os[o] = "mallocs" /\ Mallocing(w, st, o) /\ st[it] \in MallocStages(o)
    BY <1>1, MallocJob
  <1>5. Kind[o] = "bothPaths"
    BY <1>3, <1>4 DEF MallocStages
  <1>6. /\ CallIs(st2, o, {"none"}) /\ FreesAre(st2, o, {"none"})
        /\ MallocsLeft(st, o) \in {1, 2} /\ MallocsLeft(st2, o) = MallocsLeft(st, o) - 1
        /\ MallocsLeft(st, o) = 1 => MallocsAre(st2, o, {"over"})
        /\ MallocsAre(st2, o, MallocStages(o))
    BY <1>3, <1>4, <1>5, OneMallocOver, ZenonT(60)
  <1>7. w.state[o] = "busy" /\ w.waiting[o] = MallocsLeft(st, o) /\ w.pc[o] = 1
        /\ Buffers(o) > 0 /\ Used(w, o, Buffers(o))
    BY <1>4, <1>5 DEF Mallocing
  <1>8. Settled(u, v, o, "body")
    <2>1. v.state[o] = "busy" /\ v.waiting[o] # 0
      BY <1>3, <1>6, <1>7 DEF SameOps
    <2> QED
      BY <2>1, <1>3, OneOfAllIs DEF OwnJobs
  <1> HIDE DEF u
  <1>9. /\ u \in World /\ SameQueue(u, w) /\ SameC(u, w) /\ SameIds(u, w)
        /\ u.state = w.state /\ u.pc = w.pc /\ u.used = w.used
        /\ u.waiting[o] = MallocsLeft(st2, o) /\ \A p \in Ops \ {o} : u.waiting[p] = w.waiting[p]
        /\ MallocsLeft(st, o) = 1 => u.jobs = Append(Tail(w.jobs), Job(o, "body", NoItem))
        /\ MallocsLeft(st, o) # 1 => u.jobs = Tail(w.jobs)
    BY <1>3, <1>6, <1>7, <1>8 DEF Settled, SameQueue, SameC, SameIds, SameOps
  <1>10. \A p \in Ops \ {o} : SameOp(u, w, p)
    BY <1>9 DEF SameOp, SameIds
  <1>11. Filed(st2, o) = Filed(st, o)
    <2>1. st2[M(o, k)] = "over" /\ \A l \in {1, 2} : l # k => st2[M(o, l)] = st[M(o, l)]
      BY <1>3, <1>4, ItemFacts
    <2> QED
      BY <2>1, <1>3, <1>4 DEF Filed
  <1>12. "element" \in JobStages \ {"run"} /\ os[o] \notin OwnJobs /\ "body" \in OwnJobs
         /\ {"mallocs", "body"} \subseteq Parts \ {"idle", "over"}
    BY <1>4 DEF JobStages, OwnJobs, Parts
  <1>13. Used(u, o, Buffers(o))
    BY <1>7, <1>9 DEF Used, SameIds
  <1>14. CASE MallocsLeft(st, o) = 1
    <2>1. BeforeCall(u, st2, o)
      BY <1>6, <1>7, <1>9, <1>13, <1>14 DEF BeforeCall
    <2>2. PartInv(u, st2, "body", o)
      BY <2>1 DEF PartInv
    <2> HIDE DEF st2
    <2>3. /\ u \in World /\ SameQueue(u, w) /\ SameC(u, w) /\ SameIds(u, w)
          /\ u.jobs = Append(Tail(w.jobs), Job(o, "body", NoItem))
          /\ "body" \in OwnJobs /\ os[o] \notin OwnJobs /\ "body" \in Parts \ {"idle", "over"}
          /\ Head(w.jobs).at \in JobStages \ {"run"} /\ o = Head(w.jobs).op /\ it = Head(w.jobs).item
      BY <1>2, <1>9, <1>12, <1>14
    <2>4. Good(u)
      BY <2>2, <2>3, <1>10, <1>11, LastJobGood DEF st2
    <2> QED
      BY <2>4 DEF u, v, o
  <1>15. CASE MallocsLeft(st, o) = 2
    <2>1. Mallocing(u, st2, o)
      BY <1>5, <1>6, <1>7, <1>9, <1>13, <1>15 DEF Mallocing
    <2>2. PartInv(u, st2, "mallocs", o)
      BY <2>1 DEF PartInv
    <2> HIDE DEF st2
    <2>3. /\ u \in World /\ SameQueue(u, w) /\ SameC(u, w) /\ SameIds(u, w) /\ u.jobs = Tail(w.jobs)
          /\ "mallocs" = os[o] /\ os[o] \notin OwnJobs /\ "mallocs" \in Parts \ {"idle", "over"}
          /\ Head(w.jobs).at \in JobStages \ {"run"} /\ o = Head(w.jobs).op /\ it = Head(w.jobs).item
      BY <1>2, <1>4, <1>9, <1>12, <1>15
    <2>4. Good(u)
      BY <2>2, <2>3, <1>10, <1>11, LastJobGood DEF st2
    <2> QED
      BY <2>4 DEF u, v, o
  <1> QED
    BY <1>6, <1>14, <1>15

\* One of the promises of the frees is resolved.
LEMMA StepAll ==
    ASSUME Alone, NEW w, NEW st \in [Items -> Stages], NEW os \in [Ops -> Parts], Rep(w, st, os),
           w.jobs # <<>>, Head(w.jobs).at = "all"
    PROVE  Good(OneOfAll(Started(w), Head(w.jobs).op, "cleanup"))
  <1> DEFINE it == Head(w.jobs).item
             o  == Head(w.jobs).op
             v  == Started(w)
             u  == OneOfAll(v, o, "cleanup")
             st2 == [st EXCEPT ![it] = "over"]
  <1>1. Carried(w, st, os, it, o)
    BY Carries DEF JobStages
  <1>2. Head(w.jobs).op = o /\ Head(w.jobs).item = it
    OBVIOUS
  <1> HIDE DEF v, it, o
  <1>3. /\ v \in World /\ v.jobs = Tail(w.jobs) /\ SameQueue(v, w) /\ SameC(v, w) /\ SameIds(v, w)
        /\ SameOps(v, w) /\ o \in Ops /\ it \in Items /\ it.op = o /\ st[it] = "all"
        /\ PartInv(w, st, os[o], o) /\ os[o] \in AllParts
    BY <1>1 DEF Carried, v
  <1>4. PICK k \in {1, 2} : it = F(o, k)
    <2>1. \A k \in {1, 2} : st[M(o, k)] # "all" /\ st[C(o)] # "all"
      BY <1>3, StageSays
    <2>2. 1 \in {1, 2}
      OBVIOUS
    <2>3. (\E k \in {1, 2} : it = M(o, k) \/ it = F(o, k)) \/ it = C(o)
      BY <1>3, ItemKinds
    <2> QED
      BY <2>1, <2>2, <2>3, <1>3
  <1>5. os[o] = "frees" /\ Freeing(w, st, o)
    <2>1. os[o] = "frees"
      BY <1>3, <1>4, StageSays
    <2> QED
      BY <2>1, <1>3 DEF PartInv
  <1>6. /\ CallIs(st2, o, {"over"}) /\ MallocsAre(st2, o, {"over"})
        /\ FreesLeft(st, o) \in {1, 2} /\ FreesLeft(st2, o) = FreesLeft(st, o) - 1
        /\ FreesLeft(st, o) = 1 => FreesAre(st2, o, {"over"})
        /\ FreesAre(st2, o, {"queued", "run", "ccall", "all", "over"})
    BY <1>3, <1>4, <1>5, OneFreeOver, ZenonT(60)
  <1>7. w.state[o] \in {"busy", "failing"} /\ w.waiting[o] = FreesLeft(st, o) /\ Used(w, o, Buffers(o))
    BY <1>5 DEF Freeing
  <1>8. Settled(u, v, o, "cleanup")
    <2>1. v.waiting[o] # 0
      BY <1>3, <1>6, <1>7 DEF SameOps
    <2> QED
      BY <2>1, <1>3, OneOfAllIs DEF OwnJobs
  <1> HIDE DEF u
  <1>9. /\ u \in World /\ SameQueue(u, w) /\ SameC(u, w) /\ SameIds(u, w)
        /\ u.state = w.state /\ u.pc = w.pc /\ u.used = w.used
        /\ u.waiting[o] = FreesLeft(st2, o) /\ \A p \in Ops \ {o} : u.waiting[p] = w.waiting[p]
        /\ FreesLeft(st, o) = 1 => u.jobs = Append(Tail(w.jobs), Job(o, "cleanup", NoItem))
        /\ FreesLeft(st, o) # 1 => u.jobs = Tail(w.jobs)
    BY <1>3, <1>6, <1>7, <1>8 DEF Settled, SameQueue, SameC, SameIds, SameOps
  <1>10. \A p \in Ops \ {o} : SameOp(u, w, p)
    BY <1>9 DEF SameOp, SameIds
  <1>11. Filed(st2, o) = Filed(st, o)
    <2>1. \A l \in {1, 2} : st2[M(o, l)] = st[M(o, l)]
      BY <1>3, <1>4, ItemFacts
    <2> QED
      BY <2>1 DEF Filed
  <1>12. "all" \in JobStages \ {"run"} /\ os[o] \notin OwnJobs /\ "cleanup" \in OwnJobs
         /\ {"frees", "cleanup"} \subseteq Parts \ {"idle", "over"}
    BY <1>5 DEF JobStages, OwnJobs, Parts
  <1>13. Used(u, o, Buffers(o))
    BY <1>7, <1>9 DEF Used, SameIds
  <1>14. CASE FreesLeft(st, o) = 1
    <2>1. Freed(u, st2, o)
      BY <1>6, <1>9, <1>13, <1>14 DEF Freed
    <2>2. PartInv(u, st2, "cleanup", o)
      BY <2>1, <1>7, <1>9 DEF PartInv
    <2> HIDE DEF st2
    <2>3. /\ u \in World /\ SameQueue(u, w) /\ SameC(u, w) /\ SameIds(u, w)
          /\ u.jobs = Append(Tail(w.jobs), Job(o, "cleanup", NoItem))
          /\ "cleanup" \in OwnJobs /\ os[o] \notin OwnJobs /\ "cleanup" \in Parts \ {"idle", "over"}
          /\ Head(w.jobs).at \in JobStages \ {"run"} /\ o = Head(w.jobs).op /\ it = Head(w.jobs).item
      BY <1>2, <1>9, <1>12, <1>14
    <2>4. Good(u)
      BY <2>2, <2>3, <1>10, <1>11, LastJobGood DEF st2
    <2> QED
      BY <2>4 DEF u, v, o
  <1>15. CASE FreesLeft(st, o) = 2
    <2>1. Freeing(u, st2, o)
      BY <1>6, <1>7, <1>9, <1>13, <1>15 DEF Freeing
    <2>2. PartInv(u, st2, "frees", o)
      BY <2>1 DEF PartInv
    <2> HIDE DEF st2
    <2>3. /\ u \in World /\ SameQueue(u, w) /\ SameC(u, w) /\ SameIds(u, w) /\ u.jobs = Tail(w.jobs)
          /\ "frees" = os[o] /\ os[o] \notin OwnJobs /\ "frees" \in Parts \ {"idle", "over"}
          /\ Head(w.jobs).at \in JobStages \ {"run"} /\ o = Head(w.jobs).op /\ it = Head(w.jobs).item
      BY <1>2, <1>5, <1>9, <1>12, <1>15
    <2>4. Good(u)
      BY <2>2, <2>3, <1>10, <1>11, LastJobGood DEF st2
    <2> QED
      BY <2>4 DEF u, v, o
  <1> QED
    BY <1>6, <1>14, <1>15

-----------------------------------------------------------------------------
(* An operation runs its own code *)

\* The oldest job is the operation's own: it runs.
LEMMA TakeOwn ==
    ASSUME NEW w, NEW st \in [Items -> Stages], NEW os \in [Ops -> Parts], Rep(w, st, os),
           w.jobs # <<>>, Head(w.jobs).at \in OwnJobs, NEW o, o = Head(w.jobs).op
    PROVE  /\ o \in Ops /\ os[o] = Head(w.jobs).at /\ PartInv(w, st, os[o], o) /\ Busy(os, o)
           /\ Rep(Started(w), st, [os EXCEPT ![o] = "here"])
           /\ SameIds(Started(w), w) /\ SameOps(Started(w), w)
  <1> DEFINE v == Started(w)
             os2 == [os EXCEPT ![o] = "here"]
  <1>1. w \in World /\ QueueInv(w, st) /\ JobsInv(w, st, os) /\ ActiveInv(w, st) /\ HeapInv(w, st)
        /\ Core(w, st, os)
    BY DEF Rep, Loose
  <1>2. /\ v \in World /\ v.jobs = Tail(w.jobs) /\ SameQueue(v, w) /\ SameC(v, w) /\ SameIds(v, w)
        /\ SameOps(v, w) /\ Head(w.jobs) \in JobSet(st, os) /\ Once(Tail(w.jobs))
        /\ ToSet(Tail(w.jobs)) = JobSet(st, os) \ {Head(w.jobs)}
    BY <1>1, TakeJob
  <1> HIDE DEF v
  <1>3. o \in Ops /\ os[o] = Head(w.jobs).at /\ Head(w.jobs) = Job(o, os[o], NoItem)
    BY <1>2, JobIs
  <1>4. PartInv(w, st, os[o], o) /\ Busy(os, o)
    BY <1>1, <1>3 DEF Core, Busy, OwnJobs
  <1>5. os \in [Ops -> AllParts] /\ "here" \in AllParts /\ "here" \notin OwnJobs /\ os[o] # "here"
    BY <1>3 DEF AllParts, OwnJobs
  <1>6. OpMoved(os2, st, os, o, "here")
    BY <1>3, <1>5, OpMoves
  <1>7. os2[o] = "here" /\ \A p \in Ops \ {o} : os2[p] = os[p]
    BY <1>3
  <1> HIDE DEF os2
  <1>8. JobsInv(v, st, os2)
    BY <1>2, <1>3, <1>5, <1>6 DEF OpMoved, JobsInv
  <1>9. SameOp(v, w, o) /\ \A p \in Ops : SameOp(v, w, p)
    BY <1>2, <1>3 DEF SameOp, SameOps, SameIds
  <1>10. OnlyOf(v, w, st, st, os2, os, o)
    BY <1>7, <1>9 DEF OnlyOf
  <1>11. PartInv(v, st, os2[o], o)
    <2>1. PartInv(w, st, "here", o)
      BY <1>3, <1>4 DEF PartInv, OwnJobs
    <2>2. SameCalls(st, st, o)
      BY DEF SameCalls
    <2> QED
      BY <2>1, <2>2, <1>3, <1>7, <1>9, PartFrame
  <1>12. Core(v, st, os2)
    <2>1. Busy(os2, o) /\ Filed(st, o) = Filed(st, o)
      BY <1>7 DEF Busy
    <2> QED
      BY <2>1, <1>1, <1>2, <1>3, <1>4, <1>10, <1>11, OneMoves
  <1>13. Rep(v, st, os2)
    BY <1>1, <1>2, <1>8, <1>12 DEF Rep, Loose, QueueInv, ActiveInv, HeapInv, SameQueue, SameC
  <1> QED
    BY <1>2, <1>3, <1>4, <1>13 DEF v, os2

\* Only o is between two of its parts.
Others(os, o) == \A p \in Ops \ {o} : os[p] \in Parts

\* It stops at an await whose promise is already settled.
LEMMA PushOwn ==
    ASSUME NEW w, NEW st \in [Items -> Stages], NEW os \in [Ops -> AllParts], Rep(w, st, os),
           NEW o \in Ops, os[o] = "here", Others(os, o), NEW part \in OwnJobs,
           NEW v \in World, v.jobs = Append(w.jobs, Job(o, part, NoItem)),
           SameQueue(v, w), SameC(v, w), SameIds(v, w), \A p \in Ops \ {o} : SameOp(v, w, p),
           PartInv(v, st, part, o)
    PROVE  Good(v)
  <1> DEFINE os2 == [os EXCEPT ![o] = part]
  <1>1. w \in World /\ QueueInv(w, st) /\ JobsInv(w, st, os) /\ ActiveInv(w, st) /\ HeapInv(w, st)
        /\ Core(w, st, os)
    BY DEF Rep, Loose
  <1>2. part \in Parts /\ part \in AllParts /\ part # "here" /\ "here" \notin OwnJobs
    BY DEF Parts, AllParts, OwnJobs
  <1>3. OpMoved(os2, st, os, o, part)
    BY <1>2, OpMoves
  <1>4. os2 \in [Ops -> Parts] /\ os2[o] = part /\ \A p \in Ops \ {o} : os2[p] = os[p]
    BY <1>2 DEF Others
  <1> HIDE DEF os2
  <1>5. Job(o, "here", NoItem) \notin JobSet(st, os)
    BY <1>2 DEF Job, JobSet, JobStages, OwnJobs
  <1>6. Job(o, part, NoItem) \in Jobs \ JobSet(st, os)
        /\ JobSet(st, os2) = JobSet(st, os) \cup {Job(o, part, NoItem)}
    BY <1>3, <1>5 DEF OpMoved
  <1>7. JobsInv(v, st, os2)
    <2>1. w.jobs \in Seq(Jobs) /\ Once(w.jobs) /\ ToSet(w.jobs) = JobSet(st, os)
      BY <1>1 DEF World, JobsInv
    <2> QED
      BY <2>1, <1>6, OnceAppend DEF JobsInv
  <1>8. OnlyOf(v, w, st, st, os2, os, o)
    BY <1>4 DEF OnlyOf
  <1>9. Busy(os, o) /\ Busy(os2, o) /\ Filed(st, o) = Filed(st, o)
    BY <1>4 DEF Busy, OwnJobs
  <1>10. Core(v, st, os2)
    BY <1>1, <1>4, <1>8, <1>9, OneMoves
  <1>11. Rep(v, st, os2)
    BY <1>1, <1>7, <1>10 DEF Rep, Loose, QueueInv, ActiveInv, HeapInv, SameQueue, SameC
  <1> QED
    BY <1>4, <1>11 DEF Good

\* It stops at an await of calls of C, which are added to the queue.
OwnCode(v, w, o) ==
    /\ v.jobs = w.jobs /\ SameQueue(v, w) /\ SameC(v, w) /\ SameIds(v, w)
    /\ \A p \in Ops \ {o} : SameOp(v, w, p)

Queued(st, items) == [it \in Items |-> IF it \in ToSet(items) THEN "queued" ELSE st[it]]
New(st, o, items) == /\ items \in Seq(Items) /\ Once(items)
                     /\ \A it \in ToSet(items) : it.op = o /\ st[it] = "none"
Added(u, w, os) == SameIds(u, w) /\ \E st \in [Items -> Stages] : Rep(u, st, os)

LEMMA AddsCalls ==
    ASSUME Alone, NEW w, NEW st \in [Items -> Stages], NEW os \in [Ops -> AllParts], Rep(w, st, os),
           NEW o \in Ops, os[o] \in {"here", "half"},
           NEW part \in {"half", "mallocs", "call", "frees"}, os[o] # part,
           NEW items, New(st, o, items), NEW v \in World, OwnCode(v, w, o),
           PartInv(v, Queued(st, items), part, o)
    PROVE  Added(AddOperations(v, items), w, [os EXCEPT ![o] = part])
  <1> DEFINE os2 == [os EXCEPT ![o] = part]
             st2 == Queued(st, items)
             q == v.queue \o items
             x == [v EXCEPT !.queue = @ \o items]
  <1>1. w \in World /\ QueueInv(w, st) /\ JobsInv(w, st, os) /\ ActiveInv(w, st) /\ HeapInv(w, st)
        /\ Core(w, st, os)
        /\ items \in Seq(Items) /\ Once(items) /\ (\A it \in ToSet(items) : it.op = o /\ st[it] = "none")
        /\ v.jobs = w.jobs /\ SameQueue(v, w) /\ SameC(v, w) /\ SameIds(v, w)
        /\ \A p \in Ops \ {o} : SameOp(v, w, p)
    BY DEF Rep, Loose, New, OwnCode
  <1>2. part \in AllParts /\ part \notin OwnJobs /\ os[o] \notin OwnJobs /\ "queued" \in Stages
    BY DEF Parts, AllParts, OwnJobs, Stages
  <1>3. os2 \in [Ops -> AllParts] /\ os2[o] = part /\ \A p \in Ops \ {o} : os2[p] = os[p]
    BY <1>2
  <1>4. /\ st2 \in [Items -> Stages]
        /\ \A it \in Items : \/ it \notin ToSet(items) /\ st2[it] = st[it]
                             \/ it \in ToSet(items) /\ st2[it] = "queued" /\ st[it] = "none"
    BY <1>1, <1>2 DEF Queued
  <1>5. OpMoved(os2, st, os, o, part)
    BY <1>2, OpMoves
  <1>6. q \in Seq(Items) /\ Once(q) /\ ToSet(q) = QueueSet(st2)
    <2>1. v.queue \in Seq(Items) /\ Once(v.queue) /\ ToSet(v.queue) = QueueSet(st)
      BY <1>1 DEF World, QueueInv, SameQueue
    <2>2. ToSet(items) \subseteq Items
      BY <1>1, Elements
    <2>3. ToSet(v.queue) \cap ToSet(items) = {}
      BY <2>1, <1>1 DEF QueueSet
    <2>4. QueueSet(st2) = QueueSet(st) \cup ToSet(items)
      BY <1>4, <2>2 DEF QueueSet
    <2> DEFINE r == v.queue
    <2>5. r \in Seq(Items) /\ items \in Seq(Items) /\ Once(r) /\ Once(items) /\ ToSet(r) \cap ToSet(items) = {}
      BY <2>1, <2>3, <1>1
    <2> HIDE DEF r
    <2>6. r \o items \in Seq(Items) /\ Once(r \o items) /\ ToSet(r \o items) = ToSet(r) \cup ToSet(items)
      BY <2>5, OnceConcat
    <2> QED
      BY <2>1, <2>4, <2>6 DEF r
  <1>7. /\ x \in World /\ x.queue = q /\ x.jobs = v.jobs /\ x.active = v.active /\ x.inC = v.inC
        /\ SameC(x, v) /\ SameIds(x, v) /\ SameOps(x, v)
    <2> HIDE DEF q
    <2> DEFINE y == [v EXCEPT !.queue = q]
    <2>1. x = y
      BY DEF q
    <2>2. y \in World
      BY <1>6, ZenonT(60) DEF World
    <2>3. /\ y.queue = q /\ y.jobs = v.jobs /\ y.active = v.active /\ y.inC = v.inC
          /\ SameC(y, v) /\ SameIds(y, v) /\ SameOps(y, v)
      BY DEF World, SameC, SameIds, SameOps
    <2> HIDE DEF x, y
    <2> QED
      BY <2>1, <2>2, <2>3
  <1>16. x.jobs = w.jobs
    BY <1>1, <1>7
  <1> HIDE DEF os2, st2, q, x
  <1>8. JobSet(st2, os2) = JobSet(st, os)
    <2>1. JobSet(st, os2) = JobSet(st, os)
      <3>1. Job(o, os[o], NoItem) \notin JobSet(st, os)
        BY <1>2, ItemFacts DEF Job, JobSet
      <3> QED
        BY <3>1, <1>2, <1>5 DEF OpMoved
    <2>2. \A it \in Items, at \in JobStages : st2[it] = at <=> st[it] = at
      BY <1>4 DEF JobStages
    <2>3. JobSet(st2, os2) = JobSet(st, os2)
      BY <2>2 DEF JobSet
    <2> QED
      BY <2>1, <2>3
  <1>9. HeapInv(x, st2)
    <2>1. \A it \in Items : st2[it] \in {"none", "queued"} <=> st[it] \in {"none", "queued"}
      BY <1>4
    <2>2. \A p \in Ops, k \in {1, 2} : M(p, k) \in Items /\ F(p, k) \in Items
      BY ItemFacts
    <2> QED
      BY <2>1, <2>2, <1>1, <1>7 DEF HeapInv, SameC
  <1>10. ActiveInv(x, st2)
    <2>1. \A it \in Items : /\ st2[it] \in {"inC", "run"} <=> st[it] \in {"inC", "run"}
                            /\ st2[it] = "inC" <=> st[it] = "inC"
      BY <1>4
    <2> QED
      BY <2>1, <1>1, <1>7 DEF ActiveInv, SameQueue
  <1>11. SameIds(x, w) /\ \A p \in Ops : SameOp(x, v, p)
    BY <1>1, <1>7 DEF SameIds, SameOp, SameOps
  <1>12. Core(x, st2, os2)
    <2>1. \A p \in Ops \ {o} : SameOp(x, w, p)
      BY <1>1, <1>11 DEF SameOp
    <2>2. \A it \in Items : it.op # o => st2[it] = st[it]
      BY <1>1, <1>4
    <2>3. OnlyOf(x, w, st2, st, os2, os, o)
      BY <2>1, <2>2, <1>3 DEF OnlyOf
    <2>4. Filed(st2, o) = Filed(st, o)
      <3>1. \A k \in {1, 2} : st2[M(o, k)] \in {"path", "element", "over"} <=> st[M(o, k)] \in {"path", "element", "over"}
        BY <1>4, ItemFacts
      <3> QED
        BY <3>1 DEF Filed
    <2>5. PartInv(x, st2, os2[o], o)
      <3>1. SameOp(x, v, o) /\ SameCalls(st2, st2, o)
        BY <1>11 DEF SameCalls
      <3> QED
        BY <3>1, <1>3, PartFrame DEF st2
    <2>6. Busy(os, o) /\ Busy(os2, o)
      BY <1>3 DEF Busy
    <2> QED
      BY <2>3, <2>4, <2>5, <2>6, <1>1, <1>11, OneMoves
  <1>13. Rep(x, st2, os2)
    BY <1>1, <1>6, <1>7, <1>8, <1>9, <1>10, <1>12, <1>16 DEF Rep, Loose, QueueInv, JobsInv
  <1>14. /\ SameIds(AddOperations(v, items), v)
         /\ \E st3 \in [Items -> Stages] : Rep(AddOperations(v, items), st3, os2)
    BY <1>3, <1>4, <1>13, AddKeeps DEF x
  <1>15. SameIds(AddOperations(v, items), w)
    BY <1>1, <1>14 DEF SameIds
  <1> QED
    BY <1>14, <1>15 DEF os2, Added

\* The body of o goes on, up to the step it has come to.
Stepped(v, w, o, waiting, used) ==
    /\ v \in World /\ v.jobs = w.jobs /\ SameQueue(v, w) /\ SameC(v, w) /\ SameIds(v, w)
    /\ v.state = w.state /\ \A p \in Ops \ {o} : SameOp(v, w, p)
    /\ v.pc[o] = w.pc[o] + 1 /\ v.waiting[o] = waiting /\ v.used[o] = used

LEMMA StepIs ==
    ASSUME NEW w \in World, NEW o \in Ops, w.pc[o] \in 0 .. 2
    PROVE  Stepped([w EXCEPT !.pc[o] = @ + 1], w, o, w.waiting[o], w.used[o])
  <1> DEFINE n == [w.pc EXCEPT ![o] = @ + 1]
             v == [w EXCEPT !.pc = n]
  <1>1. n \in [Ops -> 0 .. 3] /\ n[o] = w.pc[o] + 1 /\ \A p \in Ops \ {o} : n[p] = w.pc[p]
    BY DEF World
  <1>2. [w EXCEPT !.pc[o] = @ + 1] = v
    OBVIOUS
  <1> HIDE DEF n
  <1>3. v \in World
    BY <1>1, ZenonT(60) DEF World
  <1>4. /\ v.jobs = w.jobs /\ SameQueue(v, w) /\ SameC(v, w) /\ SameIds(v, w) /\ v.pc = n
        /\ v.state = w.state /\ v.used = w.used /\ v.waiting = w.waiting
    BY DEF World, SameQueue, SameC, SameIds
  <1> HIDE DEF v
  <1>5. \A p \in Ops \ {o} : SameOp(v, w, p)
    BY <1>1, <1>4 DEF SameOp, SameIds
  <1> QED
    BY <1>1, <1>2, <1>3, <1>4, <1>5 DEF Stepped

\* The call of the operation itself is added.
LEMMA BodyCalls ==
    ASSUME Alone, NEW w, NEW st \in [Items -> Stages], NEW os \in [Ops -> AllParts], Rep(w, st, os),
           NEW o \in Ops, os[o] = "here", Others(os, o),
           BeforeCall(w, st, o) \/ (Starting(w, st, o) /\ Buffers(o) = 0)
    PROVE  Good(AddOperation([w EXCEPT !.pc[o] = @ + 1], Item(o, "call", <<>>)))
  <1> DEFINE v == [w EXCEPT !.pc[o] = @ + 1]
             items == <<C(o)>>
             st2 == Queued(st, items)
             os2 == [os EXCEPT ![o] = "call"]
  <1>1. w \in World
    BY DEF Rep, Loose
  <1>2. /\ MallocsAre(st, o, {"over"}) /\ FreesAre(st, o, {"none"}) /\ CallIs(st, o, {"none"})
        /\ w.state[o] = "busy" /\ w.pc[o] + 1 = CallPc(o) /\ w.pc[o] \in {0, 1} /\ w.waiting[o] = 0
        /\ Used(w, o, Buffers(o))
    <2>1. CASE BeforeCall(w, st, o)
      BY <2>1 DEF BeforeCall, CallPc
    <2>2. CASE Starting(w, st, o) /\ Buffers(o) = 0
      <3>1. MallocsAre(st, o, {"over"})
        BY <2>2 DEF Starting, MallocsAre
      <3>2. Used(w, o, 0)
        BY <2>2 DEF Starting, Used
      <3> QED
        BY <2>2, <3>1, <3>2 DEF Starting, CallPc
    <2> QED
      BY <2>1, <2>2
  <1>3. Stepped(v, w, o, 0, w.used[o])
    BY <1>1, <1>2, StepIs
  <1> HIDE DEF v
  <1>4. items \in Seq(Items) /\ Once(items) /\ ToSet(items) = {C(o)} /\ C(o) \in Items /\ C(o).op = o
    <2>1. C(o) \in Items /\ C(o).op = o
      BY ItemFacts
    <2>2. items \in Seq(Items) /\ Len(items) = 1 /\ items[1] = C(o)
      BY <2>1
    <2> QED
      BY <2>1, <2>2 DEF Once, ToSet
  <1>5. /\ st2[C(o)] = "queued"
        /\ \A k \in {1, 2} : st2[M(o, k)] = st[M(o, k)] /\ st2[F(o, k)] = st[F(o, k)]
    BY <1>4, ItemFacts DEF Queued
  <1> HIDE DEF items
  <1>6. PartInv(v, st2, "call", o)
    <2>1. MallocsAre(st2, o, {"over"}) /\ FreesAre(st2, o, {"none"})
      BY <1>2, <1>5 DEF MallocsAre, FreesAre
    <2>2. CallIs(st2, o, {"queued", "inC", "run", "ccall"})
      BY <1>5 DEF CallIs
    <2>3. Used(v, o, Buffers(o))
      BY <1>2, <1>3 DEF Used, Stepped, SameIds
    <2>4. Calling(v, st2, o)
      BY <2>1, <2>2, <2>3, <1>2, <1>3 DEF Calling, Stepped
    <2> QED
      BY <2>4 DEF PartInv
  <1>7. New(st, o, items)
    BY <1>2, <1>4 DEF CallIs, New
  <1>8. Added(AddOperations(v, items), w, os2)
    <2>1. OwnCode(v, w, o) /\ v \in World
      BY <1>3 DEF Stepped, OwnCode
    <2> QED
      BY <2>1, <1>6, <1>7, AddsCalls
  <1>9. os2 \in [Ops -> Parts]
    BY DEF Others, Parts
  <1>10. AddOperation(v, Item(o, "call", <<>>)) = AddOperations(v, items)
    BY DEF AddOperation, items, C
  <1> QED
    BY <1>8, <1>9, <1>10 DEF Good, Added, v

\* A useBuffer of o asks for its k-th pointer.
LEMMA AsksFor ==
    ASSUME Alone, NEW w, NEW st \in [Items -> Stages], NEW os \in [Ops -> AllParts], Rep(w, st, os),
           NEW o \in Ops, NEW k \in {1, 2}, os[o] \in {"here", "half"}, NEW part \in {"half", "mallocs"}, os[o] # part,
           st[M(o, k)] = "none", NEW v \in World, OwnCode(v, w, o),
           w.hookId # NoId, w.hookId = w.id[o], Used(v, o, k - 1), v.used[o] \in Seq(Ids),
           NEW st2, st2 = [st EXCEPT ![M(o, k)] = "queued"],
           \A x : Used(x, o, k) /\ x.state[o] = v.state[o] /\ x.pc[o] = v.pc[o] /\ x.waiting[o] = v.waiting[o]
                      => PartInv(x, st2, part, o)
    PROVE  Added(UseBuffer(v, o), w, [os EXCEPT ![o] = part])
  <1> DEFINE x == [v EXCEPT !.used[o] = Append(@, v.hookId)]
             items == <<M(o, k)>>
             st1 == Queued(st, items)
  <1>1. w \in World
    BY DEF Rep, Loose
  <1>2. v.hookId = w.hookId /\ v.id = w.id /\ v.hookId \in Ids
    BY <1>1 DEF SameIds, World, OwnCode
  <1>3. /\ Append(v.used[o], v.hookId) \in Seq(Ids) /\ Len(Append(v.used[o], v.hookId)) = k
        /\ \A l \in 1 .. k : Append(v.used[o], v.hookId)[l] = v.id[o]
    BY <1>2 DEF Used
  <1>4. /\ x \in World /\ x.jobs = v.jobs /\ SameQueue(x, v) /\ SameC(x, v) /\ SameIds(x, v)
        /\ x.state = v.state /\ x.pc = v.pc /\ x.waiting = v.waiting
        /\ x.used[o] = Append(v.used[o], v.hookId) /\ \A p \in Ops \ {o} : x.used[p] = v.used[p]
    <2> DEFINE n == [v.used EXCEPT ![o] = Append(@, v.hookId)]
               y == [v EXCEPT !.used = n]
    <2>1. /\ n \in [Ops -> Seq(Ids)] /\ n[o] = Append(v.used[o], v.hookId)
          /\ \A p \in Ops \ {o} : n[p] = v.used[p]
      BY <1>3 DEF World
    <2>2. x = y
      OBVIOUS
    <2> HIDE DEF n, x
    <2>3. y \in World
      BY <2>1, ZenonT(60) DEF World
    <2>4. /\ y.jobs = v.jobs /\ SameQueue(y, v) /\ SameC(y, v) /\ SameIds(y, v)
          /\ y.state = v.state /\ y.pc = v.pc /\ y.waiting = v.waiting /\ y.used = n
      BY DEF World, SameQueue, SameC, SameIds
    <2> HIDE DEF y
    <2> QED
      BY <2>1, <2>2, <2>3, <2>4
  <1>5. UseBuffer(v, o) = AddOperations(x, items)
    <2>1. v.hookId # NoId
      BY <1>2
    <2>2. Item(o, "malloc", <<o, Len(x.used[o])>>) = M(o, k)
      BY <1>3, <1>4 DEF M
    <2> QED
      BY <2>1, <2>2 DEF UseBuffer, AddOperation
  <1> HIDE DEF x
  <1>6. items \in Seq(Items) /\ Once(items) /\ ToSet(items) = {M(o, k)} /\ M(o, k) \in Items /\ M(o, k).op = o
    <2>1. M(o, k) \in Items /\ M(o, k).op = o
      BY ItemFacts
    <2>2. items \in Seq(Items) /\ Len(items) = 1 /\ items[1] = M(o, k)
      BY <2>1
    <2> QED
      BY <2>1, <2>2 DEF Once, ToSet
  <1>7. st1 = st2
    BY <1>6 DEF Queued
  <1> HIDE DEF items, st1
  <1>8. OwnCode(x, w, o)
    BY <1>4 DEF OwnCode, SameQueue, SameC, SameIds, SameOp
  <1>9. Used(x, o, k)
    BY <1>2, <1>3, <1>4 DEF Used, SameIds
  <1>10. PartInv(x, st2, part, o)
    BY <1>4, <1>9
  <1>11. New(st, o, items)
    BY <1>6 DEF New
  <1>12. Added(AddOperations(x, items), w, [os EXCEPT ![o] = part])
    <2>1. x \in World /\ PartInv(x, Queued(st, items), part, o)
      BY <1>4, <1>7, <1>10 DEF st1
    <2> QED
      BY <2>1, <1>8, <1>11, AddsCalls
  <1> QED
    BY <1>5, <1>12

\* The plans of those kinds.
LEMMA PlanFacts ==
    ASSUME Alone, NEW o \in Ops
    PROVE  /\ Kind[o] = "fd" => Len(Plan(o)) = 1 /\ Plan(o)[1] = "call"
           /\ Kind[o] = "buffer" => Len(Plan(o)) = 2 /\ Plan(o)[1] = "use" /\ Plan(o)[2] = "call"
           /\ Kind[o] = "path" => Len(Plan(o)) = 2 /\ Plan(o)[1] = "buf" /\ Plan(o)[2] = "call"
           /\ Kind[o] = "bothPaths" => Len(Plan(o)) = 2 /\ Plan(o)[1] = "bufs" /\ Plan(o)[2] = "call"
  BY DEF Plan, Plans

\* What the body does next.
StepAt(w, o) == IF w.pc[o] + 1 <= Len(Plan(o)) THEN Plan(o)[w.pc[o] + 1] ELSE "end"

LEMMA BodyIs ==
    ASSUME Alone, NEW w \in World, NEW o \in Ops, w.pc[o] \in 0 .. 2,
           NEW v, v = [w EXCEPT !.pc[o] = @ + 1]
    PROVE  /\ StepAt(w, o) \in {"use", "buf"} => Body(w, o) = UseBuffer(v, o)
           /\ StepAt(w, o) = "bufs" => Body(w, o) = UseBuffer(UseBuffer([v EXCEPT !.waiting[o] = 2], o), o)
           /\ StepAt(w, o) = "call" => Body(w, o) = AddOperation(v, Item(o, "call", <<>>))
           /\ StepAt(w, o) = "end" => Body(w, o) = Push(v, o, "finally", NoItem)
  <1> DEFINE x == [w EXCEPT !.pc[o] = @ + 1]
             s == IF x.pc[o] <= Len(Plan(o)) THEN Plan(o)[x.pc[o]] ELSE "end"
  <1>1. x.pc[o] = w.pc[o] + 1
    BY StepIs DEF Stepped
  <1>2. s = StepAt(w, o)
    <2> HIDE DEF x
    <2> QED
      BY <1>1 DEF StepAt
  <1>3. Body(w, o) = CASE s \in {"use", "buf"} -> UseBuffer(x, o)
                       [] s = "bufs" -> UseBuffer(UseBuffer([x EXCEPT !.waiting[o] = 2], o), o)
                       [] s = "obj"  -> UseObject(x, o)
                       [] s = "call" -> AddOperation(x, Item(o, "call", <<>>))
                       [] s = "end"  -> Push(x, o, "finally", NoItem)
    BY DEF Body
  <1> HIDE DEF s, x
  <1>4. /\ s \in {"use", "buf"} => Body(w, o) = UseBuffer(x, o)
        /\ s = "bufs" => Body(w, o) = UseBuffer(UseBuffer([x EXCEPT !.waiting[o] = 2], o), o)
        /\ s = "call" => Body(w, o) = AddOperation(x, Item(o, "call", <<>>))
        /\ s = "end" => Body(w, o) = Push(x, o, "finally", NoItem)
    BY <1>3
  <1>5. v = x
    BY DEF x
  <1> QED
    BY <1>2, <1>4, <1>5

\* The body has come to its end.
LEMMA BodyEnds ==
    ASSUME Alone, NEW w, NEW st \in [Items -> Stages], NEW os \in [Ops -> AllParts], Rep(w, st, os),
           NEW o \in Ops, os[o] = "here", Others(os, o), AfterCall(w, st, o)
    PROVE  Good(Push(w, o, "finally", NoItem)) /\ Good(Push([w EXCEPT !.pc[o] = @ + 1], o, "finally", NoItem))
  <1>1. w \in World
    BY DEF Rep, Loose
  <1>2. w.pc[o] \in 0 .. 2
    BY DEF AfterCall, CallPc
  <1>3. ASSUME NEW v \in World, v.jobs = w.jobs, SameQueue(v, w), SameC(v, w), SameIds(v, w),
               v.state = w.state, \A p \in Ops \ {o} : SameOp(v, w, p),
               v.waiting[o] = w.waiting[o], v.used[o] = w.used[o]
        PROVE  Good(Push(v, o, "finally", NoItem))
    <2> DEFINE u == Push(v, o, "finally", NoItem)
    <2>1. Pushed(u, v, Job(o, "finally", NoItem))
      BY PushIs DEF OwnJobs
    <2> HIDE DEF u
    <2>2. /\ u \in World /\ u.jobs = Append(w.jobs, Job(o, "finally", NoItem))
          /\ SameQueue(u, w) /\ SameC(u, w) /\ SameIds(u, w)
          /\ u.state = w.state /\ u.waiting[o] = w.waiting[o] /\ u.used[o] = w.used[o]
      BY <2>1, <1>3 DEF Pushed, SameQueue, SameC, SameIds, SameOps
    <2>3. \A p \in Ops \ {o} : SameOp(u, w, p)
      BY <2>1, <1>3 DEF Pushed, SameIds, SameOps, SameOp
    <2>4. Ending(u, st, o)
      BY <2>2 DEF AfterCall, Ending, Used, SameIds
    <2>5. PartInv(u, st, "finally", o) /\ "finally" \in OwnJobs
      BY <2>4 DEF PartInv, OwnJobs
    <2>6. Good(u)
      BY <2>2, <2>3, <2>5, PushOwn
    <2> QED
      BY <2>6 DEF u
  <1>4. Good(Push(w, o, "finally", NoItem))
    BY <1>1, <1>3 DEF SameQueue, SameC, SameIds, SameOp
  <1>5. Stepped([w EXCEPT !.pc[o] = @ + 1], w, o, w.waiting[o], w.used[o])
    BY <1>1, <1>2, StepIs
  <1> QED
    BY <1>3, <1>4, <1>5 DEF Stepped

\* It asks for its only buffer.
LEMMA BodyAsks ==
    ASSUME Alone, NEW w, NEW st \in [Items -> Stages], NEW os \in [Ops -> AllParts], Rep(w, st, os),
           NEW o \in Ops, os[o] = "here", Others(os, o), Starting(w, st, o), Buffers(o) = 1,
           w.hookId # NoId, w.hookId = w.id[o]
    PROVE  Good(UseBuffer([w EXCEPT !.pc[o] = @ + 1], o))
  <1> DEFINE v == [w EXCEPT !.pc[o] = @ + 1]
             st2 == [st EXCEPT ![M(o, 1)] = "queued"]
             os2 == [os EXCEPT ![o] = "mallocs"]
  <1>1. w \in World
    BY DEF Rep, Loose
  <1>2. w.state[o] = "busy" /\ w.pc[o] = 0 /\ w.waiting[o] = 0 /\ w.used[o] = <<>>
    BY DEF Starting
  <1>3. Stepped(v, w, o, 0, <<>>)
    BY <1>1, <1>2, StepIs
  <1>4. v \in World /\ OwnCode(v, w, o) /\ v.state[o] = "busy" /\ v.pc[o] = 1 /\ v.waiting[o] = 0
        /\ v.used[o] = <<>>
    BY <1>2, <1>3 DEF Stepped, OwnCode
  <1> HIDE DEF v
  <1>5. st[M(o, 1)] = "none" /\ st[M(o, 2)] = "none"
    BY DEF Starting, MallocsAre
  <1>6. /\ st2[M(o, 1)] = "queued" /\ st2[M(o, 2)] = "none" /\ st2[C(o)] = st[C(o)]
        /\ \A k \in {1, 2} : st2[F(o, k)] = st[F(o, k)]
    BY <1>5, ItemFacts
  <1> HIDE DEF st2
  <1>7. Kind[o] # "bothPaths"
    BY KindFacts
  <1>8. ASSUME NEW x, Used(x, o, 1), x.state[o] = v.state[o], x.pc[o] = v.pc[o], x.waiting[o] = v.waiting[o]
        PROVE  PartInv(x, st2, "mallocs", o)
    <2>1. MallocsAre(st2, o, MallocStages(o))
      BY <1>6 DEF MallocsAre, MallocStages
    <2>2. FreesAre(st2, o, {"none"}) /\ CallIs(st2, o, {"none"})
      BY <1>6 DEF Starting, FreesAre, CallIs
    <2>3. MallocsLeft(st2, o) = 1
      BY <1>6 DEF MallocsLeft, Left
    <2>4. Mallocing(x, st2, o)
      BY <2>1, <2>2, <2>3, <1>4, <1>7, <1>8 DEF Mallocing
    <2> QED
      BY <2>4 DEF PartInv
  <1>9. Used(v, o, 0) /\ v.used[o] \in Seq(Ids)
    BY <1>4 DEF Used
  <1>10. Added(UseBuffer(v, o), w, os2)
    <2>1. 1 \in {1, 2} /\ 1 - 1 = 0
      OBVIOUS
    <2> QED
      BY <2>1, <1>4, <1>5, <1>8, <1>9, AsksFor DEF st2
  <1>11. os2 \in [Ops -> Parts]
    BY DEF Others, Parts
  <1> QED
    BY <1>10, <1>11 DEF Added, Good, v

\* It asks for both of its buffers.
LEMMA BodyAsksTwice ==
    ASSUME Alone, NEW w, NEW st \in [Items -> Stages], NEW os \in [Ops -> AllParts], Rep(w, st, os),
           NEW o \in Ops, os[o] = "here", Others(os, o), Starting(w, st, o), Kind[o] = "bothPaths",
           w.hookId # NoId, w.hookId = w.id[o]
    PROVE  Good(UseBuffer(UseBuffer([[w EXCEPT !.pc[o] = @ + 1] EXCEPT !.waiting[o] = 2], o), o))
  <1> DEFINE v == [w EXCEPT !.pc[o] = @ + 1]
             y == [v EXCEPT !.waiting[o] = 2]
             u == UseBuffer(y, o)
             st2 == [st EXCEPT ![M(o, 1)] = "queued"]
             os2 == [os EXCEPT ![o] = "half"]
             os3 == [os2 EXCEPT ![o] = "mallocs"]
  <1>1. w \in World
    BY DEF Rep, Loose
  <1>2. w.state[o] = "busy" /\ w.pc[o] = 0 /\ w.waiting[o] = 0 /\ w.used[o] = <<>>
    BY DEF Starting
  <1>3. Stepped(v, w, o, 0, <<>>)
    BY <1>1, <1>2, StepIs
  <1> HIDE DEF v
  <1>4. /\ y \in World /\ y.jobs = v.jobs /\ SameQueue(y, v) /\ SameC(y, v) /\ SameIds(y, v) /\ y.state = v.state
        /\ y.pc = v.pc /\ y.used = v.used /\ y.waiting[o] = 2 /\ \A p \in Ops \ {o} : y.waiting[p] = v.waiting[p]
    <2> DEFINE n == [v.waiting EXCEPT ![o] = 2]
               z == [v EXCEPT !.waiting = n]
    <2>1. n \in [Ops -> 0 .. 2] /\ n[o] = 2 /\ \A p \in Ops \ {o} : n[p] = v.waiting[p]
      BY <1>3 DEF Stepped, World
    <2>2. y = z
      OBVIOUS
    <2> HIDE DEF n, y
    <2>3. v \in World
      BY <1>3 DEF Stepped
    <2>4. z \in World
      BY <2>1, <2>3, ZenonT(60) DEF World
    <2>5. /\ z.jobs = v.jobs /\ SameQueue(z, v) /\ SameC(z, v) /\ SameIds(z, v) /\ z.state = v.state
          /\ z.pc = v.pc /\ z.used = v.used /\ z.waiting = n
      BY <2>3 DEF World, SameQueue, SameC, SameIds
    <2> HIDE DEF z
    <2> QED
      BY <2>1, <2>2, <2>4, <2>5
  <1> HIDE DEF y
  <1>5. y \in World /\ OwnCode(y, w, o) /\ y.state[o] = "busy" /\ y.pc[o] = 1 /\ y.waiting[o] = 2
        /\ y.used[o] = <<>>
    BY <1>2, <1>3, <1>4 DEF Stepped, OwnCode, SameQueue, SameC, SameIds, SameOp
  <1>6. st[M(o, 1)] = "none" /\ st[M(o, 2)] = "none"
    BY DEF Starting, MallocsAre
  <1>7. /\ st2[M(o, 1)] = "queued" /\ st2[M(o, 2)] = "none" /\ st2[C(o)] = st[C(o)]
        /\ \A k \in {1, 2} : st2[F(o, k)] = st[F(o, k)]
    BY <1>6, ItemFacts
  <1> HIDE DEF st2
  <1>8. ASSUME NEW x, Used(x, o, 1), x.state[o] = y.state[o], x.pc[o] = y.pc[o], x.waiting[o] = y.waiting[o]
        PROVE  PartInv(x, st2, "half", o)
    <2>1. FreesAre(st2, o, {"none"}) /\ CallIs(st2, o, {"none"})
      BY <1>7 DEF Starting, FreesAre, CallIs
    <2>2. Halfway(x, st2, o)
      BY <2>1, <1>5, <1>7, <1>8 DEF Halfway
    <2> QED
      BY <2>2 DEF PartInv
  <1>9. Used(y, o, 0) /\ y.used[o] \in Seq(Ids)
    BY <1>5 DEF Used
  <1>10. Added(u, w, os2)
    <2>1. 1 \in {1, 2} /\ 1 - 1 = 0
      OBVIOUS
    <2> QED
      BY <2>1, <1>5, <1>6, <1>8, <1>9, AsksFor DEF st2
  <1> HIDE DEF u
  <1>11. os2 \in [Ops -> AllParts] /\ os2[o] = "half"
    BY DEF AllParts
  <1>12. os3 \in [Ops -> Parts]
    BY DEF Others, Parts
  <1> HIDE DEF os2
  <1>13. PICK st3 \in [Items -> Stages] : Rep(u, st3, os2)
    BY <1>10 DEF Added
  <1>14. Halfway(u, st3, o) /\ u \in World
    BY <1>11, <1>13 DEF Rep, Loose, Core, PartInv
  <1> DEFINE st4 == [st3 EXCEPT ![M(o, 2)] = "queued"]
  <1>15. st3[M(o, 1)] \in {"queued", "run"} /\ st3[M(o, 2)] = "none"
    BY <1>14 DEF Halfway
  <1>16. /\ st4[M(o, 2)] = "queued" /\ st4[M(o, 1)] \in {"queued", "run"} /\ st4[C(o)] = st3[C(o)]
         /\ \A k \in {1, 2} : st4[F(o, k)] = st3[F(o, k)]
    BY <1>15, ItemFacts
  <1> HIDE DEF st4
  <1>17. ASSUME NEW x, Used(x, o, 2), x.state[o] = u.state[o], x.pc[o] = u.pc[o], x.waiting[o] = u.waiting[o]
         PROVE  PartInv(x, st4, "mallocs", o)
    <2>1. MallocsAre(st4, o, MallocStages(o)) /\ Buffers(o) = 2
      BY <1>16, KindFacts DEF MallocsAre, MallocStages
    <2>2. FreesAre(st4, o, {"none"}) /\ CallIs(st4, o, {"none"})
      BY <1>14, <1>16 DEF Halfway, FreesAre, CallIs
    <2>3. MallocsLeft(st4, o) = 2
      BY <1>16 DEF MallocsLeft, Left
    <2>4. Mallocing(x, st4, o)
      BY <2>1, <2>2, <2>3, <1>14, <1>17 DEF Mallocing, Halfway
    <2> QED
      BY <2>4 DEF PartInv
  <1>18. Used(u, o, 1) /\ u.used[o] \in Seq(Ids) /\ u.hookId # NoId /\ u.hookId = u.id[o]
    BY <1>10, <1>14 DEF Halfway, World, Added, SameIds
  <1>19. OwnCode(u, u, o)
    BY DEF OwnCode, SameQueue, SameC, SameIds, SameOp
  <1>20. Added(UseBuffer(u, o), u, os3)
    <2>1. 2 \in {1, 2} /\ 2 - 1 = 1
      OBVIOUS
    <2> QED
      BY <2>1, <1>11, <1>13, <1>14, <1>15, <1>17, <1>18, <1>19, AsksFor DEF st4
  <1> HIDE DEF os3
  <1> QED
    BY <1>12, <1>20 DEF Added, Good, u, v, y

\* The body runs to its next await.
LEMMA BodyGoes ==
    ASSUME Alone, NEW w, NEW st \in [Items -> Stages], NEW os \in [Ops -> AllParts], Rep(w, st, os),
           NEW o \in Ops, os[o] = "here", Others(os, o),
           \/ BeforeCall(w, st, o)
           \/ AfterCall(w, st, o)
           \/ Starting(w, st, o) /\ w.hookId # NoId /\ w.hookId = w.id[o]
    PROVE  Good(Body(w, o))
  <1> DEFINE v == [w EXCEPT !.pc[o] = @ + 1]
  <1>1. w \in World
    BY DEF Rep, Loose
  <1>2. w.pc[o] \in 0 .. 2
    BY DEF BeforeCall, AfterCall, Starting, CallPc
  <1>3. /\ StepAt(w, o) \in {"use", "buf"} => Body(w, o) = UseBuffer(v, o)
        /\ StepAt(w, o) = "bufs" => Body(w, o) = UseBuffer(UseBuffer([v EXCEPT !.waiting[o] = 2], o), o)
        /\ StepAt(w, o) = "call" => Body(w, o) = AddOperation(v, Item(o, "call", <<>>))
        /\ StepAt(w, o) = "end" => Body(w, o) = Push(v, o, "finally", NoItem)
    BY <1>1, <1>2, BodyIs
  <1>4. /\ Kind[o] \in {"fd", "buffer", "path", "bothPaths"} /\ (Kind[o] = "fd" <=> Buffers(o) = 0)
        /\ (Kind[o] \in {"buffer", "path"} <=> Buffers(o) = 1)
        /\ (Kind[o] = "bothPaths" <=> Buffers(o) = 2) /\ Buffers(o) \in 0 .. 2
    BY KindFacts
  <1>5. CASE BeforeCall(w, st, o) \/ (Starting(w, st, o) /\ Buffers(o) = 0)
    <2>1. StepAt(w, o) = "call"
      <3>1. CASE BeforeCall(w, st, o)
        <4>1. w.pc[o] = 1 /\ Kind[o] \in {"buffer", "path", "bothPaths"}
          BY <3>1, <1>4 DEF BeforeCall
        <4> QED
          BY <4>1, PlanFacts DEF StepAt
      <3>2. CASE Starting(w, st, o) /\ Buffers(o) = 0
        <4>1. w.pc[o] = 0 /\ Kind[o] = "fd"
          BY <3>2, <1>4 DEF Starting
        <4> QED
          BY <4>1, PlanFacts DEF StepAt
      <3> QED
        BY <1>5, <3>1, <3>2
    <2>2. Good(AddOperation(v, Item(o, "call", <<>>)))
      BY <1>5, BodyCalls
    <2> QED
      BY <2>1, <2>2, <1>3
  <1>6. CASE AfterCall(w, st, o)
    <2>1. StepAt(w, o) = "end"
      <3>1. w.pc[o] = IF Kind[o] = "fd" THEN 1 ELSE 2
        BY <1>4, <1>6 DEF AfterCall, CallPc
      <3> QED
        BY <3>1, <1>4, PlanFacts DEF StepAt
    <2>2. Good(Push(v, o, "finally", NoItem))
      BY <1>6, BodyEnds
    <2> QED
      BY <2>1, <2>2, <1>3
  <1>7. CASE Starting(w, st, o) /\ w.hookId # NoId /\ w.hookId = w.id[o] /\ Buffers(o) = 1
    <2>1. StepAt(w, o) \in {"use", "buf"}
      <3>1. w.pc[o] = 0 /\ Kind[o] \in {"buffer", "path"}
        BY <1>4, <1>7 DEF Starting
      <3> QED
        BY <3>1, PlanFacts DEF StepAt
    <2>2. Good(UseBuffer(v, o))
      BY <1>7, BodyAsks
    <2> QED
      BY <2>1, <2>2, <1>3
  <1>8. CASE Starting(w, st, o) /\ w.hookId # NoId /\ w.hookId = w.id[o] /\ Buffers(o) = 2
    <2>1. StepAt(w, o) = "bufs"
      <3>1. w.pc[o] = 0 /\ Kind[o] = "bothPaths"
        BY <1>4, <1>8 DEF Starting
      <3> QED
        BY <3>1, PlanFacts DEF StepAt
    <2>2. Good(UseBuffer(UseBuffer([v EXCEPT !.waiting[o] = 2], o), o))
      BY <1>4, <1>8, BodyAsksTwice
    <2> QED
      BY <2>1, <2>2, <1>3
  <1> QED
    BY <1>4, <1>5, <1>6, <1>7, <1>8

\* The continuation of an await of the body.
LEMMA StepBody ==
    ASSUME Alone, NEW w, NEW st \in [Items -> Stages], NEW os \in [Ops -> Parts], Rep(w, st, os),
           w.jobs # <<>>, Head(w.jobs).at = "body"
    PROVE  Good(IF Started(w).state[Head(w.jobs).op] = "failing"
                THEN Push(Started(w), Head(w.jobs).op, "finally", NoItem)
                ELSE Body(Started(w), Head(w.jobs).op))
  <1> DEFINE o == Head(w.jobs).op
             v == Started(w)
             os2 == [os EXCEPT ![o] = "here"]
  <1>1. /\ o \in Ops /\ os[o] = "body" /\ PartInv(w, st, os[o], o) /\ Rep(v, st, os2)
        /\ SameIds(v, w) /\ SameOps(v, w)
    BY TakeOwn DEF OwnJobs
  <1> HIDE DEF o, v
  <1>2. os2 \in [Ops -> AllParts] /\ os2[o] = "here" /\ Others(os2, o)
    BY <1>1 DEF AllParts, Others
  <1> HIDE DEF os2
  <1>3. BeforeCall(v, st, o) \/ AfterCall(v, st, o)
    <2>1. SameOp(v, w, o) /\ SameCalls(st, st, o)
      BY <1>1 DEF SameOp, SameOps, SameIds, SameCalls
    <2>2. PartInv(v, st, "body", o)
      BY <2>1, <1>1, PartFrame
    <2> QED
      BY <2>2 DEF PartInv
  <1>4. CASE v.state[o] = "failing"
    <2>1. AfterCall(v, st, o)
      BY <1>3, <1>4 DEF BeforeCall
    <2>2. Good(Push(v, o, "finally", NoItem))
      BY <2>1, <1>1, <1>2, BodyEnds
    <2> QED
      BY <2>2, <1>4 DEF v, o
  <1>5. CASE v.state[o] # "failing"
    <2>1. Good(Body(v, o))
      BY <1>1, <1>2, <1>3, BodyGoes
    <2> QED
      BY <2>1, <1>5 DEF v, o
  <1> QED
    BY <1>4, <1>5

\* The frees of the finally block.
FreesOf(o, s) == [k \in 1 .. Len(s) |-> Item(o, "free", s[k])]

LEMMA FreesAdded ==
    ASSUME Alone, NEW st \in [Items -> Stages], NEW o \in Ops, FreesAre(st, o, {"none"}),
           NEW s \in Seq(Ops \X Nat), Once(s), ToSet(s) = {<<o, k>> : k \in 1 .. Buffers(o)},
           NEW items, items = FreesOf(o, s)
    PROVE  /\ New(st, o, items)
           /\ \A k \in {1, 2} : /\ Queued(st, items)[M(o, k)] = st[M(o, k)]
                                /\ Queued(st, items)[F(o, k)] = IF k <= Buffers(o) THEN "queued" ELSE "none"
           /\ Queued(st, items)[C(o)] = st[C(o)]
  <1>1. Buffers(o) \in 0 .. 2 /\ Len(s) \in Nat /\ ToSet(s) = {s[k] : k \in 1 .. Len(s)}
    BY KindFacts DEF ToSet
  <1>2. \A k \in 1 .. Len(s) : \E l \in {1, 2} : l <= Buffers(o) /\ s[k] = <<o, l>>
    <2> TAKE k \in 1 .. Len(s)
    <2>1. s[k] \in {<<o, l>> : l \in 1 .. Buffers(o)}
      BY <1>1
    <2>2. PICK l \in 1 .. Buffers(o) : s[k] = <<o, l>>
      BY <2>1
    <2>3. l \in {1, 2} /\ l <= Buffers(o)
      BY <1>1
    <2> QED
      BY <2>2, <2>3
  <1>3. Len(items) = Len(s) /\ \A k \in 1 .. Len(s) : items[k].ptr = s[k] /\ items[k] = Item(o, "free", s[k])
    BY <1>1 DEF Item, FreesOf
  <1>4. \A k \in 1 .. Len(s) : \E l \in {1, 2} : l <= Buffers(o) /\ items[k] = F(o, l)
    BY <1>2, <1>3 DEF F
  <1>5. items \in Seq(Items)
    <2>1. ASSUME NEW k \in 1 .. Len(s) PROVE Item(o, "free", s[k]) \in Items
      <3>1. PICK l \in {1, 2} : items[k] = F(o, l)
        BY <1>4
      <3>2. F(o, l) \in Items
        BY ItemFacts
      <3> QED
        BY <3>1, <3>2, <1>3
    <2> QED
      BY <2>1, <1>1 DEF FreesOf
  <1>6. Once(items)
    <2>1. ASSUME NEW k \in 1 .. Len(s), NEW l \in 1 .. Len(s), items[k] = items[l] PROVE k = l
      <3>1. items[k].ptr = s[k] /\ items[l].ptr = s[l]
        BY <1>3
      <3>2. s[k] = s[l]
        BY <2>1, <3>1
      <3> QED
        BY <3>2 DEF Once
    <2> QED
      BY <2>1, <1>3 DEF Once
  <1>7. \A it : it \in ToSet(items) <=> \E k \in {1, 2} : k <= Buffers(o) /\ it = F(o, k)
    <2>1. \A it : it \in ToSet(items) <=> \E k \in 1 .. Len(items) : items[k] = it
      BY <1>5, Elements
    <2>2. ASSUME NEW l \in {1, 2}, l <= Buffers(o) PROVE F(o, l) \in ToSet(items)
      <3>1. l \in 1 .. Buffers(o)
        BY <1>1, <2>2
      <3>2. <<o, l>> \in ToSet(s)
        BY <3>1
      <3>3. PICK k \in 1 .. Len(s) : s[k] = <<o, l>>
        BY <3>2, <1>1
      <3>4. items[k] = F(o, l)
        BY <3>3, <1>3 DEF F
      <3> QED
        BY <3>4, <2>1, <1>3
    <2>3. ASSUME NEW it \in ToSet(items) PROVE \E k \in {1, 2} : k <= Buffers(o) /\ it = F(o, k)
      <3>1. PICK k \in 1 .. Len(s) : items[k] = it
        BY <2>1, <1>3
      <3> QED
        BY <3>1, <1>4
    <2> QED
      BY <2>2, <2>3
  <1>8. \A it \in ToSet(items) : it.op = o /\ st[it] = "none"
    BY <1>7, ItemFacts DEF FreesAre
  <1>9. New(st, o, items)
    BY <1>5, <1>6, <1>8 DEF New
  <1>10. \A k \in {1, 2} : /\ M(o, k) \in Items \ ToSet(items) /\ F(o, k) \in Items
                           /\ F(o, k) \in ToSet(items) <=> k <= Buffers(o)
    BY <1>7, ItemFacts
  <1>11. C(o) \in Items \ ToSet(items)
    BY <1>7, ItemFacts
  <1>12. \A k \in {1, 2} : ~(k <= Buffers(o)) => st[F(o, k)] = "none"
    BY DEF FreesAre
  <1> QED
    BY <1>9, <1>10, <1>11, <1>12 DEF Queued


\* The finally block up to its await.
LEMMA FinallyGoes ==
    ASSUME Alone, NEW w, NEW st \in [Items -> Stages], NEW os \in [Ops -> AllParts], Rep(w, st, os),
           NEW o \in Ops, os[o] = "here", Others(os, o), Ending(w, st, o)
    PROVE  Good(Finally(w, o))
  <1> DEFINE s == w.memAddrs[w.id[o]]
             v == [w EXCEPT !.objects = @ \ ToSet(w.objIds[w.id[o]]), !.waiting[o] = Len(ToFree(w, o))]
             items == FreesOf(o, s)
             st2 == Queued(st, items)
             os2 == [os EXCEPT ![o] = "frees"]
  <1>1. w \in World /\ MemInv(w, st, os)
    BY DEF Rep, Loose, Core
  <1>2. /\ MallocsAre(st, o, {"over"}) /\ CallIs(st, o, {"over"}) /\ FreesAre(st, o, {"none"})
        /\ w.state[o] \in {"busy", "failing"} /\ w.waiting[o] = 0 /\ Used(w, o, Buffers(o))
    BY DEF Ending
  <1>3. Buffers(o) \in 0 .. 2
    BY KindFacts
  <1>4. s \in Seq(Ops \X Nat) /\ Once(s) /\ ToSet(s) = {<<o, k>> : k \in 1 .. Buffers(o)}
    <2>1. w.id[o] \in Ids /\ s # NoId /\ Once(s) /\ ToSet(s) = Filed(st, o)
      BY <1>1 DEF MemInv, Busy
    <2>2. s \in Seq(Ops \X Nat)
      BY <1>1, <2>1 DEF World
    <2>3. \A l \in {1, 2} : st[M(o, l)] \in {"path", "element", "over"} <=> l <= Buffers(o)
      BY <1>2 DEF MallocsAre
    <2>4. {l \in {1, 2} : st[M(o, l)] \in {"path", "element", "over"}} = 1 .. Buffers(o)
      BY <1>3, <2>3
    <2>5. Filed(st, o) = {<<o, k>> : k \in 1 .. Buffers(o)}
      BY <2>4 DEF Filed
    <2> QED
      BY <2>1, <2>2, <2>5
  <1> HIDE DEF s
  <1>5. Len(s) = Buffers(o)
    <2>1. ToSet(s) = FirstOf(o, Buffers(o))
      BY <1>4 DEF FirstOf
    <2> QED
      BY <2>1, <1>3, <1>4, OnceLength
  <1>6. ToFree(w, o) = s
    BY DEF ToFree, s
  <1>7. v \in World /\ OwnCode(v, w, o) /\ v.state = w.state /\ v.used = w.used /\ v.waiting[o] = Buffers(o)
    <2> DEFINE n == [w.waiting EXCEPT ![o] = Buffers(o)]
               y == [w EXCEPT !.waiting = n]
    <2>1. n \in [Ops -> 0 .. 2] /\ n[o] = Buffers(o) /\ \A p \in Ops \ {o} : n[p] = w.waiting[p]
      BY <1>1, <1>3 DEF World
    <2>2. v = y
      <3>1. w.objects = {}
        BY <1>1 DEF World
      <3>2. w.objects \ ToSet(w.objIds[w.id[o]]) = w.objects
        BY <3>1
      <3>3. [w EXCEPT !.objects = w.objects, !.waiting[o] = Buffers(o)] = [w EXCEPT !.waiting[o] = Buffers(o)]
        BY <1>1 DEF World
      <3> QED
        BY <3>2, <3>3, <1>5, <1>6
    <2> HIDE DEF n, v
    <2>3. y \in World
      BY <1>1, <2>1, ZenonT(60) DEF World
    <2>4. /\ y.jobs = w.jobs /\ SameQueue(y, w) /\ SameC(y, w) /\ SameIds(y, w) /\ y.state = w.state
          /\ y.pc = w.pc /\ y.used = w.used /\ y.waiting = n
      BY <1>1 DEF World, SameQueue, SameC, SameIds
    <2> HIDE DEF y
    <2>5. \A p \in Ops \ {o} : SameOp(y, w, p)
      BY <2>1, <2>4 DEF SameOp, SameIds
    <2> QED
      BY <2>1, <2>2, <2>3, <2>4, <2>5 DEF OwnCode
  <1>8. Finally(w, o) = IF s = <<>> THEN Push(v, o, "cleanup", NoItem) ELSE AddOperations(v, items)
    BY <1>6 DEF Finally, FreesOf, s
  <1> HIDE DEF v
  <1>9. CASE s = <<>>
    <2> DEFINE u == Push(v, o, "cleanup", NoItem)
    <2>1. Pushed(u, v, Job(o, "cleanup", NoItem))
      BY <1>7, PushIs DEF OwnJobs
    <2> HIDE DEF u
    <2>2. /\ u \in World /\ u.jobs = Append(w.jobs, Job(o, "cleanup", NoItem))
          /\ SameQueue(u, w) /\ SameC(u, w) /\ SameIds(u, w)
          /\ u.state = w.state /\ u.waiting[o] = Buffers(o) /\ u.used = w.used
      BY <2>1, <1>7 DEF Pushed, OwnCode, SameQueue, SameC, SameIds, SameOps
    <2>3. \A p \in Ops \ {o} : SameOp(u, w, p)
      BY <2>1, <1>7 DEF Pushed, OwnCode, SameIds, SameOps, SameOp
    <2>4. Buffers(o) = 0
      BY <1>5, <1>9
    <2>5. FreesAre(st, o, {"over"})
      BY <1>2, <2>4 DEF FreesAre
    <2>6. Freed(u, st, o) /\ u.state[o] \in {"busy", "failing"}
      BY <1>2, <2>2, <2>4, <2>5 DEF Freed, Used, SameIds
    <2>7. PartInv(u, st, "cleanup", o) /\ "cleanup" \in OwnJobs
      BY <2>6 DEF PartInv, OwnJobs
    <2>8. Good(u)
      BY <2>2, <2>3, <2>7, PushOwn
    <2> QED
      BY <2>8, <1>8, <1>9 DEF u
  <1>10. CASE s # <<>>
    <2>1. /\ New(st, o, items)
          /\ \A k \in {1, 2} : /\ st2[M(o, k)] = st[M(o, k)]
                               /\ st2[F(o, k)] = IF k <= Buffers(o) THEN "queued" ELSE "none"
          /\ st2[C(o)] = st[C(o)]
      BY <1>2, <1>4, FreesAdded
    <2> HIDE DEF items
    <2>2. Buffers(o) \in {1, 2}
      <3>1. Len(s) # 0
        BY <1>4, <1>10
      <3> QED
        BY <3>1, <1>3, <1>5
    <2>3. PartInv(v, st2, "frees", o)
      <3>1. MallocsAre(st2, o, {"over"}) /\ CallIs(st2, o, {"over"})
        BY <1>2, <2>1 DEF MallocsAre, CallIs
      <3>2. FreesAre(st2, o, {"queued", "run", "ccall", "all", "over"})
        BY <2>1 DEF FreesAre
      <3>3. FreesLeft(st2, o) = Buffers(o)
        BY <2>1, <2>2 DEF FreesLeft, Left
      <3>4. Used(v, o, Buffers(o))
        BY <1>2, <1>7 DEF Used, OwnCode, SameIds
      <3>5. Freeing(v, st2, o)
        BY <3>1, <3>2, <3>3, <3>4, <1>2, <1>7, <2>2 DEF Freeing
      <3> QED
        BY <3>5 DEF PartInv
    <2>4. Added(AddOperations(v, items), w, os2)
      <3>1. os[o] # "frees" /\ os[o] \in {"here", "half"} /\ "frees" \in {"half", "mallocs", "call", "frees"}
        OBVIOUS
      <3> QED
        BY <3>1, <1>7, <2>1, <2>3, AddsCalls
    <2>5. os2 \in [Ops -> Parts]
      BY DEF Others, Parts
    <2>6. Finally(w, o) = AddOperations(v, items)
      BY <1>8, <1>10
    <2> QED
      BY <2>4, <2>5, <2>6 DEF Good, Added
  <1> QED
    BY <1>9, <1>10

\* The continuation of the body's last await.
LEMMA StepFinally ==
    ASSUME Alone, NEW w, NEW st \in [Items -> Stages], NEW os \in [Ops -> Parts], Rep(w, st, os),
           w.jobs # <<>>, Head(w.jobs).at = "finally"
    PROVE  Good(Finally(Started(w), Head(w.jobs).op))
  <1> DEFINE o == Head(w.jobs).op
             v == Started(w)
             os2 == [os EXCEPT ![o] = "here"]
  <1>1. /\ o \in Ops /\ os[o] = "finally" /\ PartInv(w, st, os[o], o) /\ Rep(v, st, os2)
        /\ SameIds(v, w) /\ SameOps(v, w)
    BY TakeOwn DEF OwnJobs
  <1> HIDE DEF o, v
  <1>2. os2 \in [Ops -> AllParts] /\ os2[o] = "here" /\ Others(os2, o)
    BY <1>1 DEF AllParts, Others
  <1> HIDE DEF os2
  <1>3. Ending(v, st, o)
    <2>1. SameOp(v, w, o) /\ SameCalls(st, st, o)
      BY <1>1 DEF SameOp, SameOps, SameIds, SameCalls
    <2>2. PartInv(v, st, "finally", o)
      BY <2>1, <1>1, PartFrame
    <2> QED
      BY <2>2 DEF PartInv
  <1>4. Good(Finally(v, o))
    BY <1>1, <1>2, <1>3, FinallyGoes
  <1> QED
    BY <1>4 DEF v, o

\* The end of the finally block.  The id is given back with nothing under it.
LEMMA CleanupGoes ==
    ASSUME Alone, NEW w, NEW st \in [Items -> Stages], NEW os \in [Ops -> AllParts], Rep(w, st, os),
           NEW o \in Ops, os[o] = "here", Others(os, o), Freed(w, st, o), w.state[o] \in {"busy", "failing"}
    PROVE  Good(Cleanup(w, o))
  <1> DEFINE i == w.id[o]
             v == Cleanup(w, o)
             os2 == [os EXCEPT ![o] = "over"]
  <1>1. w \in World /\ QueueInv(w, st) /\ JobsInv(w, st, os) /\ ActiveInv(w, st) /\ HeapInv(w, st)
        /\ MemInv(w, st, os) /\ IdInv(w, os) /\ \A p \in Ops : PartInv(w, st, os[p], p)
    BY DEF Rep, Loose, Core
  <1>2. Busy(os, o) /\ i \in Ids /\ i \in 0 .. w.nextId - 1 /\ i \notin ToSet(w.freeIds)
    BY <1>1 DEF Busy, MemInv, IdInv
  <1>3. w.freeIds \in Seq(Ids) /\ Once(w.freeIds)
    BY <1>1 DEF World, IdInv
  <1> HIDE DEF i
  <1>4. Append(w.freeIds, i) \in Seq(Ids) /\ Once(Append(w.freeIds, i))
        /\ ToSet(Append(w.freeIds, i)) = ToSet(w.freeIds) \cup {i}
    BY <1>2, <1>3, OnceAppend
  <1>5. /\ v \in World /\ v.jobs = w.jobs /\ SameQueue(v, w) /\ SameC(v, w) /\ v.id = w.id /\ v.nextId = w.nextId
        /\ v.pc = w.pc /\ v.used = w.used /\ v.waiting = w.waiting /\ v.freeIds = Append(w.freeIds, i)
        /\ v.objIds[i] = NoId /\ v.memAddrs[i] = NoId
        /\ \A l \in Ids \ {i} : v.objIds[l] = w.objIds[l] /\ v.memAddrs[l] = w.memAddrs[l]
        /\ v.state[o] \in {"done", "failed"} /\ \A p \in Ops \ {o} : v.state[p] = w.state[p]
    <2> DEFINE a == [w.objIds EXCEPT ![i] = NoId]
               b == [w.memAddrs EXCEPT ![i] = NoId]
               h == w.oldId[o]
               f == Append(w.freeIds, i)
               s == [w.state EXCEPT ![o] = IF @ = "failing" THEN "failed" ELSE "done"]
               y == [w EXCEPT !.objIds = a, !.memAddrs = b, !.hookId = h, !.freeIds = f, !.state = s]
    <2>1. /\ a \in [Ids -> {<<>>, NoId}] /\ a[i] = NoId /\ \A l \in Ids \ {i} : a[l] = w.objIds[l]
      BY <1>1, <1>2 DEF World
    <2>2. /\ b \in [Ids -> Seq(Ops \X Nat) \cup {NoId}] /\ b[i] = NoId
          /\ \A l \in Ids \ {i} : b[l] = w.memAddrs[l]
      BY <1>1, <1>2 DEF World
    <2>3. h \in Ids \cup {NoId}
      BY <1>1 DEF World
    <2>4. f \in Seq(Ids)
      BY <1>4
    <2>5. /\ s \in [Ops -> {"idle", "busy", "failing", "done", "failed"}] /\ s[o] \in {"done", "failed"}
          /\ \A p \in Ops \ {o} : s[p] = w.state[p]
      BY <1>1 DEF World
    <2>6. v = y
      BY DEF Cleanup, ReleaseId, i
    <2> HIDE DEF a, b, h, f, s, v
    <2>7. y \in World
      BY <1>1, <2>1, <2>2, <2>3, <2>4, <2>5, ZenonT(60) DEF World
    <2>8. /\ y.jobs = w.jobs /\ SameQueue(y, w) /\ SameC(y, w) /\ y.id = w.id /\ y.nextId = w.nextId
          /\ y.pc = w.pc /\ y.used = w.used /\ y.waiting = w.waiting /\ y.freeIds = f
          /\ y.objIds = a /\ y.memAddrs = b /\ y.state = s
      BY <1>1 DEF World, SameQueue, SameC
    <2> HIDE DEF y
    <2> QED
      BY <2>1, <2>2, <2>5, <2>6, <2>7, <2>8 DEF f
  <1> HIDE DEF v
  <1>6. os2 \in [Ops -> Parts] /\ os2[o] = "over" /\ \A p \in Ops \ {o} : os2[p] = os[p]
    BY DEF Others, Parts
  <1>7. JobSet(st, os2) = JobSet(st, os)
    <2>1. "over" \in AllParts /\ "over" \notin OwnJobs /\ "here" \notin OwnJobs
      BY DEF AllParts, Parts, OwnJobs
    <2>2. OpMoved(os2, st, os, o, "over")
      BY <2>1, OpMoves
    <2>3. Job(o, "here", NoItem) \notin JobSet(st, os)
      BY <2>1 DEF Job, JobSet, JobStages
    <2> QED
      BY <2>1, <2>2, <2>3 DEF OpMoved
  <1> HIDE DEF os2
  <1>8. \A p \in Ops : Busy(os2, p) <=> p # o /\ Busy(os, p)
    BY <1>6 DEF Busy
  <1>9. \A p \in Ops : PartInv(v, st, os2[p], p)
    <2>1. OnlyOf(v, w, st, st, os2, os, o)
      BY <1>5, <1>6 DEF OnlyOf, SameOp
    <2>2. ASSUME NEW p \in Ops \ {o} PROVE PartInv(v, st, os2[p], p)
      BY <2>1, <1>1, OthersSame
    <2>3. Freed(v, st, o)
      BY <1>5 DEF Freed, Used
    <2>4. PartInv(v, st, "over", o)
      BY <2>3, <1>5 DEF PartInv
    <2> QED
      BY <2>2, <2>4, <1>6
  <1>10. MemInv(v, st, os2)
    <2>1. ASSUME NEW p \in Ops, Busy(os2, p)
          PROVE  w.id[p] \in Ids \ {i} /\ Busy(os, p)
      BY <2>1, <1>1, <1>2, <1>8 DEF MemInv, IdInv, i
    <2> QED
      BY <2>1, <1>1, <1>5 DEF MemInv
  <1>11. IdInv(v, os2)
    <2>1. \A p \in Ops : Busy(os2, p) => v.id[p] \in 0 .. v.nextId - 1
      BY <1>1, <1>5, <1>8 DEF IdInv
    <2>2. \A p, q \in Ops : Busy(os2, p) /\ Busy(os2, q) /\ v.id[p] = v.id[q] => p = q
      BY <1>1, <1>5, <1>8 DEF IdInv
    <2>3. Once(v.freeIds) /\ ToSet(v.freeIds) \subseteq 0 .. v.nextId - 1
      BY <1>1, <1>2, <1>4, <1>5 DEF IdInv
    <2>4. ASSUME NEW p \in Ops, Busy(os2, p) PROVE v.id[p] \notin ToSet(v.freeIds)
      BY <2>4, <1>1, <1>2, <1>4, <1>5, <1>8 DEF IdInv, i
    <2>5. ASSUME NEW l \in 0 .. v.nextId - 1, l \notin ToSet(v.freeIds)
          PROVE  \E p \in Ops : Busy(os2, p) /\ v.id[p] = l
      <3>1. l # i /\ l \notin ToSet(w.freeIds)
        BY <2>5, <1>4, <1>5
      <3>2. PICK p \in Ops : Busy(os, p) /\ w.id[p] = l
        BY <3>1, <1>1, <1>5 DEF IdInv
      <3> QED
        BY <3>1, <3>2, <1>5, <1>8 DEF i
    <2>6. ASSUME NEW l \in Ids, v.memAddrs[l] # NoId \/ v.objIds[l] # NoId
          PROVE  \E p \in Ops : Busy(os2, p) /\ v.id[p] = l
      <3>1. l # i /\ (w.memAddrs[l] # NoId \/ w.objIds[l] # NoId)
        BY <2>6, <1>5
      <3>2. PICK p \in Ops : Busy(os, p) /\ w.id[p] = l
        BY <3>1, <1>1 DEF IdInv
      <3> QED
        BY <3>1, <3>2, <1>5, <1>8 DEF i
    <2> QED
      BY <2>1, <2>2, <2>3, <2>4, <2>5, <2>6 DEF IdInv
  <1>12. Rep(v, st, os2)
    BY <1>1, <1>5, <1>7, <1>9, <1>10, <1>11
    DEF Rep, Loose, Core, QueueInv, JobsInv, ActiveInv, HeapInv, SameQueue, SameC
  <1> QED
    BY <1>6, <1>12 DEF Good, v

\* The continuation of the await in the finally block.
LEMMA StepCleanup ==
    ASSUME Alone, NEW w, NEW st \in [Items -> Stages], NEW os \in [Ops -> Parts], Rep(w, st, os),
           w.jobs # <<>>, Head(w.jobs).at = "cleanup"
    PROVE  Good(Cleanup(Started(w), Head(w.jobs).op))
  <1> DEFINE o == Head(w.jobs).op
             v == Started(w)
             os2 == [os EXCEPT ![o] = "here"]
  <1>1. /\ o \in Ops /\ os[o] = "cleanup" /\ PartInv(w, st, os[o], o) /\ Rep(v, st, os2)
        /\ SameIds(v, w) /\ SameOps(v, w)
    BY TakeOwn DEF OwnJobs
  <1> HIDE DEF o, v
  <1>2. os2 \in [Ops -> AllParts] /\ os2[o] = "here" /\ Others(os2, o)
    BY <1>1 DEF AllParts, Others
  <1> HIDE DEF os2
  <1>3. Freed(v, st, o) /\ v.state[o] \in {"busy", "failing"}
    <2>1. SameOp(v, w, o) /\ SameCalls(st, st, o)
      BY <1>1 DEF SameOp, SameOps, SameIds, SameCalls
    <2>2. PartInv(v, st, "cleanup", o)
      BY <2>1, <1>1, PartFrame
    <2> QED
      BY <2>2 DEF PartInv
  <1>4. Good(Cleanup(v, o))
    BY <1>1, <1>2, <1>3, CleanupGoes
  <1> QED
    BY <1>4 DEF v, o

-----------------------------------------------------------------------------
(* The ids *)

\* While no id is free there is one for each operation in progress, and o is
\* not one of those.
LEMMA NextIdFits ==
    ASSUME NEW w \in World, NEW os, IdInv(w, os), w.freeIds = <<>>, NEW o \in Ops, ~Busy(os, o)
    PROVE  w.nextId \in Ids
  <1> DEFINE n == w.nextId
             S == 0 .. n - 1
             T == Ops \ {o}
             f == [i \in S |-> CHOOSE p \in Ops : Busy(os, p) /\ w.id[p] = i]
  <1>1. IsFiniteSet(Ops) /\ Cardinality(Ops) \in Nat
    BY HooksAssumption, FS_CardinalityType DEF HooksAssumption
  <1>2. n \in 0 .. Cardinality(Ops)
    BY DEF World
  <1>3. \A i \in S : \E p \in Ops : Busy(os, p) /\ w.id[p] = i
    <2>1. ToSet(w.freeIds) = {}
      BY DEF ToSet
    <2> QED
      BY <2>1 DEF IdInv
  <1>4. \A i \in S : f[i] \in Ops /\ Busy(os, f[i]) /\ w.id[f[i]] = i
    BY <1>3
  <1>5. f \in [S -> T] /\ \A i, j \in S : f[i] = f[j] => i = j
    BY <1>4
  <1> HIDE DEF f
  <1>6. f \in Injection(S, T)
    BY <1>5 DEF Injection, IsInjective
  <1>7. IsFiniteSet(T) /\ Cardinality(T) = Cardinality(Ops) - 1
    BY <1>1, FS_RemoveElement
  <1>8. Cardinality(S) <= Cardinality(T)
    BY <1>6, <1>7, FS_Injection
  <1>9. Cardinality(S) = n
    <2>1. 0 \in Int /\ n - 1 \in Int
      BY <1>1, <1>2
    <2>2. Cardinality(S) = IF 0 > n - 1 THEN 0 ELSE n - 1 - 0 + 1
      BY <2>1, FS_Interval
    <2> QED
      BY <2>2, <1>1, <1>2
  <1> QED
    BY <1>1, <1>2, <1>7, <1>8, <1>9 DEF Ids

\* getId: the id taken was nobody's.
Taken(w, os, id, next, free) ==
    /\ id \in Ids /\ next \in 0 .. Cardinality(Ops) /\ free \in Seq(Ids) /\ Once(free)
    /\ id \notin ToSet(free) /\ \A p \in Ops : Busy(os, p) => w.id[p] # id
    /\ ToSet(free) \subseteq ToSet(w.freeIds) /\ ToSet(w.freeIds) \subseteq ToSet(free) \cup {id}
    /\ 0 .. next - 1 = (0 .. w.nextId - 1) \cup {id}

LEMMA GetIdTakes ==
    ASSUME NEW w \in World, NEW os, IdInv(w, os), NEW o \in Ops, ~Busy(os, o)
    PROVE  Taken(w, os, GetId(w), IF w.freeIds = <<>> THEN w.nextId + 1 ELSE w.nextId, FreeIdsLeft(w))
  <1>1. /\ w.freeIds \in Seq(Ids) /\ Once(w.freeIds) /\ w.nextId \in 0 .. Cardinality(Ops)
        /\ ToSet(w.freeIds) \subseteq 0 .. w.nextId - 1
        /\ \A p \in Ops : Busy(os, p) => w.id[p] \in 0 .. w.nextId - 1 /\ w.id[p] \notin ToSet(w.freeIds)
    BY DEF World, IdInv
  <1>2. Cardinality(Ops) \in Nat
    BY HooksAssumption, FS_CardinalityType DEF HooksAssumption
  <1>3. CASE w.freeIds = <<>>
    <2>1. w.nextId \in Ids /\ GetId(w) = w.nextId /\ FreeIdsLeft(w) = <<>>
      BY <1>3, NextIdFits DEF GetId, FreeIdsLeft
    <2>2. <<>> \in Seq(Ids) /\ Once(<<>>) /\ ToSet(<<>>) = {}
      BY DEF Once, ToSet
    <2>3. w.nextId + 1 \in 0 .. Cardinality(Ops) /\ 0 .. (w.nextId + 1) - 1 = (0 .. w.nextId - 1) \cup {w.nextId}
      BY <2>1, <1>1, <1>2 DEF Ids
    <2>4. \A p \in Ops : Busy(os, p) => w.id[p] # w.nextId
      BY <1>1, <1>2
    <2>5. ToSet(w.freeIds) = ToSet(<<>>) /\ w.nextId \notin ToSet(<<>>)
      BY <2>2, <1>3
    <2>6. /\ ToSet(<<>>) \subseteq ToSet(w.freeIds)
          /\ ToSet(w.freeIds) \subseteq ToSet(<<>>) \cup {w.nextId}
      BY <2>5
    <2>7. Taken(w, os, w.nextId, w.nextId + 1, <<>>)
      BY <2>1, <2>2, <2>3, <2>4, <2>5, <2>6 DEF Taken
    <2> QED
      BY <2>1, <2>7, <1>3
  <1>4. CASE w.freeIds # <<>>
    <2> DEFINE q == w.freeIds
    <2>1. q \in Seq(Ids) /\ Once(q) /\ q # <<>>
      BY <1>1, <1>4
    <2>2. GetId(w) = Head(q) /\ FreeIdsLeft(w) = Tail(q)
      BY <1>4 DEF GetId, FreeIdsLeft
    <2> HIDE DEF q
    <2>3. /\ Tail(q) \in Seq(Ids) /\ Once(Tail(q)) /\ Head(q) \in Ids /\ Head(q) \in ToSet(q)
          /\ ToSet(Tail(q)) = ToSet(q) \ {Head(q)}
      BY <2>1, OnceTail
    <2>4. 0 .. w.nextId - 1 = (0 .. w.nextId - 1) \cup {Head(q)}
      BY <2>3, <1>1 DEF q
    <2>5. \A p \in Ops : Busy(os, p) => w.id[p] # Head(q)
      BY <2>3, <1>1 DEF q
    <2>6. Taken(w, os, Head(q), w.nextId, Tail(q))
      BY <2>3, <2>4, <2>5, <1>1 DEF Taken, q
    <2> QED
      BY <2>2, <2>6, <1>4
  <1> QED
    BY <1>3, <1>4

\* The program calls o: withHooks up to the body.
LEMMA StepCall ==
    ASSUME Alone, NEW w, NEW st \in [Items -> Stages], NEW os \in [Ops -> Parts], Rep(w, st, os),
           NEW o \in Ops, w.state[o] = "idle"
    PROVE  Good(Enhook(w, o))
  <1> DEFINE id == GetId(w)
             next == IF w.freeIds = <<>> THEN w.nextId + 1 ELSE w.nextId
             free == FreeIdsLeft(w)
             v == [w EXCEPT !.oldId[o] = w.hookId, !.id[o] = id,
                            !.nextId = IF w.freeIds = <<>> THEN @ + 1 ELSE @,
                            !.freeIds = FreeIdsLeft(w),
                            !.objIds[id] = <<>>, !.memAddrs[id] = <<>>,
                            !.state[o] = "busy"]
             u == MakeCurrent(v, id)
             os2 == [os EXCEPT ![o] = "here"]
  <1>1. w \in World /\ QueueInv(w, st) /\ JobsInv(w, st, os) /\ ActiveInv(w, st) /\ HeapInv(w, st)
        /\ MemInv(w, st, os) /\ IdInv(w, os) /\ \A p \in Ops : PartInv(w, st, os[p], p)
    BY DEF Rep, Loose, Core
  <1>2. os[o] = "idle" /\ Idle(w, st, o) /\ ~Busy(os, o)
    <2>1. PartInv(w, st, os[o], o) /\ os[o] \in Parts
      BY <1>1
    <2>2. os[o] = "idle"
      BY <2>1 DEF PartInv, Parts, OwnJobs, Mallocing, BeforeCall, AfterCall, Calling, Ending, Freeing
    <2> QED
      BY <2>1, <2>2 DEF PartInv, Busy
  <1>3. Taken(w, os, id, next, free)
    BY <1>1, <1>2, GetIdTakes
  <1>4. id \in Ids /\ next \in 0 .. Cardinality(Ops) /\ free \in Seq(Ids)
    BY <1>3 DEF Taken
  <1>5. Enhook(w, o) = Body(u, o)
    BY DEF Enhook
  <1> HIDE DEF id
  <1>6. /\ u \in World /\ u.jobs = w.jobs /\ SameQueue(u, w) /\ SameC(u, w)
        /\ u.pc = w.pc /\ u.used = w.used /\ u.waiting = w.waiting
        /\ u.hookId = id /\ u.nextId = next /\ u.freeIds = free
        /\ u.objIds[id] = <<>> /\ u.memAddrs[id] = <<>>
        /\ \A l \in Ids \ {id} : u.objIds[l] = w.objIds[l] /\ u.memAddrs[l] = w.memAddrs[l]
        /\ u.id[o] = id /\ u.state[o] = "busy" /\ \A p \in Ops \ {o} : u.id[p] = w.id[p] /\ u.state[p] = w.state[p]
    <2> DEFINE a == [w.objIds EXCEPT ![id] = <<>>]
               b == [w.memAddrs EXCEPT ![id] = <<>>]
               s == [w.state EXCEPT ![o] = "busy"]
               i == [w.id EXCEPT ![o] = id]
               d == [w.oldId EXCEPT ![o] = w.hookId]
               y == [w EXCEPT !.objIds = a, !.memAddrs = b, !.hookId = id, !.freeIds = free, !.state = s,
                              !.nextId = next, !.id = i, !.oldId = d]
    <2>1. /\ a \in [Ids -> {<<>>, NoId}] /\ a[id] = <<>> /\ \A l \in Ids \ {id} : a[l] = w.objIds[l]
      BY <1>1, <1>4 DEF World
    <2>2. /\ b \in [Ids -> Seq(Ops \X Nat) \cup {NoId}] /\ b[id] = <<>>
          /\ \A l \in Ids \ {id} : b[l] = w.memAddrs[l]
      BY <1>1, <1>4 DEF World
    <2>3. /\ s \in [Ops -> {"idle", "busy", "failing", "done", "failed"}] /\ s[o] = "busy"
          /\ \A p \in Ops \ {o} : s[p] = w.state[p]
      BY <1>1 DEF World
    <2>4. /\ i \in [Ops -> Ids \cup {NoId}] /\ i[o] = id /\ \A p \in Ops \ {o} : i[p] = w.id[p]
      BY <1>1, <1>4 DEF World
    <2>5. d \in [Ops -> Ids \cup {NoId}]
      BY <1>1 DEF World
    <2>6. u = y
      BY DEF MakeCurrent
    <2> HIDE DEF a, b, s, i, d, u, next, free
    <2>7. y \in World
      BY <1>1, <1>4, <2>1, <2>2, <2>3, <2>4, <2>5, ZenonT(60) DEF World
    <2>8. /\ y.jobs = w.jobs /\ SameQueue(y, w) /\ SameC(y, w) /\ y.id = i /\ y.nextId = next
          /\ y.pc = w.pc /\ y.used = w.used /\ y.waiting = w.waiting /\ y.freeIds = free
          /\ y.objIds = a /\ y.memAddrs = b /\ y.state = s /\ y.hookId = id
      BY <1>1 DEF World, SameQueue, SameC
    <2> HIDE DEF y
    <2> QED
      BY <2>1, <2>2, <2>3, <2>4, <2>6, <2>7, <2>8
  <1> HIDE DEF u, v, next, free
  <1>7. os2 \in [Ops -> AllParts] /\ os2[o] = "here" /\ Others(os2, o)
        /\ \A p \in Ops \ {o} : os2[p] = os[p]
    BY DEF Others, AllParts
  <1>8. JobSet(st, os2) = JobSet(st, os)
    <2>1. "here" \in AllParts /\ "here" \notin OwnJobs /\ "idle" \notin OwnJobs /\ os \in [Ops -> AllParts]
      BY DEF AllParts, Parts, OwnJobs
    <2>2. OpMoved(os2, st, os, o, "here")
      BY <2>1, <1>2, OpMoves
    <2>3. Job(o, "idle", NoItem) \notin JobSet(st, os)
      BY <2>1 DEF Job, JobSet, JobStages
    <2> QED
      BY <2>1, <2>2, <2>3, <1>2 DEF OpMoved
  <1> HIDE DEF os2
  <1>9. \A p \in Ops : Busy(os2, p) <=> p = o \/ Busy(os, p)
    BY <1>7 DEF Busy
  <1>10. Starting(u, st, o)
    BY <1>2, <1>6 DEF Idle, Starting
  <1>11. \A p \in Ops : PartInv(u, st, os2[p], p)
    <2>1. OnlyOf(u, w, st, st, os2, os, o)
      BY <1>6, <1>7 DEF OnlyOf, SameOp
    <2>2. ASSUME NEW p \in Ops \ {o} PROVE PartInv(u, st, os2[p], p)
      BY <2>1, <1>1, OthersSame
    <2>3. PartInv(u, st, "here", o)
      BY <1>10 DEF PartInv
    <2> QED
      BY <2>2, <2>3, <1>7
  <1>12. MemInv(u, st, os2)
    <2>1. u.memAddrs[id] # NoId /\ Once(u.memAddrs[id]) /\ ToSet(u.memAddrs[id]) = Filed(st, o)
      <3>1. <<>> \in Seq(Ops \X Nat) /\ Once(<<>>) /\ ToSet(<<>>) = {}
        BY DEF Once, ToSet
      <3>2. <<>> # NoId
        BY <3>1, HooksAssumption DEF HooksAssumption
      <3>3. Filed(st, o) = {}
        BY <1>2 DEF Idle, MallocsAre, Filed
      <3> QED
        BY <3>1, <3>2, <3>3, <1>6
    <2>2. ASSUME NEW p \in Ops \ {o}, Busy(os2, p)
          PROVE  /\ u.id[p] \in Ids /\ u.memAddrs[u.id[p]] # NoId /\ u.objIds[u.id[p]] = <<>>
                 /\ Once(u.memAddrs[u.id[p]]) /\ ToSet(u.memAddrs[u.id[p]]) = Filed(st, p)
      <3>1. Busy(os, p) /\ u.id[p] = w.id[p] /\ w.id[p] # id
        BY <2>2, <1>3, <1>6, <1>9 DEF Taken
      <3> QED
        BY <3>1, <1>1, <1>6 DEF MemInv
    <2> QED
      BY <2>1, <2>2, <1>4, <1>6 DEF MemInv
  <1>13. IdInv(u, os2)
    <2>1. /\ 0 .. u.nextId - 1 = (0 .. w.nextId - 1) \cup {id} /\ Once(u.freeIds) /\ id \notin ToSet(u.freeIds)
          /\ ToSet(u.freeIds) \subseteq ToSet(w.freeIds) /\ ToSet(w.freeIds) \subseteq ToSet(u.freeIds) \cup {id}
          /\ \A p \in Ops : Busy(os, p) => w.id[p] # id
      BY <1>3, <1>6 DEF Taken
    <2>2. \A p \in Ops : Busy(os2, p) => \/ p = o /\ u.id[p] = id
                                         \/ p # o /\ Busy(os, p) /\ u.id[p] = w.id[p] /\ w.id[p] # id
      BY <2>1, <1>2, <1>6, <1>9
    <2>3. \A p \in Ops : Busy(os2, p) => u.id[p] \in 0 .. u.nextId - 1
      BY <2>1, <2>2, <1>1 DEF IdInv
    <2>4. \A p, q \in Ops : Busy(os2, p) /\ Busy(os2, q) /\ u.id[p] = u.id[q] => p = q
      BY <2>2, <1>1 DEF IdInv
    <2>5. Once(u.freeIds) /\ ToSet(u.freeIds) \subseteq 0 .. u.nextId - 1
      BY <2>1, <1>1 DEF IdInv
    <2>6. \A p \in Ops : Busy(os2, p) => u.id[p] \notin ToSet(u.freeIds)
      BY <2>1, <2>2, <1>1 DEF IdInv
    <2>7. ASSUME NEW l \in 0 .. u.nextId - 1, l \notin ToSet(u.freeIds)
          PROVE  \E p \in Ops : Busy(os2, p) /\ u.id[p] = l
      <3>1. CASE l = id
        BY <3>1, <1>6, <1>9
      <3>2. CASE l # id
        <4>1. l \in 0 .. w.nextId - 1 /\ l \notin ToSet(w.freeIds)
          BY <3>2, <2>1, <2>7
        <4>2. PICK p \in Ops : Busy(os, p) /\ w.id[p] = l
          BY <4>1, <1>1 DEF IdInv
        <4>3. p # o
          BY <4>2, <1>2
        <4> QED
          BY <4>2, <4>3, <1>6, <1>9
      <3> QED
        BY <3>1, <3>2
    <2>8. ASSUME NEW l \in Ids, u.memAddrs[l] # NoId \/ u.objIds[l] # NoId
          PROVE  \E p \in Ops : Busy(os2, p) /\ u.id[p] = l
      <3>1. CASE l = id
        BY <3>1, <1>6, <1>9
      <3>2. CASE l # id
        <4>1. w.memAddrs[l] # NoId \/ w.objIds[l] # NoId
          BY <3>2, <2>8, <1>6
        <4>2. PICK p \in Ops : Busy(os, p) /\ w.id[p] = l
          BY <4>1, <1>1 DEF IdInv
        <4>3. p # o
          BY <4>2, <1>2
        <4> QED
          BY <4>2, <4>3, <1>6, <1>9
      <3> QED
        BY <3>1, <3>2
    <2> QED
      BY <2>3, <2>4, <2>5, <2>6, <2>7, <2>8 DEF IdInv
  <1>14. Rep(u, st, os2)
    BY <1>1, <1>6, <1>8, <1>11, <1>12, <1>13
    DEF Rep, Loose, Core, QueueInv, JobsInv, ActiveInv, HeapInv, SameQueue, SameC
  <1>15. u.hookId # NoId /\ u.hookId = u.id[o]
    BY <1>4, <1>6, HooksAssumption DEF HooksAssumption, Ids
  <1>16. Good(Body(u, o))
    BY <1>7, <1>10, <1>14, <1>15, BodyGoes
  <1> QED
    BY <1>5, <1>16

-----------------------------------------------------------------------------
(* The actions *)

\* The call in C has had its answer.
LEMMA StepAnswer ==
    ASSUME Alone, NEW w, NEW st \in [Items -> Stages], NEW os \in [Ops -> Parts], Rep(w, st, os), w.inC
    PROVE  Good(Push([w EXCEPT !.inC = FALSE], w.active.op, "run", w.active))
  <1> DEFINE it == w.active
             v == [w EXCEPT !.inC = FALSE]
             u == Push(v, it.op, "run", it)
             st2 == [st EXCEPT ![it] = "run"]
  <1>1. w \in World /\ QueueInv(w, st) /\ JobsInv(w, st, os) /\ ActiveInv(w, st) /\ HeapInv(w, st)
        /\ Core(w, st, os)
    BY DEF Rep, Loose
  <1>2. it \in Items /\ st[it] = "inC" /\ \A i \in Items \ {it} : st[i] \notin {"inC", "run"}
    BY <1>1 DEF ActiveInv
  <1>3. it.op \in Ops /\ it.what = "call"
    <2> DEFINE o == it.op
    <2>1. /\ o \in Ops
          /\ \/ it.what = "malloc" /\ \E k \in {1, 2} : it = M(o, k)
             \/ it.what = "free" /\ \E k \in {1, 2} : it = F(o, k)
             \/ it.what = "call" /\ it = C(o)
      BY <1>2, ItemKinds
    <2> HIDE DEF o
    <2>2. PartInv(w, st, os[o], o) /\ os[o] \in AllParts
      BY <2>1, <1>1 DEF Core, AllParts
    <2>3. \A k \in {1, 2} : st[M(o, k)] # "inC" /\ st[F(o, k)] # "inC"
      BY <2>1, <2>2, StageSays
    <2> QED
      BY <2>1, <2>3, <1>2 DEF o
  <1> HIDE DEF it
  <1>4. v \in World /\ v.jobs = w.jobs /\ v.queue = w.queue /\ v.active = it /\ v.inC = FALSE
        /\ SameC(v, w) /\ SameIds(v, w) /\ SameOps(v, w)
    <2>1. v \in World
      BY <1>1, ZenonT(60) DEF World
    <2> QED
      BY <2>1, <1>1 DEF World, SameC, SameIds, SameOps, it
  <1> HIDE DEF v
  <1>5. Pushed(u, v, Job(it.op, "run", it))
    BY <1>2, <1>3, <1>4, PushIs DEF JobStages
  <1> HIDE DEF u
  <1>6. u \in World /\ u.jobs = Append(w.jobs, Job(it.op, "run", it)) /\ u.queue = w.queue /\ u.active = it
        /\ u.inC = FALSE /\ SameC(u, w) /\ SameIds(u, w) /\ SameOps(u, w)
    BY <1>4, <1>5 DEF Pushed, SameQueue, SameC, SameIds, SameOps
  <1>7. st2 \in [Items -> Stages] /\ st2[it] = "run" /\ \A i \in Items \ {it} : st2[i] = st[i]
    BY <1>2 DEF Stages, JobStages
  <1>8. os \in [Ops -> AllParts] /\ "run" \in Stages /\ "run" \in JobStages /\ "inC" \notin JobStages
    BY DEF AllParts, Stages, JobStages
  <1>9. ItemMoved(st2, st, os, it, "run")
    BY <1>2, <1>8, ItemMoves
  <1>10. Core(u, st2, os)
    BY <1>1, <1>2, <1>3, <1>6, <1>8, CallStep
  <1>11. HeapInv(u, st2)
    <2>1. {st[it], "run"} \cap {"none", "queued"} = {}
      BY <1>2
    <2> QED
      BY <2>1, <1>1, <1>2, <1>6, HeapStays
  <1> HIDE DEF st2
  <1>12. QueueInv(u, st2)
    BY <1>1, <1>2, <1>6, <1>9 DEF QueueInv, ItemMoved, QueueSet
  <1>13. JobsInv(u, st2, os)
    <2> DEFINE new == Job(it.op, "run", it)
    <2>1. Job(it.op, "inC", it) \notin JobSet(st, os)
      BY <1>2, <1>8, ItemFacts DEF JobSet, Job
    <2>2. new \in Jobs \ JobSet(st, os) /\ JobSet(st2, os) = JobSet(st, os) \cup {new}
      BY <2>1, <1>2, <1>8, <1>9 DEF ItemMoved
    <2>3. w.jobs \in Seq(Jobs) /\ Once(w.jobs) /\ ToSet(w.jobs) = JobSet(st, os)
      BY <1>1 DEF World, JobsInv
    <2> HIDE DEF new
    <2>4. Once(Append(w.jobs, new)) /\ ToSet(Append(w.jobs, new)) = ToSet(w.jobs) \cup {new}
      BY <2>2, <2>3, OnceAppend
    <2> QED
      BY <2>2, <2>3, <2>4, <1>6 DEF JobsInv, new
  <1>14. ActiveInv(u, st2)
    BY <1>2, <1>6, <1>7 DEF ActiveInv
  <1>15. Rep(u, st2, os)
    BY <1>6, <1>10, <1>11, <1>12, <1>13, <1>14 DEF Rep, Loose
  <1> QED
    BY <1>7, <1>15 DEF Good, u, v, it

\* A job.
LEMMA StepJob ==
    ASSUME Alone, NEW w, NEW st \in [Items -> Stages], NEW os \in [Ops -> Parts], Rep(w, st, os),
           w.jobs # <<>>, NEW ok \in BOOLEAN
    PROVE  Good(Continue(Started(w), Head(w.jobs), ok))
  <1> DEFINE v == Started(w)
             j == Head(w.jobs)
  <1>1. w \in World /\ JobsInv(w, st, os)
    BY DEF Rep, Loose
  <1>2. j \in JobSet(st, os)
    BY <1>1, TakeJob
  <1>3. j.at \in {"run", "ccall", "buffer", "path", "element", "all", "body", "finally", "cleanup"}
    BY <1>2, JobIs DEF JobStages, OwnJobs
  <1>4. CASE j.at = "run"
    <2>1. Continue(v, j, ok) = RunContinues(v, j)
      BY <1>4 DEF Continue
    <2> QED
      BY <2>1, <1>4, StepRun
  <1>5. CASE j.at = "ccall"
    <2>1. Continue(v, j, ok) = CcallContinues(v, j, ok)
      BY <1>5 DEF Continue
    <2> QED
      BY <2>1, <1>5, StepCcall
  <1>6. CASE j.at = "buffer"
    <2>1. Continue(v, j, ok) = BufferReady(v, j.op, j.item)
      BY <1>6 DEF Continue
    <2> QED
      BY <2>1, <1>6, StepBuffer
  <1>7. CASE j.at = "path"
    <2>1. Continue(v, j, ok) = IF Kind[j.op] = "bothPaths" THEN Push(v, j.op, "element", j.item)
                               ELSE Push(v, j.op, "body", NoItem)
      BY <1>7 DEF Continue
    <2> QED
      BY <2>1, <1>7, StepPath
  <1>8. CASE j.at = "element"
    <2>1. Continue(v, j, ok) = OneOfAll(v, j.op, "body")
      BY <1>8 DEF Continue
    <2> QED
      BY <2>1, <1>8, StepElement
  <1>9. CASE j.at = "body"
    <2>1. Continue(v, j, ok) = IF v.state[j.op] = "failing" THEN Push(v, j.op, "finally", NoItem)
                               ELSE Body(v, j.op)
      BY <1>9 DEF Continue
    <2> QED
      BY <2>1, <1>9, StepBody
  <1>10. CASE j.at = "finally"
    <2>1. Continue(v, j, ok) = Finally(v, j.op)
      BY <1>10 DEF Continue
    <2> QED
      BY <2>1, <1>10, StepFinally
  <1>11. CASE j.at = "all"
    <2>1. Continue(v, j, ok) = OneOfAll(v, j.op, "cleanup")
      BY <1>11 DEF Continue
    <2> QED
      BY <2>1, <1>11, StepAll
  <1>12. CASE j.at = "cleanup"
    <2>1. Continue(v, j, ok) = Cleanup(v, j.op)
      BY <1>12 DEF Continue
    <2> QED
      BY <2>1, <1>12, StepCleanup
  <1> QED
    BY <1>3, <1>4, <1>5, <1>6, <1>7, <1>8, <1>9, <1>10, <1>11, <1>12

\* At first no call is made and every operation is idle.
LEMMA InitGood ==
    ASSUME Alone, Init
    PROVE  Inv
  <1> DEFINE st == [it \in Items |-> "none"]
             os == [o \in Ops |-> "idle"]
  <1>1. Cardinality(Ops) \in Nat
    BY HooksAssumption, FS_CardinalityType DEF HooksAssumption
  <1>2. st \in [Items -> Stages] /\ os \in [Ops -> Parts] /\ "none" \notin JobStages /\ "idle" \notin OwnJobs
    BY DEF Stages, Parts, JobStages, OwnJobs
  <1>3. js \in World
    BY <1>1 DEF Init, World
  <1>4. QueueSet(st) = {} /\ JobSet(st, os) = {}
    <2>1. \A it \in Items : st[it] \notin JobStages \cup {"queued"}
      BY <1>2
    <2>2. \A j \in Jobs : j.op \in Ops /\ os[j.op] \notin OwnJobs
      BY <1>2 DEF Jobs
    <2> QED
      BY <2>1, <2>2 DEF QueueSet, JobSet
  <1>5. QueueInv(js, st) /\ JobsInv(js, st, os)
    BY <1>4 DEF Init, QueueInv, JobsInv, Once, ToSet
  <1>6. ActiveInv(js, st)
    BY ItemFacts DEF Init, ActiveInv
  <1>7. HeapInv(js, st)
    BY ItemFacts DEF Init, HeapInv
  <1>8. \A o \in Ops : PartInv(js, st, os[o], o)
    <2> TAKE o \in Ops
    <2>1. MallocsAre(st, o, {"none"}) /\ CallIs(st, o, {"none"}) /\ FreesAre(st, o, {"none"})
      BY ItemFacts DEF MallocsAre, CallIs, FreesAre
    <2>2. js.state[o] = "idle" /\ js.pc[o] = 0 /\ js.waiting[o] = 0 /\ js.used[o] = <<>>
      BY DEF Init
    <2>3. Idle(js, st, o)
      BY <2>1, <2>2 DEF Idle
    <2> QED
      BY <2>3 DEF PartInv
  <1>9. \A o \in Ops : ~Busy(os, o)
    BY DEF Busy
  <1>10. MemInv(js, st, os)
    BY <1>9 DEF MemInv
  <1>11. IdInv(js, os)
    <2>1. js.nextId = 0 /\ js.freeIds = <<>> /\ \A i \in Ids : js.memAddrs[i] = NoId /\ js.objIds[i] = NoId
      BY DEF Init
    <2>2. Once(<<>>) /\ ToSet(<<>>) = {} /\ 0 .. 0 - 1 = {}
      BY DEF Once, ToSet
    <2> QED
      BY <2>1, <2>2, <1>9 DEF IdInv
  <1>12. Rep(js, st, os)
    BY <1>3, <1>5, <1>6, <1>7, <1>8, <1>10, <1>11 DEF Rep, Loose, Core
  <1> QED
    BY <1>2, <1>12 DEF Inv, Good

\* Every action keeps the invariant.
LEMMA NextKeeps ==
    ASSUME Alone, Inv, [Next]_vars
    PROVE  Inv'
  <1>1. PICK st \in [Items -> Stages], os \in [Ops -> Parts] : Rep(js, st, os)
    BY DEF Inv, Good
  <1>2. CASE RunJob
    <2>1. PICK ok \in BOOLEAN : js.jobs # <<>> /\ js' = Continue(Started(js), Head(js.jobs), ok)
      BY <1>2 DEF RunJob, Started
    <2>2. Good(Continue(Started(js), Head(js.jobs), ok))
      BY <1>1, <2>1, StepJob
    <2> QED
      BY <2>1, <2>2 DEF Inv, Good
  <1>3. CASE DiskAnswers
    <2>1. js.inC /\ js' = Push([js EXCEPT !.inC = FALSE], js.active.op, "run", js.active)
      BY <1>3 DEF DiskAnswers
    <2>2. Good(Push([js EXCEPT !.inC = FALSE], js.active.op, "run", js.active))
      BY <1>1, <2>1, StepAnswer
    <2> QED
      BY <2>1, <2>2 DEF Inv, Good
  <1>4. CASE \E o \in Ops : Call(o)
    <2>1. PICK o \in Ops : js.state[o] = "idle" /\ js' = Enhook(js, o)
      BY <1>4 DEF Call
    <2>2. Good(Enhook(js, o))
      BY <1>1, <2>1, StepCall
    <2> QED
      BY <2>1, <2>2 DEF Inv, Good
  <1>5. CASE UNCHANGED vars
    BY <1>5 DEF vars, Inv
  <1> QED
    BY <1>2, <1>3, <1>4, <1>5 DEF Next

LEMMA InvAlways ==
    ASSUME Alone
    PROVE  Spec => []Inv
  <1>1. Init => Inv
    BY InitGood
  <1>2. Inv /\ [Next]_vars => Inv'
    BY NextKeeps
  <1> QED
    BY <1>1, <1>2, PTL DEF Spec

\* Only the buffers of the plan are asked for, and what the state of an
\* operation says of its part.
Asked(st, o)    == \A k \in {1, 2} : st[M(o, k)] # "none" => k <= Buffers(o)
AllFreed(st, o) == \A k \in {1, 2} : st[M(o, k)] # "none" => st[F(o, k)] = "over"
Waits(w, o)     == w.state[o] \in {"busy", "failing"}

LEMMA PartSays ==
    ASSUME Alone, NEW w, NEW st, NEW part \in Parts, NEW o \in Ops, PartInv(w, st, part, o)
    PROVE  /\ Asked(st, o)
           /\ Waits(w, o) <=> part \notin {"idle", "over"}
           /\ part \in {"idle", "over"} => AllFreed(st, o)
  <1>1. Idle(w, st, o) => Asked(st, o) /\ AllFreed(st, o) /\ ~Waits(w, o)
    BY DEF Idle, MallocsAre, Asked, AllFreed, Waits
  <1>2. Freed(w, st, o) => Asked(st, o) /\ AllFreed(st, o)
    BY DEF Freed, MallocsAre, FreesAre, Asked, AllFreed
  <1>3. /\ Mallocing(w, st, o) => Asked(st, o) /\ Waits(w, o)
        /\ Calling(w, st, o) => Asked(st, o) /\ Waits(w, o)
        /\ BeforeCall(w, st, o) => Asked(st, o) /\ Waits(w, o)
        /\ AfterCall(w, st, o) => Asked(st, o) /\ Waits(w, o)
        /\ Ending(w, st, o) => Asked(st, o) /\ Waits(w, o)
        /\ Freeing(w, st, o) => Asked(st, o) /\ Waits(w, o)
    BY DEF Mallocing, Calling, BeforeCall, AfterCall, Ending, Freeing, MallocsAre, Asked, Waits
  <1>4. CASE part = "idle"
    BY <1>1, <1>4 DEF PartInv
  <1>5. CASE part = "over"
    <2>1. ~Waits(w, o) /\ Freed(w, st, o)
      BY <1>5 DEF PartInv, Waits
    <2> QED
      BY <2>1, <1>2, <1>5
  <1>6. CASE part = "cleanup"
    <2>1. Waits(w, o) /\ Freed(w, st, o)
      BY <1>6 DEF PartInv, Waits
    <2> QED
      BY <2>1, <1>2, <1>6
  <1>7. CASE part \in {"mallocs", "call", "body", "finally", "frees"}
    <2>1. Asked(st, o) /\ Waits(w, o)
      BY <1>3, <1>7 DEF PartInv
    <2> QED
      BY <2>1, <1>7
  <1> QED
    BY <1>4, <1>5, <1>6, <1>7 DEF Parts, OwnJobs

-----------------------------------------------------------------------------
(* What the invariant says *)

LEMMA InvSays ==
    ASSUME Alone, Inv
    PROVE  TypeOK /\ OwnMemory /\ NoMisuse /\ NoHookErrors
  <1>1. PICK st \in [Items -> Stages], os \in [Ops -> Parts] : Rep(js, st, os)
    BY DEF Inv, Good
  <1>2. js \in World /\ HeapInv(js, st) /\ MemInv(js, st, os) /\ \A o \in Ops : PartInv(js, st, os[o], o)
    BY <1>1 DEF Rep, Loose, Core
  <1>3. \A o \in Ops : Asked(st, o) /\ (Running(o) => Busy(os, o))
    <2> TAKE o \in Ops
    <2>1. os[o] \in Parts
      BY <1>1
    <2>2. Asked(st, o) /\ (Waits(js, o) <=> os[o] \notin {"idle", "over"})
      BY <1>2, <2>1, PartSays
    <2> QED
      BY <2>2 DEF Waits, Busy, Running
  <1>4. \A o \in Ops, k \in {1, 2} : k <= Buffers(o) => <<o, k>> \in Pointers(o)
    <2> TAKE o \in Ops, k \in {1, 2}
    <2>1. Buffers(o) \in 0 .. 2 /\ Pointers(o) = {<<o, l>> : l \in 1 .. Buffers(o)}
      BY KindFacts
    <2>2. k <= Buffers(o) => k \in 1 .. Buffers(o)
      BY <2>1
    <2> QED
      BY <2>1, <2>2
  <1>5. TypeOK
    <2>1. js.hookId \in Ids \cup {NoId} /\ js.nextId \in 0 .. Cardinality(Ops) /\ js.objects \subseteq Ops
          /\ \A o \in Ops : js.state[o] \in {"idle", "busy", "failing", "done", "failed"}
      BY <1>2 DEF World
    <2>2. ASSUME NEW x \in js.heap PROVE x \in UNION {Pointers(o) : o \in Ops}
      <3>1. PICK o \in Ops, k \in {1, 2} : x = <<o, k>>
        BY <1>2 DEF World
      <3>2. st[M(o, k)] # "none"
        BY <3>1, <1>2 DEF HeapInv
      <3>3. x \in Pointers(o)
        BY <3>1, <3>2, <1>3, <1>4 DEF Asked
      <3> QED
        BY <3>3
    <2> QED
      BY <2>1, <2>2 DEF TypeOK
  <1>6. OwnMemory
    <2>1. ASSUME NEW o \in Ops, Running(o) PROVE ToSet(js.memAddrs[js.id[o]]) \subseteq Pointers(o)
      <3>1. ToSet(js.memAddrs[js.id[o]]) = Filed(st, o)
        BY <2>1, <1>2, <1>3 DEF MemInv
      <3> QED
        BY <3>1, <1>3, <1>4 DEF Filed, Asked
    <2> QED
      BY <2>1 DEF OwnMemory
  <1>7. NoMisuse /\ NoHookErrors
    BY <1>2 DEF World, NoMisuse, NoHookErrors
  <1> QED
    BY <1>5, <1>6, <1>7

LEMMA InvLeavesNothing ==
    ASSUME Alone, Inv
    PROVE  NothingLeaks
  <1> SUFFICES ASSUME \A o \in Ops : ~Running(o)
               PROVE  /\ js.heap = {} /\ js.objects = {}
                      /\ \A i \in Ids : js.memAddrs[i] = NoId /\ js.objIds[i] = NoId
                      /\ Len(js.freeIds) = js.nextId
    BY DEF NothingLeaks
  <1>1. PICK st \in [Items -> Stages], os \in [Ops -> Parts] : Rep(js, st, os)
    BY DEF Inv, Good
  <1>2. js \in World /\ HeapInv(js, st) /\ IdInv(js, os) /\ \A o \in Ops : PartInv(js, st, os[o], o)
    BY <1>1 DEF Rep, Loose, Core
  <1>3. \A o \in Ops : ~Busy(os, o) /\ AllFreed(st, o)
    <2> TAKE o \in Ops
    <2>1. os[o] \in Parts
      BY <1>1
    <2>2. (Waits(js, o) <=> os[o] \notin {"idle", "over"}) /\ (os[o] \in {"idle", "over"} => AllFreed(st, o))
      BY <1>2, <2>1, PartSays
    <2> QED
      BY <2>2 DEF Waits, Busy, Running
  <1>4. js.heap = {} /\ js.objects = {}
    <2>1. js.heap \subseteq Ops \X {1, 2} /\ js.objects = {}
      BY <1>2 DEF World
    <2>2. \A o \in Ops, k \in {1, 2} : <<o, k>> \notin js.heap
      BY <1>2, <1>3 DEF HeapInv, AllFreed
    <2>3. \A x \in Ops \X {1, 2} : x = <<x[1], x[2]>> /\ x[1] \in Ops /\ x[2] \in {1, 2}
      OBVIOUS
    <2>4. \A x \in Ops \X {1, 2} : x \notin js.heap
      BY <2>2, <2>3
    <2> QED
      BY <2>1, <2>4
  <1>5. \A i \in Ids : js.memAddrs[i] = NoId /\ js.objIds[i] = NoId
    BY <1>2, <1>3 DEF IdInv
  <1>6. Len(js.freeIds) = js.nextId
    <2> DEFINE q == js.freeIds
               n == js.nextId
               S == 1 .. Len(q)
               T == 0 .. n - 1
               f == [k \in S |-> q[k]]
    <2>1. q \in Seq(Ids) /\ Len(q) \in Nat /\ n \in Nat /\ Once(q) /\ ToSet(q) = T
      <3>1. Cardinality(Ops) \in Nat
        BY HooksAssumption, FS_CardinalityType DEF HooksAssumption
      <3>2. q \in Seq(Ids) /\ n \in 0 .. Cardinality(Ops)
        BY <1>2 DEF World
      <3>3. Once(q) /\ ToSet(q) = T
        BY <1>2, <1>3 DEF IdInv
      <3> QED
        BY <3>1, <3>2, <3>3
    <2> HIDE DEF q, n
    <2>2. \A i \in T : \E k \in S : q[k] = i
      BY <2>1, Elements
    <2>3. \A k \in S : q[k] \in T
      BY <2>1, Elements
    <2>4. f \in [S -> T] /\ (\A i \in T : \E k \in S : f[k] = i) /\ \A k, l \in S : f[k] = f[l] => k = l
      BY <2>1, <2>2, <2>3 DEF Once
    <2> HIDE DEF f
    <2>5. f \in Surjection(S, T) /\ f \in Injection(S, T)
      BY <2>4 DEF Surjection, Injection, IsInjective
    <2>6. IsFiniteSet(S) /\ Cardinality(S) = Len(q) /\ IsFiniteSet(T) /\ Cardinality(T) = n
      <3>1. 1 \in Int /\ Len(q) \in Int /\ 0 \in Int /\ n - 1 \in Int
        BY <2>1
      <3>2. /\ IsFiniteSet(S) /\ Cardinality(S) = IF 1 > Len(q) THEN 0 ELSE Len(q) - 1 + 1
            /\ IsFiniteSet(T) /\ Cardinality(T) = IF 0 > n - 1 THEN 0 ELSE n - 1 - 0 + 1
        BY <3>1, FS_Interval
      <3> QED
        BY <3>2, <2>1
    <2>7. Cardinality(T) = Cardinality(S)
      BY <2>5, <2>6, FS_Surjection
    <2> QED
      BY <2>6, <2>7 DEF q, n
  <1> QED
    BY <1>4, <1>5, <1>6

-----------------------------------------------------------------------------
(* The theorems *)

\* The heap of JavaScript stays well formed: the current id and the counter of
\* getIdManager stay among as many ids as there are operations, because an id
\* given back is given out again before a fresh one, and the memory of C is
\* that of the buffers asked for.
THEOREM HooksTypeCorrect == ASSUME Alone PROVE Spec => []TypeOK
  <1>1. Inv => TypeOK
    BY InvSays
  <1> QED
    BY <1>1, InvAlways, PTL

\* Whatever the other operations do to hookId while it waits, an operation
\* that reads it only before its first await files, and so frees, its own
\* memory and no other's.
THEOREM HooksFreeTheirOwn == ASSUME Alone PROVE Spec => []OwnMemory
  <1>1. Inv => OwnMemory
    BY InvSays
  <1> QED
    BY <1>1, InvAlways, PTL

\* C is never called with memory that was freed, and frees nothing twice, in
\* any order of the continuations and of the answers of the disk.
THEOREM MemoryIsUsedWell == ASSUME Alone PROVE Spec => []NoMisuse
  <1>1. Inv => NoMisuse
    BY InvSays
  <1> QED
    BY <1>1, InvAlways, PTL

\* A hook always finds an id, and its Maps an entry for it: an operation fails
\* only with the error of its own C call.
THEOREM HooksFindTheirId == ASSUME Alone PROVE Spec => []NoHookErrors
  <1>1. Inv => NoHookErrors
    BY InvSays
  <1> QED
    BY <1>1, InvAlways, PTL

\* Once no operation is in progress the memory of C, the arrays, the entries
\* of the Maps and the ids have all been given back, those of operations that
\* failed too.
THEOREM AllIsGivenBack == ASSUME Alone PROVE Spec => []NothingLeaks
  <1>1. Inv => NothingLeaks
    BY InvLeavesNothing
  <1> QED
    BY <1>1, InvAlways, PTL

=============================================================================
