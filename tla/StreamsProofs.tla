--------------------------- MODULE StreamsProofs ---------------------------
(***************************************************************************)
(* No stream of any number of pipes uses a descriptor that is closed: the  *)
(* order of the calls that wait for C, with what each stream awaits.       *)
(*                                                                         *)
(* Each pipe writes the bytes it has read, in order: the slices of pools   *)
(* keep their bytes, and the lists of a pipe, joined, go on where its      *)
(* destination ends.                                                       *)
(***************************************************************************)
EXTENDS Streams, FiniteSetTheorems, SequenceTheorems, WellFoundedInduction, TLAPS

-----------------------------------------------------------------------------
(* The calls that wait for C *)

Calls == [op : {"open", "close", "malloc", "read", "write"}, of : Streams]
In(q, c) == \E k \in 1 .. Len(q) : q[k] = c
\* Every c comes before every d.
Before(q, c, d) == \A j, k \in 1 .. Len(q) : q[j] = c /\ q[k] = d => j < k
Once(q) == \A j, k \in 1 .. Len(q) : q[j] = q[k] => j = k
Line(q) == q \in Seq(Calls) /\ Once(q)

\* r is q without the calls gone, which are first, and with the calls new at its end.
Moves(q, r, gone, new) ==
    /\ Line(r)
    /\ \A c : In(r, c) <=> (In(q, c) /\ c \notin gone) \/ c \in new
    /\ \A c, d : c \notin new /\ Before(q, c, d) => Before(r, c, d)
    /\ \A c, d : c \notin new /\ d \in new => Before(r, c, d)

LEMMA Stays == ASSUME NEW q, Line(q) PROVE Moves(q, q, {}, {})
  BY DEF Moves

LEMMA First ==
    ASSUME NEW q, Line(q), q # <<>>
    PROVE  /\ Moves(q, Tail(q), {Head(q)}, {}) /\ In(q, Head(q))
           /\ \A c : c # Head(q) /\ Before(q, c, Head(q)) => ~In(q, c)
  <1>1. q \in Seq(Calls) /\ Tail(q) \in Seq(Calls) /\ Len(q) \in Nat /\ Len(q) >= 1 /\ Head(q) = q[1]
    BY DEF Line
  <1>2. Len(Tail(q)) = Len(q) - 1 /\ \A k \in 1 .. Len(Tail(q)) : Tail(q)[k] = q[k + 1]
    BY <1>1
  <1>3. Line(Tail(q))
    BY <1>1, <1>2 DEF Line, Once
  <1>4. ASSUME NEW c PROVE In(Tail(q), c) <=> In(q, c) /\ c # Head(q)
    <2>1. ASSUME In(Tail(q), c) PROVE In(q, c) /\ c # Head(q)
      <3>1. PICK k \in 1 .. Len(Tail(q)) : Tail(q)[k] = c
        BY <2>1 DEF In
      <3>2. k + 1 \in 1 .. Len(q) /\ 1 \in 1 .. Len(q) /\ q[k + 1] = c /\ k + 1 # 1
        BY <1>1, <1>2, <3>1
      <3> QED
        BY <1>1, <3>2 DEF In, Line, Once
    <2>2. ASSUME In(q, c), c # Head(q) PROVE In(Tail(q), c)
      <3>1. PICK k \in 1 .. Len(q) : q[k] = c
        BY <2>2 DEF In
      <3>2. k - 1 \in 1 .. Len(Tail(q)) /\ k - 1 + 1 = k
        BY <1>1, <1>2, <2>2, <3>1
      <3> QED
        BY <1>2, <3>1, <3>2 DEF In
    <2> QED
      BY <2>1, <2>2
  <1>5. ASSUME NEW c, NEW d, Before(q, c, d) PROVE Before(Tail(q), c, d)
    <2> SUFFICES ASSUME NEW j \in 1 .. Len(Tail(q)), NEW k \in 1 .. Len(Tail(q)),
                        Tail(q)[j] = c, Tail(q)[k] = d
                 PROVE  j < k
      BY DEF Before
    <2>1. j + 1 \in 1 .. Len(q) /\ k + 1 \in 1 .. Len(q) /\ q[j + 1] = c /\ q[k + 1] = d
      BY <1>1, <1>2
    <2>2. j + 1 < k + 1
      BY <1>5, <2>1 DEF Before
    <2> QED
      BY <1>1, <1>2, <2>2
  <1>6. In(q, Head(q)) /\ \A c : c # Head(q) /\ Before(q, c, Head(q)) => ~In(q, c)
    BY <1>1 DEF In, Before
  <1> QED
    BY <1>3, <1>4, <1>5, <1>6 DEF Moves

LEMMA Joins ==
    ASSUME NEW q, Line(q), NEW c \in Calls, ~In(q, c)
    PROVE  Moves(q, Append(q, c), {}, {c})
  <1>1. /\ q \in Seq(Calls) /\ Append(q, c) \in Seq(Calls) /\ Len(q) \in Nat
        /\ Len(Append(q, c)) = Len(q) + 1 /\ Append(q, c)[Len(q) + 1] = c
        /\ \A k \in 1 .. Len(q) : Append(q, c)[k] = q[k]
    BY DEF Line
  <1> DEFINE r == Append(q, c)
  <1> HIDE DEF r
  <1>2. /\ r \in Seq(Calls) /\ Len(r) = Len(q) + 1 /\ r[Len(q) + 1] = c
        /\ \A k \in 1 .. Len(q) : r[k] = q[k]
        /\ \A k \in 1 .. Len(r) : k \in 1 .. Len(q) \/ k = Len(q) + 1
        /\ \A k \in 1 .. Len(q) : k \in 1 .. Len(r)
        /\ Len(q) + 1 \in 1 .. Len(r)
    BY <1>1 DEF r
  <1>3. \A k \in 1 .. Len(q) : q[k] # c /\ k < Len(q) + 1
    BY <1>1 DEF In
  <1>4. Line(r)
    BY <1>2, <1>3 DEF Line, Once
  <1>5. \A d : In(r, d) <=> In(q, d) \/ d = c
    BY <1>2 DEF In
  <1>6. \A d, e : d # c /\ Before(q, d, e) => Before(r, d, e)
    BY <1>2, <1>3 DEF Before
  <1>7. \A d : d # c => Before(r, d, c)
    BY <1>2, <1>3 DEF Before
  <1> QED
    BY <1>4, <1>5, <1>6, <1>7 DEF Moves, r

\* One after the other.
LEMMA Both ==
    ASSUME NEW q, NEW r, NEW s, NEW gone, NEW new,
           Moves(q, r, gone, {}), Moves(r, s, {}, new)
    PROVE  Moves(q, s, gone, new)
  BY DEF Moves

LEMMA Joined ==
    ASSUME NEW q, NEW s \in Seq(Calls), NEW c
    PROVE  s \o <<>> = s /\ (c \in Calls => s \o <<c>> = Append(s, c))
  OBVIOUS


-----------------------------------------------------------------------------
(* The invariant *)

Fields == [fd : {"opening", "open", "closed"}, destroyed : BOOLEAN, isClosed : BOOLEAN,
           closeWaits : BOOLEAN]

\* C has the file of x while x has an open descriptor, and a close of it waits for C
\* from the moment that it is destroyed as well.  Whatever else closes a stream
\* destroys it, and it is destroyed once.
Closes(x) ==
    /\ x \in cOpen <=> stream[x].fd = "open"
    /\ In(queue, Call("open", x)) => stream[x].fd = "opening"
    /\ In(queue, Call("close", x)) <=> stream[x].fd = "open" /\ stream[x].destroyed
    /\ stream[x].fd = "closed" \/ stream[x].isClosed \/ stream[x].closeWaits => stream[x].destroyed
    /\ stream[x].fd = "opening" /\ stream[x].destroyed => stream[x].closeWaits

\* A stream that waits for memory to read is not destroyed, and a read of C comes
\* before the close.
Reads(p) ==
    /\ In(queue, Call("malloc", R(p))) =>
          reading[p] = "malloc" /\ stream[R(p)].fd = "open" /\ ~stream[R(p)].destroyed
    /\ In(queue, Call("read", R(p))) => reading[p] = "read" /\ stream[R(p)].fd = "open"
    /\ Before(queue, Call("read", R(p)), Call("close", R(p)))
    /\ ended[p] => reading[p] = "idle"

\* One that waits for memory to write may be destroyed, if it was between two chunks
\* of _writev: then the close comes first, and the write will find no flags.
Writes(p) ==
    /\ In(queue, Call("malloc", W(p))) => writing[p] = "malloc" /\ stream[W(p)].fd # "opening"
    /\ Before(queue, Call("close", W(p)), Call("malloc", W(p)))
    /\ In(queue, Call("write", W(p))) =>
          \/ /\ writing[p] = "write" /\ stream[W(p)].fd = "open"
             /\ Before(queue, Call("write", W(p)), Call("close", W(p)))
          \/ writing[p] = "noFlags" /\ stream[W(p)].fd = "closed"

Typed == /\ Line(queue)
         /\ stream \in [Streams -> Fields]
         /\ reading \in [Pipes -> {"idle", "malloc", "read", "failed"}]
         /\ writing \in [Pipes -> {"idle", "malloc", "write", "noFlags", "failed"}]
         /\ ended \in [Pipes -> BOOLEAN]

SInv == /\ Typed /\ NoMisuse
        /\ \A x \in Streams : Closes(x)
        /\ \A p \in Pipes : Reads(p) /\ Writes(p)

LEMMA CallIs ==
    /\ \A a, b, x, y : Call(a, x) = Call(b, y) <=> a = b /\ x = y
    /\ \A p, q : (R(p) = R(q) <=> p = q) /\ (W(p) = W(q) <=> p = q) /\ R(p) # W(q)
    /\ \A p \in Pipes : R(p) \in Streams /\ W(p) \in Streams
    /\ \A x \in Streams : \E p \in Pipes : x = R(p) \/ x = W(p)
    /\ \A x \in Streams : /\ Call("open", x) \in Calls /\ Call("close", x) \in Calls
                          /\ Call("malloc", x) \in Calls /\ Call("read", x) \in Calls
                          /\ Call("write", x) \in Calls
  BY DEF Call, R, W, Streams, Calls

\* What a step that is about other streams leaves alone.
LEMMA ClosesKept ==
    ASSUME NEW x, Closes(x), NEW gone, NEW new, Moves(queue, queue', gone, new),
           stream'[x] = stream[x], x \in cOpen' <=> x \in cOpen,
           Call("close", x) \notin gone \cup new, Call("open", x) \notin new
    PROVE  Closes(x)'
  BY DEF Moves, Closes

LEMMA ReadsKept ==
    ASSUME NEW p, Reads(p), NEW gone, NEW new, Moves(queue, queue', gone, new),
           stream'[R(p)] = stream[R(p)], reading'[p] = reading[p], ended'[p] = ended[p],
           Call("malloc", R(p)) \notin new, Call("read", R(p)) \notin new
    PROVE  Reads(p)'
  BY DEF Moves, Reads

LEMMA WritesKept ==
    ASSUME NEW p, Writes(p), NEW gone, NEW new, Moves(queue, queue', gone, new),
           stream'[W(p)] = stream[W(p)], writing'[p] = writing[p],
           Call("malloc", W(p)) \notin new, Call("write", W(p)) \notin new, Call("close", W(p)) \notin new
    PROVE  Writes(p)'
  BY DEF Moves, Writes

\* The call that C answers.
LEMMA Answers ==
    ASSUME SInv, NEW op, NEW x, Answered(op, x)
    PROVE  /\ Moves(queue, Tail(queue), {Call(op, x)}, {}) /\ In(queue, Call(op, x))
           /\ \A c : c # Call(op, x) /\ Before(queue, c, Call(op, x)) => ~In(queue, c)
           /\ Tail(queue) \in Seq(Calls)
  <1>1. Line(queue) /\ queue # <<>> /\ Head(queue) = Call(op, x)
    BY DEF SInv, Typed, Answered
  <1>2. Moves(queue, Tail(queue), {Head(queue)}, {})
    BY <1>1, First
  <1>3. Tail(queue) \in Seq(Calls)
    BY <1>2 DEF Moves, Line
  <1> QED
    BY <1>1, <1>2, <1>3, First

\* A stream that is destroyed, after the calls r.
LEMMA Destroys ==
    ASSUME SInv, NEW x \in Streams, NEW r, NEW gone, Moves(queue, r, gone, {}),
           \A y : Call("close", y) \notin gone, DestroyAfter(x, r), cOpen' = cOpen
    PROVE  \E new : /\ new \subseteq {Call("close", x)} /\ Moves(queue, queue', gone, new)
                    /\ stream' \in [Streams -> Fields] /\ Closes(x)'
                    /\ stream'[x].fd = stream[x].fd /\ stream'[x].destroyed
                    /\ \A y \in Streams \ {x} : stream'[y] = stream[y]
  <1>1. Closes(x) /\ stream \in [Streams -> Fields] /\ stream[x] \in Fields
    BY DEF SInv, Typed
  <1>2. r \in Seq(Calls) /\ Line(r) /\ (In(r, Call("close", x)) <=> In(queue, Call("close", x)))
    BY DEF Moves, Line
  <1>3. /\ stream' = [stream EXCEPT ![x] = DestroyFields(@)]
        /\ queue' = r \o DestroyCalls(x, stream[x])
    BY DEF DestroyAfter
  <1>4. DestroyFields(stream[x]) \in Fields
    BY <1>1 DEF DestroyFields, CloseFields, Fields
  <1>5. /\ stream' \in [Streams -> Fields] /\ stream'[x] = DestroyFields(stream[x])
        /\ \A y \in Streams \ {x} : stream'[y] = stream[y]
    BY <1>1, <1>3, <1>4
  <1>6. CASE stream[x].destroyed
    <2>1. DestroyCalls(x, stream[x]) = <<>> /\ stream'[x] = stream[x]
      BY <1>5, <1>6 DEF DestroyCalls, DestroyFields
    <2>2. Moves(queue, queue', gone, {})
      BY <1>2, <1>3, <2>1, Joined
    <2>3. Closes(x)'
      BY <1>1, <2>1, <2>2, ClosesKept
    <2> QED
      BY <1>5, <1>6, <2>1, <2>2, <2>3
  <1>7. CASE ~stream[x].destroyed
    <2>1. ~stream[x].isClosed /\ ~stream[x].closeWaits /\ stream[x].fd # "closed"
          /\ ~In(queue, Call("close", x))
      BY <1>1, <1>7 DEF Closes, Fields
    <2>2. CASE stream[x].fd = "open"
      <3>1. DestroyCalls(x, stream[x]) = <<Call("close", x)>>
        BY <1>7, <2>1, <2>2 DEF DestroyCalls, CloseCalls
      <3>2. stream'[x].fd = "open" /\ stream'[x].destroyed
        BY <1>1, <1>5, <1>7, <2>2 DEF DestroyFields, CloseFields, Fields
      <3>3. queue' = Append(r, Call("close", x)) /\ Call("close", x) \in Calls
        BY <1>2, <1>3, <3>1, Joined, CallIs
      <3>4. Moves(r, queue', {}, {Call("close", x)})
        BY <1>2, <2>1, <3>3, Joins
      <3>5. Moves(queue, queue', gone, {Call("close", x)})
        BY <3>4, Both
      <3>6. Closes(x)'
        BY <1>1, <2>2, <3>2, <3>5, CallIs DEF Closes, Moves
      <3> QED
        BY <1>5, <2>2, <3>2, <3>5, <3>6
    <2>3. CASE stream[x].fd = "opening"
      <3>1. DestroyCalls(x, stream[x]) = <<>>
        BY <1>7, <2>3 DEF DestroyCalls, CloseCalls
      <3>2. stream'[x].fd = "opening" /\ stream'[x].destroyed /\ stream'[x].closeWaits
        BY <1>1, <1>5, <1>7, <2>3 DEF DestroyFields, CloseFields, Fields
      <3>3. Moves(queue, queue', gone, {})
        BY <1>2, <1>3, <3>1, Joined
      <3>4. Closes(x)'
        BY <1>1, <2>1, <2>3, <3>2, <3>3 DEF Closes, Moves
      <3> QED
        BY <1>5, <2>3, <3>2, <3>3, <3>4
    <2> QED
      BY <1>1, <2>1, <2>2, <2>3 DEF Fields
  <1> QED
    BY <1>6, <1>7


\* What a step of the stream x leaves of the invariant.
LEMMA OthersKept ==
    ASSUME SInv, NEW x \in Streams, NEW gone, NEW new, Moves(queue, queue', gone, new),
           \A c \in gone \cup new : \E op : c = Call(op, x),
           \A y \in Streams \ {x} : stream'[y] = stream[y] /\ (y \in cOpen' <=> y \in cOpen)
    PROVE  /\ \A y \in Streams \ {x} : Closes(y)'
           /\ \A p \in Pipes : x # R(p) /\ reading'[p] = reading[p] /\ ended'[p] = ended[p] => Reads(p)'
           /\ \A p \in Pipes : x # W(p) /\ writing'[p] = writing[p] => Writes(p)'
  <1>1. \A y : y # x => \A op : Call(op, y) \notin gone \cup new
    BY CallIs
  <1>2. ASSUME NEW y \in Streams \ {x} PROVE Closes(y)'
    BY <1>1, ClosesKept DEF SInv
  <1>3. ASSUME NEW p \in Pipes, x # R(p), reading'[p] = reading[p], ended'[p] = ended[p] PROVE Reads(p)'
    <2>1. R(p) \in Streams \ {x}
      BY <1>3, CallIs
    <2> QED
      BY <1>1, <1>3, <2>1, ReadsKept DEF SInv
  <1>4. ASSUME NEW p \in Pipes, x # W(p), writing'[p] = writing[p] PROVE Writes(p)'
    <2>1. W(p) \in Streams \ {x}
      BY <1>4, CallIs
    <2> QED
      BY <1>1, <1>4, <2>1, WritesKept DEF SInv
  <1> QED
    BY <1>2, <1>3, <1>4

\* A call of x that is used has the file.
LEMMA UsedOpen == ASSUME NoMisuse, NEW x, NEW op, Used(x, op), x \in cOpen PROVE NoMisuse'
  BY DEF NoMisuse, Used

-----------------------------------------------------------------------------
(* Each step keeps the invariant *)

LEMMA OpenReturnsKeeps == ASSUME SInv, NEW x \in Streams, OpenReturns(x) PROVE SInv'
  <1>0. Closes(x) /\ stream \in [Streams -> Fields] /\ stream[x] \in Fields
    BY DEF SInv, Typed
  <1>1. /\ Moves(queue, Tail(queue), {Call("open", x)}, {}) /\ In(queue, Call("open", x))
        /\ Tail(queue) \in Seq(Calls)
    BY Answers DEF OpenReturns
  <1>2. /\ stream[x].fd = "opening" /\ ~In(queue, Call("close", x))
        /\ stream[x].destroyed <=> stream[x].closeWaits
    BY <1>0, <1>1 DEF Closes, Fields
  <1>3. /\ stream' = [stream EXCEPT ![x].fd = "open"] /\ cOpen' = cOpen \cup {x}
        /\ queue' = Tail(queue) \o OpenListeners(x, stream[x])
        /\ UNCHANGED <<reading, ended, writing, misuse>>
    BY DEF OpenReturns, readVars, writeVars
  <1>4. /\ stream' \in [Streams -> Fields] /\ stream'[x].fd = "open"
        /\ stream'[x].destroyed = stream[x].destroyed /\ stream'[x].isClosed = stream[x].isClosed
        /\ stream'[x].closeWaits = stream[x].closeWaits
        /\ \A y \in Streams \ {x} : stream'[y] = stream[y] /\ (y \in cOpen' <=> y \in cOpen)
    BY <1>0, <1>3 DEF Fields
  <1>5. PICK new : /\ Moves(queue, queue', {Call("open", x)}, new)
                   /\ new = IF stream[x].destroyed THEN {Call("close", x)} ELSE {}
    <2>1. CASE stream[x].closeWaits
      <3>1. queue' = Append(Tail(queue), Call("close", x)) /\ Call("close", x) \in Calls
        BY <1>1, <1>3, <2>1, Joined, CallIs DEF OpenListeners
      <3>2. Moves(Tail(queue), queue', {}, {Call("close", x)})
        BY <1>1, <1>2, <3>1, Joins DEF Moves
      <3> QED
        BY <1>1, <1>2, <2>1, <3>2, Both
    <2>2. CASE ~stream[x].closeWaits
      BY <1>1, <1>2, <1>3, <2>2, Joined DEF OpenListeners
    <2> QED
      BY <2>1, <2>2
  <1>6. Closes(x)'
    <2>1. x \in cOpen' /\ ~In(queue', Call("open", x))
      BY <1>3, <1>5, CallIs DEF Moves
    <2>2. In(queue', Call("close", x)) <=> stream[x].destroyed
      BY <1>2, <1>5, CallIs DEF Moves
    <2> QED
      BY <1>0, <1>4, <2>1, <2>2 DEF Closes
  <1>7. /\ \A y \in Streams \ {x} : Closes(y)'
        /\ \A p \in Pipes : x # R(p) => Reads(p)'
        /\ \A p \in Pipes : x # W(p) => Writes(p)'
    BY <1>3, <1>4, <1>5, OthersKept
  <1>8. ASSUME NEW p \in Pipes, x = R(p) PROVE Reads(p)'
    <2>1. ~In(queue, Call("malloc", x)) /\ ~In(queue, Call("read", x)) /\ Reads(p)
      BY <1>2, <1>8 DEF SInv, Reads
    <2>2. ~In(queue', Call("malloc", x)) /\ ~In(queue', Call("read", x))
      BY <1>5, <2>1, CallIs DEF Moves
    <2> QED
      BY <1>3, <1>8, <2>1, <2>2 DEF Reads, Before, In
  <1>9. ASSUME NEW p \in Pipes, x = W(p) PROVE Writes(p)'
    <2>1. ~In(queue, Call("malloc", x)) /\ ~In(queue, Call("write", x))
      BY <1>2, <1>9 DEF SInv, Writes
    <2>2. ~In(queue', Call("malloc", x)) /\ ~In(queue', Call("write", x))
      BY <1>5, <2>1, CallIs DEF Moves
    <2> QED
      BY <1>9, <2>2 DEF Writes, Before, In
  <1>10. Typed' /\ NoMisuse'
    BY <1>3, <1>4, <1>5 DEF SInv, Typed, NoMisuse, Moves
  <1> QED
    BY <1>6, <1>7, <1>8, <1>9, <1>10 DEF SInv

\* A stream that is destroyed while it does not wait for memory, whatever it has
\* waited for and C has answered with the calls r left.
LEMMA DestroyKeeps ==
    ASSUME SInv, NEW x \in Streams, NEW op, op # "close", NEW gone, gone \subseteq {Call(op, x)},
           NEW r, Moves(queue, r, gone, {}), DestroyAfter(x, r), cOpen' = cOpen, NoMisuse',
           ~In(queue, Call("malloc", x)),
           reading' \in [Pipes -> {"idle", "malloc", "read", "failed"}],
           writing' \in [Pipes -> {"idle", "malloc", "write", "noFlags", "failed"}],
           \A p \in Pipes : /\ reading'[p] = reading[p] \/ (x = R(p) /\ ~In(r, Call("read", x)))
                            /\ writing'[p] = writing[p] \/ (x = W(p) /\ ~In(r, Call("write", x)))
                            /\ ended[p] => reading'[p] = "idle",
           ended' = ended
    PROVE  SInv'
  <1>1. PICK new : /\ new \subseteq {Call("close", x)} /\ Moves(queue, queue', gone, new)
                   /\ stream' \in [Streams -> Fields] /\ Closes(x)'
                   /\ stream'[x].fd = stream[x].fd /\ stream'[x].destroyed
                   /\ \A y \in Streams \ {x} : stream'[y] = stream[y]
    <2>1. \A y : Call("close", y) \notin gone
      BY CallIs
    <2> QED
      BY <2>1, Destroys
  <1>2. /\ \A y \in Streams \ {x} : Closes(y)'
        /\ \A p \in Pipes : x # R(p) => Reads(p)'
        /\ \A p \in Pipes : x # W(p) => Writes(p)'
    BY <1>1, CallIs, OthersKept
  <1>3. /\ ~In(queue', Call("malloc", x))
        /\ \A o \in {"read", "write"} :
              /\ In(queue', Call(o, x)) => In(queue, Call(o, x)) /\ In(r, Call(o, x))
              /\ Before(queue, Call(o, x), Call("close", x)) =>
                     Before(queue', Call(o, x), Call("close", x))
    BY <1>1, CallIs DEF Moves
  <1>4. ASSUME NEW p \in Pipes, x = R(p) PROVE Reads(p)'
    BY <1>1, <1>3, <1>4 DEF SInv, Reads
  <1>5. ASSUME NEW p \in Pipes, x = W(p) PROVE Writes(p)'
    <2>1. Writes(p)
      BY DEF SInv
    <2>2. Before(queue', Call("close", x), Call("malloc", x))
      BY <1>3 DEF Before, In
    <2> QED
      BY <1>1, <1>3, <1>5, <2>1, <2>2 DEF Writes
  <1>6. Typed'
    BY <1>1 DEF SInv, Typed, Moves
  <1> QED
    BY <1>1, <1>2, <1>4, <1>5, <1>6 DEF SInv

LEMMA OpenFailsKeeps == ASSUME SInv, NEW x \in Streams, OpenFails(x) PROVE SInv'
  <1>1. Moves(queue, Tail(queue), {Call("open", x)}, {}) /\ In(queue, Call("open", x))
    BY Answers DEF OpenFails
  <1>2. stream[x].fd = "opening"
    BY <1>1 DEF SInv, Closes
  <1>3. DestroyAfter(x, Tail(queue)) /\ UNCHANGED <<reading, ended, writing, misuse, cOpen>>
    BY DEF OpenFails, readVars, writeVars
  <1>4. ~In(queue, Call("malloc", x))
    BY <1>2, CallIs DEF SInv, Reads, Writes
  <1> QED
    BY <1>1, <1>3, <1>4, DestroyKeeps DEF SInv, Typed, Reads, NoMisuse

LEMMA ProgramDestroysKeeps ==
    ASSUME "destroyEarly" \notin Habits, SInv, NEW x \in Streams, ProgramDestroys(x) PROVE SInv'
  <1>1. Moves(queue, queue, {}, {})
    BY Stays DEF SInv, Typed
  <1>2. ~AwaitsMemory(x) /\ DestroyAfter(x, queue) /\ UNCHANGED <<reading, ended, writing, misuse, cOpen>>
    BY DEF ProgramDestroys, readVars, writeVars
  <1>3. ~In(queue, Call("malloc", x))
    BY <1>2, CallIs DEF AwaitsMemory, SInv, Reads, Writes
  <1> QED
    BY <1>1, <1>2, <1>3, DestroyKeeps DEF SInv, Typed, Reads, NoMisuse

LEMMA ReadFailsKeeps == ASSUME SInv, NEW p \in Pipes, ReadFails(p) PROVE SInv'
  <1> DEFINE x == R(p)
  <1>0. x \in Streams /\ Reads(p) /\ Closes(x)
    BY CallIs DEF SInv
  <1>1. Moves(queue, Tail(queue), {Call("read", x)}, {}) /\ In(queue, Call("read", x))
    BY Answers DEF ReadFails
  <1>2. reading[p] = "read" /\ stream[x].fd = "open" /\ x \in cOpen
    BY <1>0, <1>1 DEF Reads, Closes
  <1>3. /\ DestroyAfter(x, Tail(queue)) /\ Used(x, "read")
        /\ reading' = [reading EXCEPT ![p] = "failed"] /\ UNCHANGED <<ended, writing, cOpen>>
    BY DEF ReadFails, writeVars
  <1>4. ~In(queue, Call("malloc", x)) /\ ~In(Tail(queue), Call("read", x)) /\ NoMisuse' /\ ~ended[p]
    BY <1>0, <1>1, <1>2, <1>3, UsedOpen DEF SInv, Typed, Reads, Moves
  <1> HIDE DEF x
  <1>5. /\ reading' \in [Pipes -> {"idle", "malloc", "read", "failed"}]
        /\ \A q \in Pipes : /\ reading'[q] = reading[q] \/ (x = R(q) /\ ~In(Tail(queue), Call("read", x)))
                            /\ ended[q] => reading'[q] = "idle"
    BY <1>3, <1>4 DEF SInv, Typed, Reads, x
  <1> QED
    BY <1>0, <1>1, <1>3, <1>4, <1>5, DestroyKeeps DEF SInv, Typed

LEMMA EndKeeps == ASSUME SInv, NEW p \in Pipes, End(p) PROVE SInv'
  <1> DEFINE x == R(p)
  <1>0. x \in Streams /\ Reads(p)
    BY CallIs DEF SInv
  <1>1. Moves(queue, queue, {}, {})
    BY Stays DEF SInv, Typed
  <1>2. ended[p] /\ DestroyAfter(x, queue) /\ UNCHANGED <<reading, ended, writing, misuse, cOpen>>
    BY DEF End, Drained, readVars, writeVars
  <1>3. ~In(queue, Call("malloc", x))
    BY <1>0, <1>2 DEF Reads
  <1> HIDE DEF x
  <1> QED
    BY <1>0, <1>1, <1>2, <1>3, DestroyKeeps DEF SInv, Typed, Reads, NoMisuse

LEMMA WriteFailsKeeps == ASSUME SInv, NEW p \in Pipes, WriteFails(p) PROVE SInv'
  <1> DEFINE x == W(p)
  <1>0. x \in Streams /\ Writes(p) /\ Closes(x)
    BY CallIs DEF SInv
  <1>1. Moves(queue, Tail(queue), {Call("write", x)}, {}) /\ In(queue, Call("write", x))
    BY Answers DEF WriteFails
  <1>2. writing[p] \in {"write", "noFlags"} /\ (writing[p] = "write" => x \in cOpen)
    BY <1>0, <1>1 DEF Writes, Closes
  <1>3. /\ DestroyAfter(x, Tail(queue))
        /\ IF writing[p] = "noFlags" THEN UNCHANGED misuse ELSE Used(x, "write")
        /\ writing' = [writing EXCEPT ![p] = "failed"] /\ UNCHANGED <<reading, ended, cOpen>>
    BY DEF WriteFails, readVars
  <1>4. NoMisuse'
    BY <1>2, <1>3, UsedOpen DEF SInv, NoMisuse
  <1>5. ~In(queue, Call("malloc", x)) /\ ~In(Tail(queue), Call("write", x))
    BY <1>0, <1>1, <1>2 DEF Writes, Moves
  <1> HIDE DEF x
  <1>6. /\ writing' \in [Pipes -> {"idle", "malloc", "write", "noFlags", "failed"}]
        /\ \A q \in Pipes : writing'[q] = writing[q] \/ (x = W(q) /\ ~In(Tail(queue), Call("write", x)))
    BY <1>3, <1>5 DEF SInv, Typed, x
  <1> QED
    BY <1>0, <1>1, <1>3, <1>4, <1>5, <1>6, DestroyKeeps DEF SInv, Typed, Reads

LEMMA CloseReturnsKeeps == ASSUME SInv, NEW x \in Streams, CloseReturns(x) PROVE SInv'
  <1>0. Closes(x) /\ stream \in [Streams -> Fields] /\ stream[x] \in Fields
    BY DEF SInv, Typed
  <1>1. /\ Moves(queue, Tail(queue), {Call("close", x)}, {}) /\ In(queue, Call("close", x))
        /\ \A c : c # Call("close", x) /\ Before(queue, c, Call("close", x)) => ~In(queue, c)
    BY Answers DEF CloseReturns
  <1>2. stream[x].fd = "open" /\ stream[x].destroyed /\ x \in cOpen /\ ~In(queue, Call("open", x))
    BY <1>0, <1>1 DEF Closes
  <1>3. /\ stream' = [stream EXCEPT ![x].fd = "closed"] /\ cOpen' = cOpen \ {x}
        /\ queue' = Tail(queue) /\ Used(x, "close") /\ UNCHANGED <<reading, ended, writing>>
    BY DEF CloseReturns, readVars, writeVars
  <1>4. /\ stream' \in [Streams -> Fields] /\ stream'[x].fd = "closed" /\ stream'[x].destroyed
        /\ \A y \in Streams \ {x} : stream'[y] = stream[y] /\ (y \in cOpen' <=> y \in cOpen)
    BY <1>0, <1>2, <1>3 DEF Fields
  <1>5. Moves(queue, queue', {Call("close", x)}, {})
    BY <1>1, <1>3
  <1>6. Closes(x)'
    BY <1>2, <1>3, <1>4, <1>5 DEF Closes, Moves
  <1>7. /\ \A y \in Streams \ {x} : Closes(y)'
        /\ \A p \in Pipes : x # R(p) => Reads(p)'
        /\ \A p \in Pipes : x # W(p) => Writes(p)'
    BY <1>3, <1>4, <1>5, OthersKept
  <1>8. ASSUME NEW p \in Pipes, x = R(p) PROVE Reads(p)'
    <2>1. ~In(queue, Call("malloc", x)) /\ ~In(queue, Call("read", x)) /\ Reads(p)
      BY <1>1, <1>2, <1>8, CallIs DEF SInv, Reads
    <2>2. ~In(queue', Call("malloc", x)) /\ ~In(queue', Call("read", x))
      BY <1>5, <2>1 DEF Moves
    <2> QED
      BY <1>3, <1>8, <2>1, <2>2 DEF Reads, Before, In
  <1>9. ASSUME NEW p \in Pipes, x = W(p) PROVE Writes(p)'
    <2>0. Writes(p) /\ Call("write", x) # Call("close", x)
      BY CallIs DEF SInv
    <2>1. ~In(queue, Call("write", x))
      BY <1>1, <1>2, <1>9, <2>0 DEF Writes
    <2>2. /\ ~In(queue', Call("write", x)) /\ ~In(queue', Call("close", x))
          /\ In(queue', Call("malloc", x)) => In(queue, Call("malloc", x))
      BY <1>5, <2>1 DEF Moves
    <2> QED
      BY <1>3, <1>4, <1>9, <2>0, <2>1, <2>2 DEF Writes, Before, In
  <1>10. Typed' /\ NoMisuse'
    BY <1>2, <1>3, <1>4, <1>5, UsedOpen DEF SInv, Typed, Moves
  <1> QED
    BY <1>6, <1>7, <1>8, <1>9, <1>10 DEF SInv


LEMMA ReadKeeps == ASSUME SInv, NEW p \in Pipes, Read(p) PROVE SInv'
  <1> DEFINE x == R(p)
             c == Call("malloc", x)
  <1>0. x \in Streams /\ Reads(p) /\ Closes(x) /\ c \in Calls /\ Line(queue)
    BY CallIs DEF SInv, Typed
  <1>1. /\ reading[p] = "idle" /\ ~ended[p] /\ stream[x].fd = "open" /\ ~stream[x].destroyed
        /\ reading' = [reading EXCEPT ![p] = "malloc"] /\ queue' = queue \o <<c>>
        /\ UNCHANGED <<stream, ended, writing, cOpen, misuse>>
    BY DEF Read, MayRead, Push, writeVars
  <1>2. Moves(queue, queue', {}, {c}) /\ ~In(queue, Call("read", x))
    <2>1. queue' = Append(queue, c)
      BY <1>0, <1>1, Joined DEF Line
    <2>2. ~In(queue, c) /\ ~In(queue, Call("read", x))
      BY <1>0, <1>1 DEF Reads
    <2> QED
      BY <1>0, <2>1, <2>2, Joins
  <1> HIDE DEF x
  <1>3. Closes(x)'
    BY <1>0, <1>1, <1>2, CallIs, ClosesKept
  <1>4. /\ \A y \in Streams \ {x} : Closes(y)'
        /\ \A q \in Pipes : x # R(q) /\ reading'[q] = reading[q] => Reads(q)'
        /\ \A q \in Pipes : x # W(q) => Writes(q)'
    BY <1>0, <1>1, <1>2, OthersKept
  <1>5. Typed'
    BY <1>1, <1>2 DEF SInv, Typed, Moves
  <1>6. Reads(p)'
    <2>1. ~In(queue', Call("read", x))
      BY <1>2, CallIs DEF Moves
    <2>2. reading'[p] = "malloc"
      BY <1>1 DEF SInv, Typed
    <2> QED
      BY <1>1, <2>1, <2>2 DEF Reads, Before, In, x
  <1>7. \A q \in Pipes : (q # p => reading'[q] = reading[q] /\ x # R(q)) /\ x # W(q)
    BY <1>1, CallIs DEF SInv, Typed, x
  <1> QED
    BY <1>1, <1>3, <1>4, <1>5, <1>6, <1>7 DEF SInv, NoMisuse

LEMMA ReadGetsMemoryKeeps == ASSUME SInv, NEW p \in Pipes, ReadGetsMemory(p) PROVE SInv'
  <1> DEFINE x == R(p)
             c == Call("malloc", x)
             d == Call("read", x)
  <1>0. x \in Streams /\ Reads(p) /\ Closes(x) /\ d \in Calls
    BY CallIs DEF SInv
  <1>1. Moves(queue, Tail(queue), {c}, {}) /\ In(queue, c)
    BY Answers DEF ReadGetsMemory
  <1>2. /\ reading[p] = "malloc" /\ stream[x].fd = "open" /\ ~stream[x].destroyed
        /\ reading' = [reading EXCEPT ![p] = "read"] /\ queue' = Append(Tail(queue), d)
        /\ UNCHANGED <<stream, ended, writing, cOpen, misuse>>
    BY <1>0, <1>1 DEF ReadGetsMemory, Reads, writeVars
  <1>3. Moves(queue, queue', {c}, {d})
    <2>1. ~In(Tail(queue), d) /\ Line(Tail(queue))
      BY <1>0, <1>1, <1>2 DEF Reads, Moves
    <2>2. Moves(Tail(queue), queue', {}, {d})
      BY <1>0, <1>2, <2>1, Joins
    <2> QED
      BY <1>1, <2>2, Both
  <1> HIDE DEF x
  <1>4. Closes(x)'
    BY <1>0, <1>2, <1>3, CallIs, ClosesKept
  <1>5. /\ \A y \in Streams \ {x} : Closes(y)'
        /\ \A q \in Pipes : x # R(q) /\ reading'[q] = reading[q] => Reads(q)'
        /\ \A q \in Pipes : x # W(q) => Writes(q)'
    BY <1>0, <1>2, <1>3, OthersKept
  <1>6. Typed'
    BY <1>2, <1>3 DEF SInv, Typed, Moves
  <1>7. Reads(p)'
    <2>1. ~In(queue', Call("close", x)) /\ ~In(queue', c)
      BY <1>0, <1>2, <1>3, CallIs DEF Moves, Closes
    <2>2. reading'[p] = "read" /\ ~ended[p]
      BY <1>0, <1>2 DEF SInv, Typed, Reads
    <2> QED
      BY <1>2, <2>1, <2>2 DEF Reads, Before, In, x
  <1>8. \A q \in Pipes : (q # p => reading'[q] = reading[q] /\ x # R(q)) /\ x # W(q)
    BY <1>2, CallIs DEF SInv, Typed, x
  <1> QED
    BY <1>2, <1>4, <1>5, <1>6, <1>7, <1>8 DEF SInv, NoMisuse

LEMMA ReadReturnsKeeps == ASSUME SInv, NEW p \in Pipes, ReadReturns(p) PROVE SInv'
  <1> DEFINE x == R(p)
             c == Call("read", x)
  <1>0. x \in Streams /\ Reads(p) /\ Closes(x)
    BY CallIs DEF SInv
  <1>1. Moves(queue, Tail(queue), {c}, {}) /\ In(queue, c)
    BY Answers DEF ReadReturns
  <1>2. /\ reading[p] = "read" /\ x \in cOpen /\ Used(x, "read")
        /\ reading' = [reading EXCEPT ![p] = "idle"] /\ queue' = Tail(queue)
        /\ \E e \in BOOLEAN : ended' = [ended EXCEPT ![p] = e]
        /\ UNCHANGED <<stream, writing, cOpen>>
    BY <1>0, <1>1 DEF ReadReturns, Reads, Closes, writeVars
  <1>3. Moves(queue, queue', {c}, {})
    BY <1>1, <1>2
  <1> HIDE DEF x
  <1>4. Closes(x)'
    BY <1>0, <1>2, <1>3, CallIs, ClosesKept
  <1>5. /\ \A y \in Streams \ {x} : Closes(y)'
        /\ \A q \in Pipes : x # R(q) /\ reading'[q] = reading[q] /\ ended'[q] = ended[q] => Reads(q)'
        /\ \A q \in Pipes : x # W(q) => Writes(q)'
    BY <1>0, <1>2, <1>3, OthersKept
  <1>6. Typed'
    BY <1>2, <1>3 DEF SInv, Typed, Moves
  <1>7. Reads(p)'
    <2>1. ~In(queue', Call("malloc", x)) /\ ~In(queue', c)
      BY <1>0, <1>2, <1>3, CallIs DEF Moves, Reads, x
    <2>2. reading'[p] = "idle"
      BY <1>2 DEF SInv, Typed
    <2> QED
      BY <2>1, <2>2 DEF Reads, Before, In, x
  <1>8. \A q \in Pipes : (q # p => reading'[q] = reading[q] /\ ended'[q] = ended[q] /\ x # R(q)) /\ x # W(q)
    BY <1>2, CallIs DEF SInv, Typed, x
  <1>9. NoMisuse'
    BY <1>2, UsedOpen DEF SInv
  <1> QED
    BY <1>4, <1>5, <1>6, <1>7, <1>8, <1>9 DEF SInv

LEMMA PassKeeps == ASSUME SInv, NEW p \in Pipes, Pass(p) PROVE SInv'
  <1>1. UNCHANGED <<stream, reading, ended, writing, queue, cOpen, misuse>>
    BY DEF Pass, readVars
  <1> QED
    BY <1>1 DEF SInv, Typed, Line, Once, NoMisuse, Closes, Reads, Writes, In, Before

LEMMA WriteKeeps == ASSUME SInv, NEW p \in Pipes, Write(p) PROVE SInv'
  <1> DEFINE x == W(p)
             c == Call("malloc", x)
  <1>0. x \in Streams /\ Writes(p) /\ Closes(x) /\ c \in Calls /\ Line(queue)
    BY CallIs DEF SInv, Typed
  <1>1. /\ writing[p] = "idle" /\ stream[x].fd = "open" /\ ~stream[x].destroyed
        /\ writing' = [writing EXCEPT ![p] = "malloc"] /\ queue' = queue \o <<c>>
        /\ UNCHANGED <<stream, reading, ended, cOpen, misuse>>
    BY DEF Write, Push, readVars
  <1>2. Moves(queue, queue', {}, {c}) /\ ~In(queue, Call("write", x))
    <2>1. queue' = Append(queue, c)
      BY <1>0, <1>1, Joined DEF Line
    <2>2. ~In(queue, c) /\ ~In(queue, Call("write", x))
      BY <1>0, <1>1 DEF Writes
    <2> QED
      BY <1>0, <2>1, <2>2, Joins
  <1> HIDE DEF x
  <1>3. Closes(x)'
    BY <1>0, <1>1, <1>2, CallIs, ClosesKept
  <1>4. /\ \A y \in Streams \ {x} : Closes(y)'
        /\ \A q \in Pipes : x # R(q) => Reads(q)'
        /\ \A q \in Pipes : x # W(q) /\ writing'[q] = writing[q] => Writes(q)'
    BY <1>0, <1>1, <1>2, OthersKept
  <1>5. Typed'
    BY <1>1, <1>2 DEF SInv, Typed, Moves
  <1>6. Writes(p)'
    <2>1. ~In(queue', Call("write", x)) /\ ~In(queue', Call("close", x))
      BY <1>0, <1>1, <1>2, CallIs DEF Moves, Closes
    <2>2. writing'[p] = "malloc"
      BY <1>1 DEF SInv, Typed
    <2> QED
      BY <1>1, <2>1, <2>2 DEF Writes, Before, In, x
  <1>7. \A q \in Pipes : (q # p => writing'[q] = writing[q] /\ x # W(q)) /\ x # R(q)
    BY <1>1, CallIs DEF SInv, Typed, x
  <1> QED
    BY <1>1, <1>3, <1>4, <1>5, <1>6, <1>7 DEF SInv, NoMisuse

LEMMA WriteGetsMemoryKeeps == ASSUME SInv, NEW p \in Pipes, WriteGetsMemory(p) PROVE SInv'
  <1> DEFINE x == W(p)
             c == Call("malloc", x)
             d == Call("write", x)
  <1>0. x \in Streams /\ Writes(p) /\ Closes(x) /\ d \in Calls /\ stream[x] \in Fields
    BY CallIs DEF SInv, Typed
  <1>1. /\ Moves(queue, Tail(queue), {c}, {}) /\ In(queue, c)
        /\ \A e : e # c /\ Before(queue, e, c) => ~In(queue, e)
    BY Answers DEF WriteGetsMemory
  <1>2. /\ writing[p] = "malloc" /\ stream[x].fd # "opening" /\ ~In(queue, Call("close", x))
        /\ writing' = [writing EXCEPT ![p] = IF x \in cOpen THEN "write" ELSE "noFlags"]
        /\ queue' = Append(Tail(queue), d)
        /\ UNCHANGED <<stream, reading, ended, cOpen, misuse>>
    BY <1>0, <1>1, CallIs DEF WriteGetsMemory, Writes, readVars
  <1>3. Moves(queue, queue', {c}, {d})
    <2>1. ~In(Tail(queue), d) /\ Line(Tail(queue))
      BY <1>0, <1>1, <1>2 DEF Writes, Moves
    <2>2. Moves(Tail(queue), queue', {}, {d})
      BY <1>0, <1>2, <2>1, Joins
    <2> QED
      BY <1>1, <2>2, Both
  <1> HIDE DEF x
  <1>4. Closes(x)'
    BY <1>0, <1>2, <1>3, CallIs, ClosesKept
  <1>5. /\ \A y \in Streams \ {x} : Closes(y)'
        /\ \A q \in Pipes : x # R(q) => Reads(q)'
        /\ \A q \in Pipes : x # W(q) /\ writing'[q] = writing[q] => Writes(q)'
    BY <1>0, <1>2, <1>3, OthersKept
  <1>6. Typed'
    BY <1>2, <1>3 DEF SInv, Typed, Moves
  <1>7. Writes(p)'
    <2>1. ~In(queue', Call("close", x)) /\ ~In(queue', c)
      BY <1>2, <1>3, CallIs DEF Moves
    <2>2. \/ writing'[p] = "write" /\ stream[x].fd = "open"
          \/ writing'[p] = "noFlags" /\ stream[x].fd = "closed"
      BY <1>0, <1>2 DEF SInv, Typed, Closes, Fields
    <2> QED
      BY <1>2, <2>1, <2>2 DEF Writes, Before, In, x
  <1>8. \A q \in Pipes : (q # p => writing'[q] = writing[q] /\ x # W(q)) /\ x # R(q)
    BY <1>2, CallIs DEF SInv, Typed, x
  <1> QED
    BY <1>2, <1>4, <1>5, <1>6, <1>7, <1>8 DEF SInv, NoMisuse

LEMMA WriteReturnsKeeps == ASSUME SInv, NEW p \in Pipes, WriteReturns(p) PROVE SInv'
  <1> DEFINE x == W(p)
             c == Call("write", x)
             d == Call("malloc", x)
  <1>0. x \in Streams /\ Writes(p) /\ Closes(x) /\ d \in Calls
    BY CallIs DEF SInv
  <1>1. Moves(queue, Tail(queue), {c}, {}) /\ In(queue, c)
    BY Answers DEF WriteReturns
  <1>2. /\ writing[p] = "write" /\ stream[x].fd = "open" /\ x \in cOpen /\ Used(x, "write")
        /\ UNCHANGED <<stream, reading, ended, cOpen>>
    BY <1>0, <1>1 DEF WriteReturns, Writes, Closes, readVars
  <1>3. PICK more \in BOOLEAN :
          /\ writing' = [writing EXCEPT ![p] = IF more THEN "malloc" ELSE "idle"]
          /\ queue' = IF more THEN Append(Tail(queue), d) ELSE Tail(queue)
    BY DEF WriteReturns
  <1>4. PICK new : Moves(queue, queue', {c}, new) /\ new = IF more THEN {d} ELSE {}
    <2>1. CASE more
      <3>1. ~In(Tail(queue), d) /\ Line(Tail(queue))
        BY <1>0, <1>1, <1>2 DEF Writes, Moves
      <3>2. Moves(Tail(queue), queue', {}, {d})
        BY <1>0, <1>3, <2>1, <3>1, Joins
      <3> QED
        BY <1>1, <2>1, <3>2, Both
    <2>2. CASE ~more
      BY <1>1, <1>3, <2>2
    <2> QED
      BY <2>1, <2>2
  <1> HIDE DEF x
  <1>5. Closes(x)'
    BY <1>0, <1>2, <1>4, CallIs, ClosesKept
  <1>6. /\ \A y \in Streams \ {x} : Closes(y)'
        /\ \A q \in Pipes : x # R(q) => Reads(q)'
        /\ \A q \in Pipes : x # W(q) /\ writing'[q] = writing[q] => Writes(q)'
    BY <1>0, <1>2, <1>4, OthersKept
  <1>7. Typed'
    BY <1>2, <1>3, <1>4 DEF SInv, Typed, Moves
  <1>8. Writes(p)'
    <2>1. ~In(queue', c) /\ (In(queue', d) => more)
      BY <1>0, <1>2, <1>4, CallIs DEF Moves, Writes, x
    <2>2. more => writing'[p] = "malloc"
      BY <1>3 DEF SInv, Typed
    <2>3. Before(queue', Call("close", x), d)
      BY <1>0, <1>4, CallIs DEF Moves, Writes, x
    <2> QED
      BY <1>2, <2>1, <2>2, <2>3 DEF Writes, x
  <1>9. \A q \in Pipes : (q # p => writing'[q] = writing[q] /\ x # W(q)) /\ x # R(q)
    BY <1>3, CallIs DEF SInv, Typed, x
  <1>10. NoMisuse'
    BY <1>2, UsedOpen DEF SInv
  <1> QED
    BY <1>5, <1>6, <1>7, <1>8, <1>9, <1>10 DEF SInv

LEMMA FinishKeeps == ASSUME SInv, NEW p \in Pipes, Finish(p) PROVE SInv'
  <1> DEFINE x == W(p)
             c == Call("close", x)
             s == [stream[x] EXCEPT !.isClosed = TRUE]
  <1>0. /\ x \in Streams /\ Writes(p) /\ Closes(x) /\ c \in Calls /\ Line(queue)
        /\ stream \in [Streams -> Fields] /\ stream[x] \in Fields
    BY CallIs DEF SInv, Typed
  <1>1. /\ writing[p] = "idle" /\ stream[x].fd = "open" /\ ~stream[x].destroyed /\ ~stream[x].isClosed
        /\ UNCHANGED <<reading, ended, writing, cOpen, misuse>>
    BY <1>0 DEF Finish, Closes, readVars, writeVars, Fields
  <1>2. /\ stream' = [stream EXCEPT ![x] = DestroyFields(s)]
        /\ queue' = queue \o (CloseCalls(x, stream[x]) \o DestroyCalls(x, s))
    BY <1>1 DEF Finish, CloseFields, Push
  <1>3. DestroyFields(s) = [stream[x] EXCEPT !.isClosed = TRUE, !.destroyed = TRUE]
    BY <1>0, <1>1 DEF DestroyFields, CloseFields, Fields
  <1>4. CloseCalls(x, stream[x]) \o DestroyCalls(x, s) = <<c>>
    BY <1>0, <1>1 DEF CloseCalls, DestroyCalls, Fields
  <1>5. Moves(queue, queue', {}, {c})
    <2>1. queue' = Append(queue, c)
      BY <1>0, <1>2, <1>4, Joined DEF Line
    <2>2. ~In(queue, c)
      BY <1>0, <1>1 DEF Closes
    <2> QED
      BY <1>0, <2>1, <2>2, Joins
  <1> HIDE DEF x, s
  <1>6. /\ stream' \in [Streams -> Fields] /\ stream'[x].fd = "open" /\ stream'[x].destroyed
        /\ \A y \in Streams \ {x} : stream'[y] = stream[y]
    BY <1>0, <1>1, <1>2, <1>3 DEF Fields
  <1>7. Closes(x)'
    <2>1. In(queue', c) /\ ~In(queue', Call("open", x))
      BY <1>0, <1>1, <1>5, CallIs DEF Closes, Moves
    <2> QED
      BY <1>0, <1>1, <1>6, <2>1 DEF Closes
  <1>8. /\ \A y \in Streams \ {x} : Closes(y)'
        /\ \A q \in Pipes : x # R(q) => Reads(q)'
        /\ \A q \in Pipes : x # W(q) => Writes(q)'
    BY <1>0, <1>1, <1>5, <1>6, OthersKept
  <1>9. Writes(p)'
    <2>1. ~In(queue', Call("malloc", x)) /\ ~In(queue', Call("write", x))
      BY <1>0, <1>1, <1>5, CallIs DEF Moves, Writes, x
    <2> QED
      BY <2>1 DEF Writes, Before, In, x
  <1>10. Typed'
    BY <1>1, <1>5, <1>6 DEF SInv, Typed, Moves
  <1>11. \A q \in Pipes : x # R(q) /\ (x = W(q) => q = p)
    BY CallIs DEF x
  <1> QED
    BY <1>1, <1>7, <1>8, <1>9, <1>10, <1>11 DEF SInv, NoMisuse

-----------------------------------------------------------------------------
LEMMA StreamsInit == Init => SInv
  <1> SUFFICES ASSUME Init PROVE SInv
    OBVIOUS
  <1> DEFINE opens == {Call("open", x) : x \in Streams}
  <1>1. IsFiniteSet(opens)
    <2> DEFINE reads == {R(p) : p \in Pipes}
               writes == {W(p) : p \in Pipes}
    <2>1. /\ [p \in Pipes |-> R(p)] \in Surjection(Pipes, reads)
          /\ [p \in Pipes |-> W(p)] \in Surjection(Pipes, writes)
          /\ [x \in Streams |-> Call("open", x)] \in Surjection(Streams, opens)
      BY DEF Surjection
    <2>2. IsFiniteSet(reads) /\ IsFiniteSet(writes)
      BY <2>1, StreamsAssumption, FS_Surjection
    <2>3. IsFiniteSet(Streams)
      BY <2>2, FS_Union DEF Streams
    <2> HIDE DEF opens
    <2> QED
      BY <2>1, <2>3, FS_Surjection
  <1> HIDE DEF opens
  <1>2. \E f \in [1 .. Cardinality(opens) -> opens] : IsInjective(f)
    <2>1. PICK f : f \in Bijection(1 .. Cardinality(opens), opens)
      BY <1>1, FS_CardinalityType DEF ExistsBijection
    <2> QED
      BY <2>1 DEF Bijection, Injection
  <1>3. queue \in [1 .. Cardinality(opens) -> opens] /\ IsInjective(queue)
    <2>1. queue = SetToSeq(opens)
      BY DEF Init, opens
    <2> QED
      BY <1>2, <2>1 DEF SetToSeq
  <1>4. Cardinality(opens) \in Nat
    BY <1>1, FS_CardinalityType
  <1>5. /\ Line(queue) /\ \A c : In(queue, c) => c \in opens
    <2>1. opens \subseteq Calls
      BY CallIs DEF opens
    <2>2. queue \in Seq(opens) /\ Len(queue) = Cardinality(opens)
      BY <1>3, <1>4
    <2> QED
      BY <1>3, <2>1, <2>2 DEF Line, Once, In, IsInjective
  <1>6. \A c : In(queue, c) => \E x \in Streams : c = Call("open", x)
    BY <1>5 DEF opens
  <1>7. \A x : /\ ~In(queue, Call("close", x)) /\ ~In(queue, Call("malloc", x))
               /\ ~In(queue, Call("read", x)) /\ ~In(queue, Call("write", x))
    BY <1>6, CallIs
  <1>8. /\ stream = [x \in Streams |-> [fd |-> "opening", destroyed |-> FALSE,
                                        isClosed |-> FALSE, closeWaits |-> FALSE]]
        /\ reading = [p \in Pipes |-> "idle"] /\ writing = [p \in Pipes |-> "idle"]
        /\ ended = [p \in Pipes |-> FALSE] /\ cOpen = {} /\ misuse = {}
    BY DEF Init
  <1>9. \A x \in Streams : Closes(x)
    BY <1>7, <1>8 DEF Closes
  <1>10. \A p \in Pipes : Reads(p) /\ Writes(p)
    BY <1>7, <1>8 DEF Reads, Writes, Before, In
  <1> QED
    BY <1>5, <1>8, <1>9, <1>10 DEF SInv, Typed, NoMisuse, Fields

LEMMA StreamsNext == ASSUME "destroyEarly" \notin Habits PROVE SInv /\ [Next]_vars => SInv'
  <1> SUFFICES ASSUME SInv, [Next]_vars PROVE SInv'
    OBVIOUS
  <1>1. ASSUME NEW x \in Streams, Answer(x) \/ ProgramDestroys(x) PROVE SInv'
    BY <1>1, OpenReturnsKeeps, OpenFailsKeeps, CloseReturnsKeeps, ProgramDestroysKeeps DEF Answer
  <1>2. ASSUME NEW p \in Pipes, AnswerRead(p) PROVE SInv'
    BY <1>2, ReadGetsMemoryKeeps, ReadReturnsKeeps, ReadFailsKeeps DEF AnswerRead
  <1>3. ASSUME NEW p \in Pipes, AnswerWrite(p) PROVE SInv'
    BY <1>3, WriteGetsMemoryKeeps, WriteReturnsKeeps, WriteFailsKeeps DEF AnswerWrite
  <1>4. ASSUME NEW p \in Pipes, Read(p) \/ End(p) \/ Pass(p) \/ Write(p) \/ Finish(p) PROVE SInv'
    BY <1>4, ReadKeeps, EndKeeps, PassKeeps, WriteKeeps, FinishKeeps
  <1>5. CASE UNCHANGED vars
    BY <1>5 DEF vars, readVars, writeVars, SInv, Typed, Line, Once, NoMisuse, Closes, Reads, Writes, In, Before
  <1> QED
    BY <1>1, <1>2, <1>3, <1>4, <1>5 DEF Next

-----------------------------------------------------------------------------
\* No stream reads, writes or closes a file that C has freed, for any number of pipes
\* on one pool, of streams that fail and of early destroys, if the program does not
\* destroy a stream that waits for memory.  The queue of C is what makes it true: a
\* close is queued once, behind the read or the write that was under way.
THEOREM ClosedNotUsed == ASSUME "destroyEarly" \notin Habits PROVE Spec => []NoMisuse
  <1>1. SInv => NoMisuse
    BY DEF SInv
  <1> QED
    BY <1>1, StreamsInit, StreamsNext, PTL DEF Spec

-----------------------------------------------------------------------------
(* Sequences that are joined *)

LEMMA UpTo ==
    ASSUME NEW n \in Nat, NEW S, 0 \in S, \A k \in Nat : k \in S /\ k < n => k + 1 \in S
    PROVE  \A k \in 0 .. n : k \in S
  <1> DEFINE T == (0 .. n) \ S
  <1> SUFFICES ASSUME T # {} PROVE FALSE
    OBVIOUS
  <1>1. PICK x \in T : \A y \in T : ~(<<y, x>> \in OpToRel(<, Nat))
    <2>1. T \subseteq Nat
      OBVIOUS
    <2> HIDE DEF T
    <2> QED
      BY <2>1, NatLessThanWellFounded, WFMin
  <1>2. \A y \in T : ~(y < x)
    <2> SUFFICES ASSUME NEW y \in T, y < x PROVE FALSE
      OBVIOUS
    <2>1. <<y, x>> \in OpToRel(<, Nat)
      BY DEF OpToRel
    <2> QED
      BY <1>1, <2>1
  <1>3. x # 0 /\ x - 1 \in Nat /\ x - 1 < n /\ x - 1 \in 0 .. n
    OBVIOUS
  <1>4. x - 1 \in S
    BY <1>2, <1>3
  <1> QED
    BY <1>3, <1>4

\* The recursion of FlattenSeq, and what each of its steps has joined.
Steps(s, n, g) == g = [i \in 1 .. n |-> IF i = 1 THEN s[i] ELSE g[i - 1] \o s[i]]
Glues(S, s, g) == /\ g \in [0 .. Len(s) -> Seq(S)] /\ g[0] = <<>>
                  /\ \A i \in 1 .. Len(s) : g[i] = g[i - 1] \o s[i]

LEMMA StepsExist ==
    ASSUME NEW S, NEW s \in Seq(Seq(S)), NEW n \in Nat, n <= Len(s)
    PROVE  \E g : Steps(s, n, g)
  <1> DEFINE T == {k \in Nat : k <= n => \E g : Steps(s, k, g)}
  <1>0. \A k \in Nat : k \in T <=> (k <= n => \E g : Steps(s, k, g))
    OBVIOUS
  <1> HIDE DEF T
  <1>1. 0 \in T
    <2>1. Steps(s, 0, <<>>)
      BY DEF Steps
    <2> QED
      BY <1>0, <2>1
  <1>2. ASSUME NEW k \in Nat, k \in T, k < n PROVE k + 1 \in T
    <2>1. PICK g : Steps(s, k, g)
      BY <1>0, <1>2
    <2> DEFINE h == [i \in 1 .. k + 1 |-> IF i = k + 1 THEN IF i = 1 THEN s[i] ELSE g[i - 1] \o s[i] ELSE g[i]]
    <2>2. ASSUME NEW i \in 1 .. k + 1 PROVE h[i] = IF i = 1 THEN s[i] ELSE h[i - 1] \o s[i]
      <3>1. CASE i = k + 1
        BY <3>1
      <3>2. CASE i # k + 1
        <4>1. i \in 1 .. k /\ (i # 1 => i - 1 \in 1 .. k /\ i - 1 # k + 1 /\ i - 1 \in 1 .. k + 1)
          BY <3>2
        <4>2. h[i] = g[i] /\ (i # 1 => h[i - 1] = g[i - 1])
          BY <3>2, <4>1
        <4>3. g[i] = IF i = 1 THEN s[i] ELSE g[i - 1] \o s[i]
          BY <2>1, <4>1 DEF Steps
        <4> QED
          BY <4>2, <4>3
      <3> QED
        BY <3>1, <3>2
    <2>3. h = [i \in 1 .. k + 1 |-> h[i]]
      OBVIOUS
    <2> HIDE DEF h
    <2>4. Steps(s, k + 1, h)
      BY <2>2, <2>3 DEF Steps
    <2> QED
      BY <1>0, <2>4
  <1>3. \A k \in 0 .. n : k \in T
    BY <1>1, <1>2, UpTo
  <1> QED
    BY <1>0, <1>3

LEMMA FlattenIs ==
    ASSUME NEW S, NEW s \in Seq(Seq(S))
    PROVE  \E g : Glues(S, s, g) /\ FlattenSeq(s) = g[Len(s)]
  <1>0. Len(s) \in Nat /\ \A i \in 1 .. Len(s) : s[i] \in Seq(S)
    OBVIOUS
  <1>1. CASE Len(s) = 0
    <2> DEFINE g == [i \in 0 .. Len(s) |-> <<>>]
    <2>1. FlattenSeq(s) = <<>>
      BY <1>1 DEF FlattenSeq
    <2>2. Glues(S, s, g) /\ g[Len(s)] = <<>>
      BY <1>1 DEF Glues
    <2> QED
      BY <2>1, <2>2
  <1>2. CASE Len(s) # 0
    <2> DEFINE f == CHOOSE g : Steps(s, Len(s), g)
               g == [i \in 0 .. Len(s) |-> IF i = 0 THEN <<>> ELSE f[i]]
    <2>1. FlattenSeq(s) = f[Len(s)]
      BY <1>2 DEF FlattenSeq, Steps
    <2>2. Steps(s, Len(s), f)
      BY <1>0, StepsExist
    <2> HIDE DEF f
    <2>3. \A i \in 1 .. Len(s) : f[i] = IF i = 1 THEN s[i] ELSE f[i - 1] \o s[i]
      BY <2>2 DEF Steps
    <2>4. g[0] = <<>> /\ g[Len(s)] = f[Len(s)]
      BY <1>0, <1>2
    <2>5. \A i \in 1 .. Len(s) : i # 1 => g[i] = f[i] /\ g[i - 1] = f[i - 1]
      BY <1>0
    <2>6. \A i \in 1 .. Len(s) : g[i] = f[i] /\ g = [k \in 0 .. Len(s) |-> g[k]]
      OBVIOUS
    <2> HIDE DEF g
    <2>7. ASSUME NEW i \in 1 .. Len(s) PROVE g[i] = g[i - 1] \o s[i]
      <3>1. CASE i = 1
        <4>1. f[i] = s[i] /\ i - 1 = 0
          BY <2>3, <3>1
        <4>2. <<>> \o s[i] = s[i]
          BY <1>0
        <4> QED
          BY <2>4, <2>6, <4>1, <4>2
      <3>2. CASE i # 1
        <4>1. g[i] = f[i] /\ g[i - 1] = f[i - 1]
          BY <2>5, <3>2
        <4>2. f[i] = f[i - 1] \o s[i]
          BY <2>3, <3>2
        <4> QED
          BY <4>1, <4>2
      <3> QED
        BY <3>1, <3>2
    <2> DEFINE T == {k \in Nat : k <= Len(s) => g[k] \in Seq(S)}
    <2>8. \A k \in Nat : k \in T <=> (k <= Len(s) => g[k] \in Seq(S))
      OBVIOUS
    <2> HIDE DEF T
    <2>9. 0 \in T
      <3>1. <<>> \in Seq(S)
        OBVIOUS
      <3>2. g[0] \in Seq(S)
        BY <2>4, <3>1
      <3> QED
        BY <2>8, <3>2
    <2>10. ASSUME NEW k \in Nat, k \in T, k < Len(s) PROVE k + 1 \in T
      <3>1. k + 1 \in 1 .. Len(s) /\ (k + 1) - 1 = k /\ k <= Len(s)
        BY <1>0, <2>10
      <3>2. g[k] \in Seq(S) /\ s[k + 1] \in Seq(S)
        BY <1>0, <2>8, <2>10, <3>1
      <3>3. g[k + 1] = g[k] \o s[k + 1]
        BY <2>7, <3>1
      <3>4. g[k] \o s[k + 1] \in Seq(S)
        BY <3>2
      <3>5. g[k + 1] \in Seq(S)
        BY <3>3, <3>4
      <3> QED
        BY <2>8, <3>5
    <2>11. \A k \in 0 .. Len(s) : k \in T
      BY <1>0, <2>9, <2>10, UpTo
    <2>12. \A k \in 0 .. Len(s) : g[k] \in Seq(S)
      BY <1>0, <2>8, <2>11
    <2>13. g = [k \in 0 .. Len(s) |-> g[k]]
      BY <1>0, <1>2, <2>6, SMTT(60)
    <2>14. Glues(S, s, g)
      <3>1. g \in [0 .. Len(s) -> Seq(S)]
        BY <2>12, <2>13
      <3> QED
        BY <2>4, <2>7, <3>1 DEF Glues
    <2> QED
      BY <2>1, <2>4, <2>14
  <1> QED
    BY <1>1, <1>2

\* One more sequence at the end.
LEMMA FlattenAppend ==
    ASSUME NEW S, NEW s \in Seq(Seq(S)), NEW x \in Seq(S)
    PROVE  FlattenSeq(Append(s, x)) = FlattenSeq(s) \o x
  <1> DEFINE t == Append(s, x)
  <1>1. /\ t \in Seq(Seq(S)) /\ Len(t) = Len(s) + 1 /\ Len(s) \in Nat /\ t[Len(s) + 1] = x
        /\ \A i \in 1 .. Len(s) : t[i] = s[i]
    OBVIOUS
  <1> HIDE DEF t
  <1>2. PICK g : Glues(S, s, g) /\ FlattenSeq(s) = g[Len(s)]
    BY FlattenIs
  <1>3. PICK h : Glues(S, t, h) /\ FlattenSeq(t) = h[Len(t)]
    BY <1>1, FlattenIs
  <1> DEFINE T == {k \in Nat : k <= Len(s) => h[k] = g[k]}
  <1>0. \A k \in Nat : k \in T <=> (k <= Len(s) => h[k] = g[k])
    OBVIOUS
  <1> HIDE DEF T
  <1>4. 0 \in T
    BY <1>0, <1>2, <1>3 DEF Glues
  <1>5. ASSUME NEW k \in Nat, k \in T, k < Len(s) PROVE k + 1 \in T
    <2>1. k + 1 \in 1 .. Len(s) /\ k + 1 \in 1 .. Len(t) /\ (k + 1) - 1 = k /\ h[k] = g[k]
      BY <1>0, <1>1, <1>5
    <2>2. g[k + 1] = g[k] \o s[k + 1] /\ h[k + 1] = h[k] \o t[k + 1] /\ t[k + 1] = s[k + 1]
      BY <1>1, <1>2, <1>3, <2>1 DEF Glues
    <2>3. h[k + 1] = g[k + 1]
      BY <2>1, <2>2
    <2> QED
      BY <1>0, <2>3
  <1>6. \A k \in 0 .. Len(s) : k \in T
    BY <1>1, <1>4, <1>5, UpTo
  <1>7. h[Len(s)] = g[Len(s)]
    BY <1>0, <1>1, <1>6
  <1>8. Len(t) \in 1 .. Len(t) /\ Len(t) - 1 = Len(s)
    BY <1>1
  <1>9. h[Len(t)] = h[Len(s)] \o x
    BY <1>1, <1>3, <1>8 DEF Glues
  <1> QED
    BY <1>2, <1>3, <1>7, <1>9 DEF t

\* The first sequence, and the others.
LEMMA FlattenHead ==
    ASSUME NEW S, NEW t \in Seq(Seq(S)), t # <<>>
    PROVE  /\ FlattenSeq(t) = Head(t) \o FlattenSeq(Tail(t))
           /\ Head(t) \in Seq(S) /\ FlattenSeq(Tail(t)) \in Seq(S)
  <1> DEFINE s == Tail(t)
             x == Head(t)
  <1>1. /\ s \in Seq(Seq(S)) /\ Len(t) = Len(s) + 1 /\ Len(s) \in Nat /\ x = t[1] /\ x \in Seq(S)
        /\ \A i \in 1 .. Len(s) : s[i] = t[i + 1]
    OBVIOUS
  <1> HIDE DEF s, x
  <1>2. PICK g : Glues(S, s, g) /\ FlattenSeq(s) = g[Len(s)]
    BY <1>1, FlattenIs
  <1>3. PICK h : Glues(S, t, h) /\ FlattenSeq(t) = h[Len(t)]
    BY FlattenIs
  <1> DEFINE T == {k \in Nat : k <= Len(s) => h[k + 1] = x \o g[k]}
  <1>0. \A k \in Nat : k \in T <=> (k <= Len(s) => h[k + 1] = x \o g[k])
    OBVIOUS
  <1> HIDE DEF T
  <1>4. 0 \in T
    <2>1. 1 \in 1 .. Len(t) /\ 1 - 1 = 0
      BY <1>1
    <2>2. h[1] = <<>> \o x /\ g[0] = <<>>
      BY <1>1, <1>2, <1>3, <2>1 DEF Glues
    <2>3. <<>> \o x = x \o <<>> /\ 0 + 1 = 1
      BY <1>1
    <2>4. h[0 + 1] = x \o g[0]
      BY <2>2, <2>3
    <2> QED
      BY <1>0, <2>4
  <1>5. ASSUME NEW k \in Nat, k \in T, k < Len(s) PROVE k + 1 \in T
    <2>1. /\ k + 1 \in 1 .. Len(s) /\ k + 2 \in 1 .. Len(t) /\ (k + 1) - 1 = k /\ (k + 2) - 1 = k + 1
          /\ k \in 0 .. Len(s) /\ (k + 1) + 1 = k + 2 /\ k <= Len(s)
      BY <1>1, <1>5
    <2>2. h[k + 1] = x \o g[k]
      BY <1>0, <1>5, <2>1
    <2>3. g[k + 1] = g[k] \o s[k + 1] /\ g[k] \in Seq(S)
      BY <1>2, <2>1 DEF Glues
    <2>4. h[k + 2] = h[k + 1] \o t[k + 2]
      BY <1>3, <2>1 DEF Glues
    <2>5. t[k + 2] = s[k + 1] /\ s[k + 1] \in Seq(S)
      BY <1>1, <2>1
    <2>6. \A a, b, c \in Seq(S) : (a \o b) \o c = a \o (b \o c)
      BY SMTT(60)
    <2>7. (x \o g[k]) \o s[k + 1] = x \o (g[k] \o s[k + 1])
      BY <1>1, <2>3, <2>5, <2>6
    <2>8. h[(k + 1) + 1] = x \o g[k + 1]
      BY <2>1, <2>2, <2>3, <2>4, <2>5, <2>7
    <2>9. k + 1 \in Nat
      BY <1>5
    <2> QED
      BY <1>0, <2>8, <2>9
  <1>6. \A k \in 0 .. Len(s) : k \in T
    BY <1>1, <1>4, <1>5, UpTo
  <1>7. h[Len(s) + 1] = x \o g[Len(s)] /\ g[Len(s)] \in Seq(S)
    <2>1. Len(s) \in 0 .. Len(s) /\ Len(s) <= Len(s) /\ Len(s) \in Nat
      BY <1>1
    <2>2. Len(s) \in T
      BY <1>6, <2>1
    <2> QED
      BY <1>0, <1>2, <2>1, <2>2 DEF Glues
  <1> QED
    BY <1>1, <1>2, <1>3, <1>7 DEF s, x

LEMMA FlattenType ==
    ASSUME NEW S, NEW s \in Seq(Seq(S)) PROVE FlattenSeq(s) \in Seq(S)
  <1>1. PICK g : Glues(S, s, g) /\ FlattenSeq(s) = g[Len(s)]
    BY FlattenIs
  <1> QED
    BY <1>1 DEF Glues

-----------------------------------------------------------------------------
(* The bytes: an invariant of pools, slices and what is on its way *)

ByteSet == (Pipes \X Nat) \cup {Garbage}
Chunk == [pool : Nat, start : Nat, len : Nat]
Pool  == {q \in [size : Nat, used : Nat, bytes : UNION {[0 .. n - 1 -> ByteSet] : n \in Nat}] :
              q.used <= q.size /\ q.bytes \in [0 .. q.size - 1 -> ByteSet]}

\* Of the pools ps: the bytes of a chunk, and that they have been read.
Piece(ps, c)  == [k \in 1 .. c.len |-> ps[c.pool].bytes[c.start + k - 1]]
InUse(ps, c)  == c.pool \in 1 .. Len(ps) /\ c.len >= 1 /\ c.start + c.len <= ps[c.pool].used
Filled(ps, l) == \A k \in 1 .. Len(l) : InUse(ps, l[k])
Slices(ps, l) == [i \in 1 .. Len(l) |-> Piece(ps, l[i])]

Kept(p)     == IF memory[p] # <<>> THEN Tail(batch[p]) ELSE batch[p]
AllSlices(p) == Kept(p) \o waiting[p] \o chunks[p]

BTyped == /\ pools \in Seq(Pool) /\ slot \in [Pipes -> Chunk]
          /\ chunks \in [Pipes -> Seq(Chunk)] /\ waiting \in [Pipes -> Seq(Chunk)]
          /\ batch \in [Pipes -> Seq(Chunk)]
          /\ memory \in [Pipes -> Seq(ByteSet)] /\ sink \in [Pipes -> Seq(ByteSet)]
          /\ cPos \in [Pipes -> Nat] /\ \A p \in Pipes : cPos[p] <= Length[p]

\* One stream reads at a time, into the free end of the current pool.
MidRead(p)  == reading[p] \in {"malloc", "read"}
OneReader   == \A p, q \in Pipes : MidRead(p) /\ MidRead(q) => p = q
ReadsToEnd(p) == MidRead(p) =>
    /\ pools # <<>> /\ slot[p].pool = Len(pools)
    /\ slot[p].start = pools[Len(pools)].used
    /\ slot[p].start + slot[p].len <= pools[Len(pools)].size

Holds(p) == /\ Filled(pools, batch[p]) /\ Filled(pools, waiting[p]) /\ Filled(pools, chunks[p])
            /\ writing[p] = "idle" => batch[p] = <<>> /\ memory[p] = <<>>
            /\ writing[p] = "malloc" => batch[p] # <<>> /\ memory[p] = <<>>
            /\ writing[p] \in {"write", "noFlags"} => batch[p] # <<>> /\ memory[p] # <<>>

InOrder(p) == IF writing[p] = "failed" THEN IsPrefix(sink[p], Source(p))
              ELSE sink[p] \o OnTheirWay(p) = SubSeq(Source(p), 1, cPos[p])

BInv == /\ BTyped /\ OneReader
        /\ \A p \in Pipes : ReadsToEnd(p) /\ Holds(p) /\ InOrder(p)

LEMMA OnTheirWayIs ==
    ASSUME NEW p
    PROVE  /\ OnTheirWay(p) = memory[p] \o FlattenSeq(Slices(pools, AllSlices(p)))
           /\ OnTheirWay(p)' = memory'[p] \o FlattenSeq(Slices(pools', AllSlices(p)'))
  BY DEF OnTheirWay, Slices, AllSlices, Kept, BytesOf, Piece

\* A slice of what has been read is a sequence of bytes.
LEMMA BytesType ==
    ASSUME NEW ps \in Seq(Pool), NEW c \in Chunk, InUse(ps, c)
    PROVE  Piece(ps, c) \in Seq(ByteSet) /\ Len(Piece(ps, c)) = c.len /\ Piece(ps, c) # <<>>
  <1>1. /\ c.pool \in Nat /\ c.start \in Nat /\ c.len \in Nat /\ c.len >= 1
        /\ c.pool \in 1 .. Len(ps) /\ c.start + c.len <= ps[c.pool].used
    BY DEF Chunk, InUse
  <1> DEFINE q == ps[c.pool]
  <1>2. q \in Pool
    BY <1>1
  <1>3. q.size \in Nat /\ q.used \in Nat /\ q.used <= q.size /\ q.bytes \in [0 .. q.size - 1 -> ByteSet]
    BY <1>2 DEF Pool
  <1>4. c.start + c.len <= q.used
    BY <1>1
  <1>5. \A k \in 1 .. c.len : c.start + k - 1 \in 0 .. q.size - 1
    <2> HIDE DEF q
    <2> QED
      BY <1>1, <1>3, <1>4, SMTT(60)
  <1> DEFINE f == q.bytes
             b == [k \in 1 .. c.len |-> f[c.start + k - 1]]
  <1>7. Piece(ps, c) = b
    BY DEF Piece
  <1>6. \A k \in 1 .. c.len : f[c.start + k - 1] \in ByteSet
    <2> HIDE DEF q, ByteSet
    <2>1. f \in [0 .. q.size - 1 -> ByteSet]
      BY <1>3
    <2> HIDE DEF f
    <2> QED
      BY <1>5, <2>1
  <1> HIDE DEF f
  <1>8. b \in [1 .. c.len -> ByteSet]
    BY <1>6
  <1> HIDE DEF b
  <1>9. b \in Seq(ByteSet) /\ Len(b) = c.len
    BY <1>1, <1>8
  <1> QED
    BY <1>1, <1>7, <1>9

LEMMA SlicesType ==
    ASSUME NEW ps \in Seq(Pool), NEW l \in Seq(Chunk), Filled(ps, l)
    PROVE  Slices(ps, l) \in Seq(Seq(ByteSet)) /\ Len(Slices(ps, l)) = Len(l)
  <1>1. \A k \in 1 .. Len(l) : Piece(ps, l[k]) \in Seq(ByteSet)
    BY BytesType DEF Filled
  <1>2. Slices(ps, l) \in [1 .. Len(l) -> Seq(ByteSet)] /\ Len(l) \in Nat
    BY <1>1 DEF Slices
  <1> QED
    BY <1>2

\* The lists of a pipe, as one.
LEMMA AllFilled ==
    ASSUME NEW ps, NEW a \in Seq(Chunk), NEW b \in Seq(Chunk), Filled(ps, a), Filled(ps, b)
    PROVE  a \o b \in Seq(Chunk) /\ Filled(ps, a \o b)
  <1> DEFINE u == a \o b
  <1>1. /\ u \in Seq(Chunk) /\ Len(u) = Len(a) + Len(b) /\ Len(a) \in Nat /\ Len(b) \in Nat
        /\ \A k \in 1 .. Len(u) : u[k] = IF k <= Len(a) THEN a[k] ELSE b[k - Len(a)]
    OBVIOUS
  <1> HIDE DEF u
  <1>2. ASSUME NEW k \in 1 .. Len(u) PROVE InUse(ps, u[k])
    <2>1. CASE k <= Len(a)
      <3>1. k \in 1 .. Len(a) /\ u[k] = a[k]
        BY <1>1, <2>1
      <3> QED
        BY <3>1 DEF Filled
    <2>2. CASE ~(k <= Len(a))
      <3>1. k - Len(a) \in 1 .. Len(b) /\ u[k] = b[k - Len(a)]
        BY <1>1, <2>2
      <3> QED
        BY <3>1 DEF Filled
    <2> QED
      BY <2>1, <2>2
  <1> QED
    BY <1>1, <1>2 DEF Filled, u

LEMMA TailFilled ==
    ASSUME NEW ps, NEW l \in Seq(Chunk), Filled(ps, l), l # <<>>
    PROVE  /\ Tail(l) \in Seq(Chunk) /\ Filled(ps, Tail(l)) /\ Head(l) \in Chunk /\ InUse(ps, Head(l))
           /\ Filled(ps, <<Head(l)>>) /\ <<Head(l)>> \in Seq(Chunk)
  <1>1. /\ Tail(l) \in Seq(Chunk) /\ Len(Tail(l)) = Len(l) - 1 /\ Len(l) \in Nat /\ Len(l) >= 1
        /\ Head(l) = l[1] /\ l[1] \in Chunk /\ \A k \in 1 .. Len(Tail(l)) : Tail(l)[k] = l[k + 1]
    OBVIOUS
  <1>2. 1 \in 1 .. Len(l) /\ \A k \in 1 .. Len(Tail(l)) : k + 1 \in 1 .. Len(l)
    BY <1>1
  <1>3. InUse(ps, l[1]) /\ \A k \in 1 .. Len(Tail(l)) : InUse(ps, l[k + 1])
    BY <1>2 DEF Filled
  <1>4. Filled(ps, Tail(l))
    BY <1>1, <1>3 DEF Filled
  <1>5. <<l[1]>> \in Seq(Chunk) /\ Len(<<l[1]>>) = 1 /\ <<l[1]>>[1] = l[1]
    BY <1>1
  <1>6. Filled(ps, <<l[1]>>)
    BY <1>3, <1>5 DEF Filled
  <1> QED
    BY <1>1, <1>3, <1>4, <1>5, <1>6

LEMMA AllType ==
    ASSUME BTyped, NEW p \in Pipes, Holds(p)
    PROVE  /\ Kept(p) \in Seq(Chunk) /\ Filled(pools, Kept(p)) /\ waiting[p] \in Seq(Chunk) /\ chunks[p] \in Seq(Chunk)
           /\ AllSlices(p) \in Seq(Chunk) /\ Filled(pools, AllSlices(p))
           /\ Slices(pools, AllSlices(p)) \in Seq(Seq(ByteSet)) /\ FlattenSeq(Slices(pools, AllSlices(p))) \in Seq(ByteSet)
  <1>1. /\ batch[p] \in Seq(Chunk) /\ waiting[p] \in Seq(Chunk) /\ chunks[p] \in Seq(Chunk)
        /\ Filled(pools, batch[p]) /\ Filled(pools, waiting[p]) /\ Filled(pools, chunks[p]) /\ pools \in Seq(Pool)
    BY DEF BTyped, Holds
  <1>2. Kept(p) \in Seq(Chunk) /\ Filled(pools, Kept(p))
    <2>1. CASE batch[p] = <<>>
      <3>1. Tail(<<>>) = <<>> 
        OBVIOUS
      <3> QED
        BY <1>1, <2>1, <3>1 DEF Kept
    <2>2. CASE batch[p] # <<>>
      BY <1>1, <2>2, TailFilled DEF Kept
    <2> QED
      BY <2>1, <2>2
  <1>3. AllSlices(p) \in Seq(Chunk) /\ Filled(pools, AllSlices(p))
    BY <1>1, <1>2, AllFilled DEF AllSlices
  <1>4. Slices(pools, AllSlices(p)) \in Seq(Seq(ByteSet))
    BY <1>1, <1>3, SlicesType
  <1>5. FlattenSeq(Slices(pools, AllSlices(p))) \in Seq(ByteSet)
    BY <1>4, FlattenType
  <1> QED
    BY <1>1, <1>2, <1>3, <1>4, <1>5

\* A pool may get more bytes, behind those that are used, and there may be more
\* pools: a slice keeps its bytes.
Grow(ps, qs) ==
    /\ qs \in Seq(Pool) /\ Len(ps) <= Len(qs)
    /\ \A k \in 1 .. Len(ps) :
         /\ ps[k].used <= qs[k].used
         /\ \A j \in 0 .. ps[k].used - 1 : qs[k].bytes[j] = ps[k].bytes[j]

LEMMA GrowSelf == ASSUME NEW ps \in Seq(Pool) PROVE Grow(ps, ps)
  <1>1. Len(ps) \in Nat /\ \A k \in 1 .. Len(ps) : ps[k] \in Pool
    OBVIOUS
  <1>2. \A k \in 1 .. Len(ps) : ps[k].used \in Nat
    BY <1>1 DEF Pool
  <1> QED
    BY <1>1, <1>2 DEF Grow

LEMMA PieceKept ==
    ASSUME NEW ps \in Seq(Pool), NEW qs, Grow(ps, qs), NEW c \in Chunk, InUse(ps, c)
    PROVE  InUse(qs, c) /\ Piece(qs, c) = Piece(ps, c)
  <1>1. /\ c.pool \in 1 .. Len(ps) /\ c.len \in Nat /\ c.start \in Nat /\ c.len >= 1
        /\ c.start + c.len <= ps[c.pool].used /\ Len(ps) \in Nat
    BY DEF InUse, Chunk
  <1>2. /\ qs \in Seq(Pool) /\ Len(ps) <= Len(qs) /\ Len(qs) \in Nat
        /\ ps[c.pool].used <= qs[c.pool].used
        /\ \A j \in 0 .. ps[c.pool].used - 1 : qs[c.pool].bytes[j] = ps[c.pool].bytes[j]
    BY <1>1 DEF Grow
  <1>3. c.pool \in 1 .. Len(qs)
    BY <1>1, <1>2
  <1>4. ps[c.pool] \in Pool /\ qs[c.pool] \in Pool
    BY <1>1, <1>2, <1>3
  <1>5. ps[c.pool].used \in Nat /\ qs[c.pool].used \in Nat
    BY <1>4 DEF Pool
  <1>6. \A k \in 1 .. c.len : c.start + k - 1 \in 0 .. ps[c.pool].used - 1
    BY <1>1, <1>5, SMTT(60)
  <1>7. \A k \in 1 .. c.len : qs[c.pool].bytes[c.start + k - 1] = ps[c.pool].bytes[c.start + k - 1]
    BY <1>2, <1>6
  <1>8. Piece(qs, c) = Piece(ps, c)
    BY <1>7 DEF Piece
  <1>9. c.start + c.len <= qs[c.pool].used
    BY <1>1, <1>2, <1>5
  <1> QED
    BY <1>1, <1>3, <1>8, <1>9 DEF InUse

LEMMA SlicesKept ==
    ASSUME NEW ps \in Seq(Pool), NEW qs, Grow(ps, qs), NEW l \in Seq(Chunk), Filled(ps, l)
    PROVE  Filled(qs, l) /\ Slices(qs, l) = Slices(ps, l)
  <1>1. \A k \in 1 .. Len(l) : InUse(qs, l[k]) /\ Piece(qs, l[k]) = Piece(ps, l[k])
    BY PieceKept DEF Filled
  <1> QED
    BY <1>1 DEF Filled, Slices

\* A pipe of which a step changes nothing but where its pools end.
Untouched(p) == /\ waiting'[p] = waiting[p] /\ chunks'[p] = chunks[p] /\ batch'[p] = batch[p]
                /\ memory'[p] = memory[p] /\ sink'[p] = sink[p] /\ cPos'[p] = cPos[p]
                /\ writing'[p] = writing[p]

LEMMA PipeKept ==
    ASSUME BInv, NEW p \in Pipes, Untouched(p), Grow(pools, pools')
    PROVE  Holds(p)' /\ InOrder(p)'
  <1>1. BTyped /\ Holds(p) /\ InOrder(p)
    BY DEF BInv
  <1>2. /\ batch[p] \in Seq(Chunk) /\ waiting[p] \in Seq(Chunk) /\ chunks[p] \in Seq(Chunk)
        /\ pools \in Seq(Pool)
    BY <1>1 DEF BTyped
  <1>3. Filled(pools', batch[p]) /\ Filled(pools', waiting[p]) /\ Filled(pools', chunks[p])
    BY <1>1, <1>2, SlicesKept DEF Holds
  <1>4. Holds(p)'
    BY <1>1, <1>3 DEF Holds, Untouched
  <1>5. AllSlices(p)' = AllSlices(p)
    BY DEF AllSlices, Kept, Untouched
  <1>6. Slices(pools', AllSlices(p)) = Slices(pools, AllSlices(p))
    BY <1>1, <1>2, AllType, SlicesKept
  <1>7. OnTheirWay(p) = memory[p] \o FlattenSeq(Slices(pools, AllSlices(p)))
    BY OnTheirWayIs
  <1>8. OnTheirWay(p)' = memory'[p] \o FlattenSeq(Slices(pools', AllSlices(p)'))
    BY OnTheirWayIs
  <1>9. OnTheirWay(p)' = OnTheirWay(p)
    BY <1>5, <1>6, <1>7, <1>8 DEF Untouched
  <1>10. InOrder(p)'
    BY <1>1, <1>9 DEF InOrder, Untouched, Source
  <1> QED
    BY <1>4, <1>10

\* A step that leaves pools and bytes alone, and no stream reads that did not.
SameBytes == UNCHANGED <<pools, chunks, waiting, batch, memory, sink, cPos>>

LEMMA QuietKeeps ==
    ASSUME BInv, SameBytes, slot' \in [Pipes -> Chunk],
           \A p \in Pipes : writing'[p] = writing[p],
           \A p \in Pipes : MidRead(p)' => MidRead(p) /\ slot'[p] = slot[p]
    PROVE  BInv'
  <1>1. BTyped /\ OneReader /\ \A p \in Pipes : ReadsToEnd(p)
    BY DEF BInv
  <1>2. BTyped' /\ Grow(pools, pools')
    BY <1>1, GrowSelf DEF BTyped, SameBytes
  <1>3. OneReader'
    BY <1>1 DEF OneReader
  <1>4. \A p \in Pipes : ReadsToEnd(p)'
    BY <1>1 DEF ReadsToEnd, SameBytes
  <1>5. \A p \in Pipes : Untouched(p)
    BY DEF Untouched, SameBytes
  <1> QED
    BY <1>2, <1>3, <1>4, <1>5, PipeKept DEF BInv

-----------------------------------------------------------------------------
(* Each step keeps the bytes *)

LEMMA MinOfTwo ==
    ASSUME NEW m \in Nat, NEW n \in Nat
    PROVE  Min({m, n}) \in Nat /\ Min({m, n}) <= m /\ Min({m, n}) <= n
  <1>1. \E x \in {m, n} : \A y \in {m, n} : x <= y
    OBVIOUS
  <1>2. Min({m, n}) \in {m, n} /\ \A y \in {m, n} : Min({m, n}) <= y
    BY <1>1 DEF Min
  <1> QED
    BY <1>2

LEMMA PoolIs ==
    ASSUME NEW n \in Nat, NEW u \in Nat, u <= n, NEW b \in [0 .. n - 1 -> ByteSet]
    PROVE  [size |-> n, used |-> u, bytes |-> b] \in Pool
  <1> DEFINE U == UNION {[0 .. m - 1 -> ByteSet] : m \in Nat}
             q == [size |-> n, used |-> u, bytes |-> b]
  <1>1. b \in U
    <2> DEFINE A == {[0 .. m - 1 -> ByteSet] : m \in Nat}
    <2>1. [0 .. n - 1 -> ByteSet] \in A
      OBVIOUS
    <2> HIDE DEF A
    <2> QED
      BY <2>1
  <1>2. Pool = {x \in [size : Nat, used : Nat, bytes : U] : x.used <= x.size /\ x.bytes \in [0 .. x.size - 1 -> ByteSet]}
    BY DEF Pool
  <1> HIDE DEF U
  <1>3. q \in [size : Nat, used : Nat, bytes : U]
    BY <1>1
  <1>4. q.used = u /\ q.size = n /\ q.bytes = b
    OBVIOUS
  <1> HIDE DEF q
  <1>5. q \in Pool
    BY <1>2, <1>3, <1>4
  <1> QED
    BY <1>5 DEF q

LEMMA PoolsGrow ==
    ASSUME pools \in Seq(Pool), NEW p \in Pipes
    PROVE  PoolsFor(p) \in Seq(Pool) /\ Grow(pools, PoolsFor(p)) /\ Len(PoolsFor(p)) \in Nat \ {0}
  <1>1. CASE pools # <<>> /\ Last(pools).size - Last(pools).used >= MinPoolSpace
    BY <1>1, GrowSelf DEF PoolsFor
  <1>2. CASE ~(pools # <<>> /\ Last(pools).size - Last(pools).used >= MinPoolSpace)
    <2> DEFINE n == HighWaterMark[p]
               b == [k \in 0 .. n - 1 |-> Garbage]
               new == [size |-> n, used |-> 0, bytes |-> b]
               ps == Append(pools, new)
    <2>1. PoolsFor(p) = ps
      BY <1>2 DEF PoolsFor
    <2>2. n \in Nat
      BY StreamsAssumption
    <2>3. new \in Pool
      <3>1. b \in [0 .. n - 1 -> ByteSet]
        BY DEF ByteSet
      <3> HIDE DEF b, n
      <3> QED
        BY <2>2, <3>1, PoolIs
    <2> HIDE DEF new
    <2>4. ps \in Seq(Pool) /\ Len(ps) = Len(pools) + 1 /\ Len(pools) \in Nat /\ \A k \in 1 .. Len(pools) : ps[k] = pools[k]
      BY <2>3
    <2> HIDE DEF ps
    <2>5. \A k \in 1 .. Len(pools) : pools[k].used \in Nat
      <3>1. \A k \in 1 .. Len(pools) : pools[k] \in Pool
        OBVIOUS
      <3> QED
        BY <3>1 DEF Pool
    <2>6. Grow(pools, ps)
      BY <2>4, <2>5 DEF Grow
    <2> QED
      BY <2>1, <2>4, <2>6
  <1> QED
    BY <1>1, <1>2

LEMMA ReadBytes ==
    ASSUME "overlap" \notin Habits, SInv, BInv, NEW p \in Pipes, Read(p)
    PROVE  BInv'
  <1> DEFINE ps == PoolsFor(p)
             last == ps[Len(ps)]
             n == Min({last.size - last.used, HighWaterMark[p]})
  <1>0. BTyped /\ reading \in [Pipes -> {"idle", "malloc", "read", "failed"}]
    BY DEF BInv, SInv, Typed
  <1>1. /\ MayRead(p) /\ pools' = ps
        /\ slot' = [slot EXCEPT ![p] = [pool |-> Len(ps), start |-> last.used, len |-> n]]
        /\ reading' = [reading EXCEPT ![p] = "malloc"]
        /\ UNCHANGED <<chunks, waiting, batch, memory, sink, cPos, writing>>
    BY DEF Read, writeVars, Last
  <1>2. \A q \in Pipes : ~MidRead(q)
    BY <1>1 DEF MayRead, MidRead
  <1>3. ps \in Seq(Pool) /\ Grow(pools, ps) /\ Len(ps) \in Nat \ {0}
    BY <1>0, PoolsGrow DEF BTyped
  <1>4. /\ last.size \in Nat /\ last.used \in Nat /\ last.used <= last.size
        /\ n \in Nat /\ last.used + n <= last.size
    <2> HIDE DEF ps
    <2>1. last \in Pool
      BY <1>3
    <2>2. last.size \in Nat /\ last.used \in Nat /\ last.used <= last.size
      BY <2>1 DEF Pool
    <2>3. last.size - last.used \in Nat /\ HighWaterMark[p] \in Nat
      BY <2>2, StreamsAssumption
    <2>4. n \in Nat /\ n <= last.size - last.used
      BY <2>3, MinOfTwo
    <2> HIDE DEF n, last
    <2> QED
      BY <2>2, <2>4
  <1> HIDE DEF ps, last, n
  <1>5. /\ slot'[p] = [pool |-> Len(ps), start |-> last.used, len |-> n] /\ slot'[p] \in Chunk
        /\ slot' \in [Pipes -> Chunk]
    BY <1>0, <1>1, <1>3, <1>4 DEF BTyped, Chunk
  <1>6. BTyped'
    BY <1>0, <1>1, <1>3, <1>5 DEF BTyped
  <1>7. \A q \in Pipes : MidRead(q)' => q = p
    BY <1>0, <1>1, <1>2 DEF MidRead
  <1>8. \A q \in Pipes : ReadsToEnd(q)'
    <2>1. pools' # <<>>
      BY <1>1, <1>3
    <2>2. /\ slot'[p].pool = Len(pools') /\ slot'[p].start = pools'[Len(pools')].used
          /\ slot'[p].start + slot'[p].len <= pools'[Len(pools')].size
      BY <1>1, <1>4, <1>5 DEF last
    <2> QED
      BY <1>7, <2>1, <2>2 DEF ReadsToEnd
  <1>9. \A q \in Pipes : Holds(q)' /\ InOrder(q)'
    <2>1. \A q \in Pipes : Untouched(q)
      BY <1>1 DEF Untouched
    <2> QED
      BY <1>1, <1>3, <2>1, PipeKept
  <1>10. OneReader'
    BY <1>7 DEF OneReader
  <1> QED
    BY <1>6, <1>8, <1>9, <1>10 DEF BInv

\* The steps that touch no byte.
LEMMA QuietBytes ==
    ASSUME SInv, BInv,
           \/ \E x \in Streams : Answer(x) \/ ProgramDestroys(x)
           \/ \E p \in Pipes : ReadGetsMemory(p) \/ ReadFails(p) \/ End(p) \/ Finish(p)
           \/ UNCHANGED vars
    PROVE  BInv'
  <1>0. BTyped /\ reading \in [Pipes -> {"idle", "malloc", "read", "failed"}]
    BY DEF BInv, SInv, Typed
  <1>1. ASSUME NEW x \in Streams, Answer(x) \/ ProgramDestroys(x) PROVE BInv'
    <2>1. UNCHANGED <<readVars, chunks, writeVars>>
      BY <1>1 DEF Answer, OpenReturns, OpenFails, CloseReturns, ProgramDestroys
    <2> QED
      BY <1>0, <2>1, QuietKeeps DEF readVars, writeVars, SameBytes, MidRead, BTyped
  <1>2. ASSUME NEW p \in Pipes, End(p) \/ Finish(p) PROVE BInv'
    <2>1. UNCHANGED <<readVars, chunks, writeVars>>
      BY <1>2 DEF End, Finish
    <2> QED
      BY <1>0, <2>1, QuietKeeps DEF readVars, writeVars, SameBytes, MidRead, BTyped
  <1>3. ASSUME NEW p \in Pipes, ReadGetsMemory(p) PROVE BInv'
    <2>1. In(queue, Call("malloc", R(p)))
      BY <1>3, Answers DEF ReadGetsMemory
    <2>2. reading[p] = "malloc"
      BY <2>1 DEF SInv, Reads
    <2>3. /\ reading' = [reading EXCEPT ![p] = "read"] /\ UNCHANGED <<slot, writing>> /\ SameBytes
      BY <1>3 DEF ReadGetsMemory, writeVars, SameBytes
    <2>4. \A q \in Pipes : MidRead(q)' => MidRead(q) /\ slot'[q] = slot[q]
      BY <1>0, <2>2, <2>3 DEF MidRead
    <2> QED
      BY <1>0, <2>3, <2>4, QuietKeeps DEF BTyped
  <1>4. ASSUME NEW p \in Pipes, ReadFails(p) PROVE BInv'
    <2>1. /\ reading' = [reading EXCEPT ![p] = "failed"] /\ slot' = [slot EXCEPT ![p] = NoSlot]
          /\ SameBytes /\ UNCHANGED writing
      BY <1>4 DEF ReadFails, writeVars, SameBytes
    <2>2. NoSlot \in Chunk
      BY DEF NoSlot, Chunk
    <2>3. slot' \in [Pipes -> Chunk]
      BY <1>0, <2>1, <2>2 DEF BTyped
    <2>4. \A q \in Pipes : MidRead(q)' => MidRead(q) /\ slot'[q] = slot[q]
      BY <1>0, <2>1 DEF MidRead, BTyped
    <2> QED
      BY <2>1, <2>3, <2>4, QuietKeeps
  <1>5. CASE UNCHANGED vars
    BY <1>0, <1>5, QuietKeeps DEF vars, readVars, writeVars, SameBytes, MidRead, BTyped
  <1> QED
    BY <1>1, <1>2, <1>3, <1>4, <1>5

\* Three lists in a row: the first of the third moves to the end of the second.
LEMMA RowMoves ==
    ASSUME NEW a \in Seq(Chunk), NEW b \in Seq(Chunk), NEW c \in Seq(Chunk), c # <<>>
    PROVE  a \o Append(b, Head(c)) \o Tail(c) = a \o b \o c
  <1> DEFINE h == <<Head(c)>>
             t == Tail(c)
  <1>1. Head(c) \in Chunk /\ t \in Seq(Chunk) /\ Len(c) \in Nat \ {0} /\ Head(c) = c[1]
    BY HeadTailProperties, EmptySeq
  <1>2. h \in Seq(Chunk)
    BY <1>1
  <1>3. Append(b, Head(c)) = b \o h
    BY <1>1, AppendIsConcat
  <1>4. c = h \o t
    <2>1. 1 \in 1 .. Len(c) /\ Len(c) \in 1 .. Len(c) /\ 1 + 1 = 2
      BY <1>1
    <2>2. SubSeq(c, 1, Len(c)) = <<c[1]>> \o SubSeq(c, 2, Len(c))
      BY <2>1, SubSeqRecursiveFirst
    <2>3. SubSeq(c, 1, Len(c)) = c /\ t = SubSeq(c, 2, Len(c))
      BY SubSeqFull, TailIsSubSeq
    <2> QED
      BY <1>1, <2>2, <2>3
  <1> HIDE DEF h, t
  <1> DEFINE d == a \o b
  <1>5. a \o (b \o h) = d \o h
    BY <1>2, SMTT(60)
  <1>6. d \in Seq(Chunk)
    OBVIOUS
  <1>7. t \in Seq(Chunk)
    BY <1>1
  <1> HIDE DEF d
  <1>8. (d \o h) \o t = d \o (h \o t)
    BY <1>2, <1>6, <1>7, SMTT(60)
  <1> QED
    BY <1>3, <1>4, <1>5, <1>8 DEF t, d

\* The second becomes the first.
LEMMA RowShifts ==
    ASSUME NEW S, NEW b \in Seq(S), NEW c \in Seq(S)
    PROVE  b \o <<>> \o c = <<>> \o b \o c
  <1>1. b \o <<>> = b /\ <<>> \o b = b
    OBVIOUS
  <1> QED
    BY <1>1

\* The first of all is taken.
LEMMA RowTakes ==
    ASSUME NEW S, NEW a \in Seq(S), NEW b \in Seq(S), NEW c \in Seq(S), a # <<>>
    PROVE  /\ a \o b \o c # <<>> /\ Head(a \o b \o c) = Head(a)
           /\ Tail(a \o b \o c) = Tail(a) \o b \o c
  <1>1. \A x, y \in Seq(S) : x # <<>> => /\ x \o y # <<>> /\ Head(x \o y) = Head(x)
                                         /\ Tail(x \o y) = Tail(x) \o y /\ x \o y \in Seq(S)
    OBVIOUS
  <1> QED
    BY <1>1

LEMMA RowJoins ==
    ASSUME NEW S, NEW a \in Seq(S), NEW b \in Seq(S), NEW c \in Seq(S)
    PROVE  (a \o b) \o (<<>> \o c) = a \o (b \o c)
  <1>1. (a \o b) \o c = a \o (b \o c) /\ <<>> \o c = c
    OBVIOUS
  <1> QED
    BY <1>1

LEMMA OneOrMore ==
    ASSUME NEW S, NEW s \in Seq(S), s # <<>>
    PROVE  Len(s) > 1 <=> Tail(s) # <<>>
  <1>1. Len(s) \in Nat \ {0} /\ Tail(s) \in Seq(S) /\ Len(Tail(s)) = Len(s) - 1
    BY HeadTailProperties, EmptySeq
  <1>2. Tail(s) # <<>> => Len(Tail(s)) \in Nat \ {0}
    BY <1>1, EmptySeq
  <1>3. Tail(s) = <<>> => Len(Tail(s)) = 0
    BY EmptySeq
  <1> QED
    BY <1>1, <1>2, <1>3

\* A step of the writing side of the pipe p.
LEMMA WriteSide ==
    ASSUME BInv, NEW p \in Pipes, UNCHANGED <<pools, slot, reading, cPos>>, BTyped',
           \A q \in Pipes \ {p} : Untouched(q), Holds(p)', InOrder(p)'
    PROVE  BInv'
  <1>1. Grow(pools, pools')
    BY GrowSelf DEF BInv, BTyped
  <1>2. \A q \in Pipes \ {p} : Holds(q)' /\ InOrder(q)'
    BY <1>1, PipeKept
  <1>3. OneReader' /\ \A q \in Pipes : ReadsToEnd(q)'
    BY DEF BInv, OneReader, ReadsToEnd, MidRead
  <1> QED
    BY <1>2, <1>3 DEF BInv

\* The same slices, in other lists.
LEMMA SameSlices ==
    ASSUME BInv, NEW p \in Pipes, pools' = pools, AllSlices(p)' = AllSlices(p),
           memory'[p] = memory[p], sink'[p] = sink[p], cPos'[p] = cPos[p],
           writing'[p] = "failed" <=> writing[p] = "failed"
    PROVE  InOrder(p)'
  <1>1. InOrder(p)
    BY DEF BInv
  <1>2. OnTheirWay(p)' = OnTheirWay(p)
    BY OnTheirWayIs
  <1> QED
    BY <1>1, <1>2 DEF InOrder, Source

LEMMA PassBytes ==
    ASSUME SInv, BInv, NEW p \in Pipes, Pass(p)
    PROVE  BInv'
  <1> DEFINE c == Head(chunks[p])
  <1>0. BTyped /\ Holds(p)
    BY DEF BInv
  <1>1. /\ chunks[p] # <<>> /\ waiting' = [waiting EXCEPT ![p] = Append(@, c)]
        /\ chunks' = [chunks EXCEPT ![p] = Tail(@)]
        /\ UNCHANGED <<pools, slot, reading, cPos, writing, batch, memory, sink>>
    BY DEF Pass, readVars
  <1>2. /\ Kept(p) \in Seq(Chunk) /\ waiting[p] \in Seq(Chunk) /\ chunks[p] \in Seq(Chunk)
        /\ Filled(pools, waiting[p]) /\ Filled(pools, chunks[p])
    BY <1>0, AllType DEF Holds
  <1>3. /\ Tail(chunks[p]) \in Seq(Chunk) /\ Filled(pools, Tail(chunks[p])) /\ c \in Chunk
        /\ Filled(pools, <<c>>) /\ <<c>> \in Seq(Chunk)
    BY <1>1, <1>2, TailFilled
  <1>4. Append(waiting[p], c) \in Seq(Chunk) /\ Filled(pools, Append(waiting[p], c))
    <2> HIDE DEF c
    <2>1. Append(waiting[p], c) = waiting[p] \o <<c>>
      BY <1>2, <1>3, AppendIsConcat
    <2> DEFINE h == <<c>>
    <2> HIDE DEF h
    <2>2. h \in Seq(Chunk) /\ Filled(pools, h)
      BY <1>3 DEF h
    <2>3. waiting[p] \o h \in Seq(Chunk) /\ Filled(pools, waiting[p] \o h)
      BY <1>2, <2>2, AllFilled
    <2> QED
      BY <2>1, <2>3 DEF h
  <1>5. BTyped'
    BY <1>0, <1>1, <1>3, <1>4 DEF BTyped
  <1>6. waiting'[p] = Append(waiting[p], c) /\ chunks'[p] = Tail(chunks[p])
    BY <1>0, <1>1 DEF BTyped
  <1>7. Holds(p)'
    BY <1>0, <1>1, <1>3, <1>4, <1>6 DEF Holds
  <1>8. AllSlices(p)' = AllSlices(p)
    <2>1. Kept(p) \o Append(waiting[p], c) \o Tail(chunks[p]) = AllSlices(p)
      <3> DEFINE a == Kept(p)
                 w == waiting[p]
                 x == chunks[p]
      <3>1. a \in Seq(Chunk) /\ w \in Seq(Chunk) /\ x \in Seq(Chunk) /\ x # <<>>
        BY <1>1, <1>2
      <3> HIDE DEF a, w, x
      <3>2. a \o Append(w, Head(x)) \o Tail(x) = a \o w \o x
        BY <3>1, RowMoves
      <3> QED
        BY <3>2 DEF a, w, x, AllSlices
    <2>2. Kept(p)' = Kept(p)
      BY <1>1 DEF Kept
    <2> QED
      BY <1>6, <2>1, <2>2 DEF AllSlices
  <1>9. \A q \in Pipes \ {p} : Untouched(q)
    BY <1>0, <1>1 DEF Untouched, BTyped
  <1>10. InOrder(p)'
    BY <1>1, <1>8, SameSlices
  <1> QED
    BY <1>1, <1>5, <1>7, <1>9, <1>10, WriteSide

LEMMA WriteBytes ==
    ASSUME SInv, BInv, NEW p \in Pipes, Write(p)
    PROVE  BInv'
  <1>0. BTyped /\ Holds(p) /\ writing \in [Pipes -> {"idle", "malloc", "write", "noFlags", "failed"}]
    BY DEF BInv, SInv, Typed
  <1>1. /\ writing[p] = "idle" /\ waiting[p] # <<>>
        /\ batch' = [batch EXCEPT ![p] = waiting[p]] /\ waiting' = [waiting EXCEPT ![p] = <<>>]
        /\ writing' = [writing EXCEPT ![p] = "malloc"]
        /\ UNCHANGED <<pools, slot, reading, cPos, chunks, memory, sink>>
    BY DEF Write, readVars
  <1>2. batch[p] = <<>> /\ memory[p] = <<>>
    BY <1>0, <1>1 DEF Holds
  <1>3. waiting[p] \in Seq(Chunk) /\ chunks[p] \in Seq(Chunk) /\ <<>> \in Seq(Chunk)
    BY <1>0 DEF BTyped
  <1>4. BTyped'
    BY <1>0, <1>1, <1>3 DEF BTyped
  <1>5. batch'[p] = waiting[p] /\ waiting'[p] = <<>> /\ writing'[p] = "malloc"
    BY <1>0, <1>1 DEF BTyped
  <1>6. Filled(pools, <<>>)
    BY DEF Filled
  <1>7. Holds(p)'
    BY <1>0, <1>1, <1>2, <1>5, <1>6 DEF Holds
  <1>8. AllSlices(p)' = AllSlices(p)
    <2>1. Kept(p)' = waiting[p] /\ Kept(p) = <<>>
      BY <1>1, <1>2, <1>5 DEF Kept
    <2>2. waiting[p] \o <<>> \o chunks[p] = <<>> \o waiting[p] \o chunks[p]
      BY <1>3, RowShifts
    <2> QED
      BY <1>1, <1>5, <2>1, <2>2 DEF AllSlices
  <1>9. \A q \in Pipes \ {p} : Untouched(q)
    BY <1>0, <1>1 DEF Untouched, BTyped
  <1>10. InOrder(p)'
    BY <1>1, <1>5, <1>8, SameSlices
  <1> QED
    BY <1>1, <1>4, <1>7, <1>9, <1>10, WriteSide

LEMMA WriteGetsMemoryBytes ==
    ASSUME SInv, BInv, NEW p \in Pipes, WriteGetsMemory(p)
    PROVE  BInv'
  <1> DEFINE l == AllSlices(p)
             b == Piece(pools, Head(batch[p]))
  <1>0. /\ BTyped /\ Holds(p) /\ InOrder(p)
        /\ writing \in [Pipes -> {"idle", "malloc", "write", "noFlags", "failed"}]
    BY DEF BInv, SInv, Typed
  <1>1. /\ memory' = [memory EXCEPT ![p] = b]
        /\ writing' = [writing EXCEPT ![p] = IF W(p) \in cOpen THEN "write" ELSE "noFlags"]
        /\ UNCHANGED <<pools, slot, reading, cPos, chunks, waiting, batch, sink>>
    BY DEF WriteGetsMemory, readVars, BytesOf, Piece
  <1>2. writing[p] = "malloc" /\ batch[p] # <<>> /\ memory[p] = <<>>
    <2>1. In(queue, Call("malloc", W(p)))
      BY Answers DEF WriteGetsMemory
    <2> QED
      BY <1>0, <2>1 DEF SInv, Writes, Holds
  <1>3. /\ batch[p] \in Seq(Chunk) /\ waiting[p] \in Seq(Chunk) /\ chunks[p] \in Seq(Chunk)
        /\ l \in Seq(Chunk) /\ Filled(pools, l) /\ pools \in Seq(Pool)
        /\ Slices(pools, l) \in Seq(Seq(ByteSet)) /\ sink[p] \in Seq(ByteSet)
    BY <1>0, AllType DEF BTyped
  <1>4. b \in Seq(ByteSet) /\ b # <<>>
    <2>1. Head(batch[p]) \in Chunk /\ InUse(pools, Head(batch[p]))
      BY <1>0, <1>2, <1>3, TailFilled DEF Holds
    <2> QED
      BY <1>3, <2>1, BytesType
  <1> HIDE DEF b
  <1>5. BTyped'
    BY <1>0, <1>1, <1>4 DEF BTyped
  <1>6. memory'[p] = b /\ writing'[p] \in {"write", "noFlags"}
    BY <1>0, <1>1 DEF BTyped
  <1>7. Holds(p)'
    BY <1>0, <1>1, <1>2, <1>4, <1>6 DEF Holds
  <1>8. l # <<>> /\ Head(l) = Head(batch[p]) /\ AllSlices(p)' = Tail(l)
    <2>1. l = batch[p] \o waiting[p] \o chunks[p]
      BY <1>2 DEF AllSlices, Kept
    <2>2. AllSlices(p)' = Tail(batch[p]) \o waiting[p] \o chunks[p]
      BY <1>1, <1>4, <1>6 DEF AllSlices, Kept
    <2> DEFINE a == batch[p]
               w == waiting[p]
               x == chunks[p]
    <2>3. a \in Seq(Chunk) /\ w \in Seq(Chunk) /\ x \in Seq(Chunk) /\ a # <<>>
      BY <1>2, <1>3
    <2> HIDE DEF a, w, x
    <2>4. /\ a \o w \o x # <<>> /\ Head(a \o w \o x) = Head(a)
          /\ Tail(a \o w \o x) = Tail(a) \o w \o x
      BY <2>3, RowTakes
    <2> HIDE DEF l
    <2> QED
      BY <2>1, <2>2, <2>4 DEF a, w, x
  <1> HIDE DEF l
  <1>9. /\ Slices(pools, l) # <<>> /\ Head(Slices(pools, l)) = b
        /\ Tail(Slices(pools, l)) = Slices(pools, Tail(l))
    <2>1. Len(Slices(pools, l)) = Len(l) /\ \A k \in 1 .. Len(l) : Slices(pools, l)[k] = Piece(pools, l[k])
      BY <1>3, SlicesType DEF Slices
    <2>2. /\ Len(l) \in Nat /\ Len(l) >= 1 /\ Head(l) = l[1] /\ Tail(l) \in Seq(Chunk)
          /\ Len(Tail(l)) = Len(l) - 1 /\ \A k \in 1 .. Len(Tail(l)) : Tail(l)[k] = l[k + 1]
      BY <1>3, <1>8, SMTT(60)
    <2>3. Slices(pools, l) # <<>> /\ Head(Slices(pools, l)) = b
      BY <1>3, <1>8, <2>1, <2>2 DEF b
    <2> DEFINE s == Slices(pools, l)
               t == Slices(pools, Tail(l))
    <2>4. Filled(pools, Tail(l)) /\ t \in Seq(Seq(ByteSet)) /\ Len(t) = Len(l) - 1
      <3>1. Tail(l) \in Seq(Chunk) /\ Filled(pools, Tail(l)) /\ Len(Tail(l)) = Len(l) - 1
        BY <1>3, <1>8, <2>2, TailFilled
      <3> QED
        BY <1>3, <3>1, SlicesType
    <2>5. \A k \in 1 .. Len(l) - 1 : t[k] = s[k + 1]
      BY <2>1, <2>2 DEF Slices
    <2> HIDE DEF s, t
    <2>6. /\ Tail(s) \in Seq(Seq(ByteSet)) /\ Len(Tail(s)) = Len(l) - 1
          /\ \A k \in 1 .. Len(l) - 1 : Tail(s)[k] = s[k + 1]
      BY <1>3, <2>1, <2>3, HeadTailProperties DEF s
    <2>7. Tail(s) = t
      BY <2>4, <2>5, <2>6, SeqEqual
    <2> QED
      BY <2>3, <2>7 DEF s, t
  <1>10. InOrder(p)'
    <2> DEFINE f == FlattenSeq(Slices(pools, Tail(l)))
    <2>1. FlattenSeq(Slices(pools, l)) = b \o f /\ f \in Seq(ByteSet)
      BY <1>3, <1>9, FlattenHead
    <2>2. OnTheirWay(p) = <<>> \o (b \o f) /\ OnTheirWay(p)' = b \o f
      BY <1>1, <1>2, <1>6, <1>8, <2>1, OnTheirWayIs DEF l
    <2> HIDE DEF f
    <2>3. <<>> \o (b \o f) = b \o f
      BY <1>4, <2>1
    <2>4. writing[p] # "failed" /\ writing'[p] # "failed" /\ sink'[p] = sink[p] /\ cPos'[p] = cPos[p]
      BY <1>1, <1>2, <1>6
    <2> QED
      BY <1>0, <2>2, <2>3, <2>4 DEF InOrder, Source
  <1>11. \A q \in Pipes \ {p} : Untouched(q)
    BY <1>0, <1>1 DEF Untouched, BTyped
  <1> QED
    BY <1>1, <1>5, <1>7, <1>10, <1>11, WriteSide

LEMMA WriteReturnsBytes ==
    ASSUME SInv, BInv, NEW p \in Pipes, WriteReturns(p)
    PROVE  BInv'
  <1>0. /\ BTyped /\ Holds(p) /\ InOrder(p)
        /\ writing \in [Pipes -> {"idle", "malloc", "write", "noFlags", "failed"}]
    BY DEF BInv, SInv, Typed
  <1>1. /\ writing[p] = "write" /\ sink' = [sink EXCEPT ![p] = @ \o memory[p]]
        /\ memory' = [memory EXCEPT ![p] = <<>>] /\ batch' = [batch EXCEPT ![p] = Tail(@)]
        /\ writing' = [writing EXCEPT ![p] = IF Len(batch[p]) > 1 THEN "malloc" ELSE "idle"]
        /\ UNCHANGED <<pools, slot, reading, cPos, chunks, waiting>>
    BY DEF WriteReturns, readVars
  <1>2. batch[p] # <<>> /\ memory[p] # <<>>
    BY <1>0, <1>1 DEF Holds
  <1>3. /\ batch[p] \in Seq(Chunk) /\ memory[p] \in Seq(ByteSet) /\ sink[p] \in Seq(ByteSet)
        /\ FlattenSeq(Slices(pools, AllSlices(p))) \in Seq(ByteSet)
    BY <1>0, AllType DEF BTyped
  <1>4. Tail(batch[p]) \in Seq(Chunk) /\ Filled(pools, Tail(batch[p]))
    BY <1>0, <1>2, <1>3, TailFilled DEF Holds
  <1>5. sink[p] \o memory[p] \in Seq(ByteSet) /\ <<>> \in Seq(ByteSet)
    BY <1>3
  <1>6. BTyped'
    BY <1>0, <1>1, <1>4, <1>5 DEF BTyped
  <1>7. /\ batch'[p] = Tail(batch[p]) /\ memory'[p] = <<>> /\ sink'[p] = sink[p] \o memory[p]
        /\ writing'[p] = IF Len(batch[p]) > 1 THEN "malloc" ELSE "idle"
    BY <1>0, <1>1 DEF BTyped
  <1>8. Holds(p)'
    <2>1. Len(batch[p]) > 1 <=> Tail(batch[p]) # <<>>
      BY <1>2, <1>3, OneOrMore
    <2> QED
      BY <1>0, <1>1, <1>4, <1>7, <2>1 DEF Holds
  <1>9. AllSlices(p)' = AllSlices(p)
    BY <1>1, <1>2, <1>7 DEF AllSlices, Kept
  <1>10. InOrder(p)'
    <2> DEFINE f == FlattenSeq(Slices(pools, AllSlices(p)))
    <2>1. OnTheirWay(p) = memory[p] \o f /\ OnTheirWay(p)' = <<>> \o f
      BY <1>1, <1>7, <1>9, OnTheirWayIs
    <2>4. f \in Seq(ByteSet)
      BY <1>3
    <2> HIDE DEF f
    <2>2. (sink[p] \o memory[p]) \o (<<>> \o f) = sink[p] \o (memory[p] \o f)
      <3> DEFINE a == sink[p]
                 b == memory[p]
      <3>1. a \in Seq(ByteSet) /\ b \in Seq(ByteSet)
        BY <1>3
      <3> HIDE DEF a, b
      <3>2. (a \o b) \o (<<>> \o f) = a \o (b \o f)
        BY <2>4, <3>1, RowJoins
      <3> QED
        BY <3>2 DEF a, b
    <2>3. writing[p] # "failed" /\ writing'[p] # "failed" /\ cPos'[p] = cPos[p]
      BY <1>1, <1>7
    <2> QED
      BY <1>0, <1>7, <2>1, <2>2, <2>3 DEF InOrder, Source
  <1>11. \A q \in Pipes \ {p} : Untouched(q)
    BY <1>0, <1>1 DEF Untouched, BTyped
  <1> QED
    BY <1>1, <1>6, <1>8, <1>10, <1>11, WriteSide

LEMMA PrefixOf ==
    ASSUME NEW S, NEW a \in Seq(S), NEW x \in Seq(S), NEW s \in Seq(S), NEW n \in Nat,
           n <= Len(s), a \o x = SubSeq(s, 1, n)
    PROVE  IsPrefix(a, s)
  <1> DEFINE u == SubSeq(s, 1, n)
             v == SubSeq(s, 1, Len(a))
  <1>1. u \in Seq(S) /\ Len(u) = n /\ \A k \in 1 .. n : u[k] = s[k]
    OBVIOUS
  <1>2. Len(a \o x) = Len(a) + Len(x) /\ Len(a) \in Nat /\ Len(x) \in Nat /\ \A k \in 1 .. Len(a) : (a \o x)[k] = a[k]
    OBVIOUS
  <1> HIDE DEF u
  <1>3. u = a \o x
    BY DEF u
  <1>4. Len(a) <= n /\ Len(a) <= Len(s) /\ \A k \in 1 .. Len(a) : a[k] = s[k]
    BY <1>1, <1>2, <1>3
  <1>5. v \in Seq(S) /\ Len(v) = Len(a) /\ \A k \in 1 .. Len(a) : v[k] = s[k]
    BY <1>2, <1>4
  <1> HIDE DEF v
  <1>6. a = v
    BY <1>2, <1>4, <1>5, SeqEqual
  <1> QED
    BY <1>2, <1>4, <1>6 DEF IsPrefix, v

LEMMA SourceIs ==
    ASSUME NEW p \in Pipes
    PROVE  /\ Source(p) \in Seq(ByteSet) /\ Len(Source(p)) = Length[p] /\ Length[p] \in Nat
           /\ \A k \in 1 .. Length[p] : Source(p)[k] = <<p, k>>
  <1> DEFINE n == Length[p]
             s == [k \in 1 .. n |-> <<p, k>>]
  <1>1. n \in Nat
    BY StreamsAssumption
  <1> HIDE DEF n
  <1>2. s \in [1 .. n -> ByteSet]
    BY <1>1 DEF ByteSet
  <1>3. s \in Seq(ByteSet) /\ Len(s) = n /\ \A k \in 1 .. n : s[k] = <<p, k>>
    <2>1. \A k \in 1 .. n : s[k] = <<p, k>>
      OBVIOUS
    <2> HIDE DEF s
    <2> QED
      BY <1>1, <1>2, <2>1
  <1> QED
    BY <1>1, <1>3 DEF Source, n

LEMMA WriteFailsBytes ==
    ASSUME SInv, BInv, NEW p \in Pipes, WriteFails(p)
    PROVE  BInv'
  <1>0. /\ BTyped /\ Holds(p) /\ InOrder(p)
        /\ writing \in [Pipes -> {"idle", "malloc", "write", "noFlags", "failed"}]
    BY DEF BInv, SInv, Typed
  <1>1. /\ writing' = [writing EXCEPT ![p] = "failed"] /\ memory' = [memory EXCEPT ![p] = <<>>]
        /\ batch' = [batch EXCEPT ![p] = <<>>] /\ waiting' = [waiting EXCEPT ![p] = <<>>]
        /\ UNCHANGED <<pools, slot, reading, cPos, chunks, sink>>
    BY DEF WriteFails, readVars
  <1>2. writing[p] # "failed"
    <2>1. In(queue, Call("write", W(p)))
      BY Answers DEF WriteFails
    <2> QED
      BY <2>1 DEF SInv, Writes
  <1>3. <<>> \in Seq(Chunk) /\ <<>> \in Seq(ByteSet) /\ Filled(pools, <<>>)
    BY DEF Filled
  <1>4. BTyped'
    BY <1>0, <1>1, <1>3 DEF BTyped
  <1>5. writing'[p] = "failed" /\ memory'[p] = <<>> /\ batch'[p] = <<>> /\ waiting'[p] = <<>>
    BY <1>0, <1>1 DEF BTyped
  <1>6. Holds(p)'
    BY <1>0, <1>1, <1>3, <1>5 DEF Holds
  <1>7. InOrder(p)'
    <2> DEFINE f == FlattenSeq(Slices(pools, AllSlices(p)))
    <2>1. OnTheirWay(p) = memory[p] \o f /\ f \in Seq(ByteSet) /\ memory[p] \in Seq(ByteSet) /\ sink[p] \in Seq(ByteSet)
      BY <1>0, AllType, OnTheirWayIs DEF BTyped
    <2> HIDE DEF f
    <2>2. OnTheirWay(p) \in Seq(ByteSet)
      BY <2>1
    <2>3. sink[p] \o OnTheirWay(p) = SubSeq(Source(p), 1, cPos[p]) /\ cPos[p] \in Nat /\ cPos[p] <= Length[p]
      BY <1>0, <1>2 DEF InOrder, BTyped
    <2>4. IsPrefix(sink[p], Source(p))
      BY <2>1, <2>2, <2>3, SourceIs, PrefixOf
    <2> QED
      BY <1>1, <1>5, <2>4 DEF InOrder, Source
  <1>8. \A q \in Pipes \ {p} : Untouched(q)
    BY <1>0, <1>1 DEF Untouched, BTyped
  <1> QED
    BY <1>1, <1>4, <1>6, <1>7, <1>8, WriteSide

LEMMA AdvancedIs ==
    ASSUME NEW q \in Pool, NEW b, NEW n
    PROVE  Advanced([q EXCEPT !.bytes = b], n) = [size |-> q.size, used |-> q.used + n, bytes |-> b]
  <1> DEFINE U == UNION {[0 .. m - 1 -> ByteSet] : m \in Nat}
  <1>1. q \in [size : Nat, used : Nat, bytes : U]
    BY DEF Pool
  <1> HIDE DEF U
  <1>2. [q EXCEPT !.bytes = b] = [size |-> q.size, used |-> q.used, bytes |-> b]
    BY <1>1
  <1> DEFINE x == [size |-> q.size, used |-> q.used, bytes |-> b]
  <1>3. [x EXCEPT !.used = @ + n] = [size |-> q.size, used |-> q.used + n, bytes |-> b]
    OBVIOUS
  <1> QED
    BY <1>2, <1>3 DEF Advanced

\* What C answers to a read.
Got(p) == Min({Length[p] - cPos[p], slot[p].len})

\* A read fills the free end of the current pool with the next bytes of its source.
LEMMA ReadFills ==
    ASSUME BTyped, NEW p \in Pipes, MidRead(p), ReadsToEnd(p), ReadReturns(p)
    PROVE  /\ Got(p) \in Nat /\ Got(p) <= slot[p].len /\ cPos[p] + Got(p) <= Length[p]
           /\ Grow(pools, pools') /\ Len(pools') = Len(pools) /\ slot[p].pool \in 1 .. Len(pools)
           /\ pools'[slot[p].pool].used = slot[p].start + slot[p].len
           /\ \A k \in 1 .. Got(p) : pools'[slot[p].pool].bytes[slot[p].start + k - 1] = <<p, cPos[p] + k>>
  <1> DEFINE s == slot[p]
             c == cPos[p]
             g == Got(p)
             n == Len(pools)
             q == pools[n]
             at(k) == c + k - s.start + 1
             new == [k \in DOMAIN q.bytes |->
                        IF k \notin s.start .. s.start + s.len - 1 THEN q.bytes[k]
                        ELSE IF k < s.start + g THEN Source(p)[at(k)] ELSE Garbage]
             r == [size |-> q.size, used |-> q.used + s.len, bytes |-> new]
  <1>1. /\ pools \in Seq(Pool) /\ n \in Nat \ {0} /\ n \in 1 .. n /\ q \in Pool /\ s \in Chunk /\ c \in Nat
        /\ c <= Length[p]
    <2>1. pools \in Seq(Pool) /\ pools # <<>> /\ s \in Chunk /\ c \in Nat /\ c <= Length[p]
      BY DEF BTyped, ReadsToEnd
    <2> QED
      BY <2>1
  <1>2. s.pool = n /\ s.start = q.used /\ s.start + s.len <= q.size
    BY DEF ReadsToEnd
  <1>3. /\ q.size \in Nat /\ q.used \in Nat /\ q.bytes \in [0 .. q.size - 1 -> ByteSet]
        /\ DOMAIN q = {"size", "used", "bytes"}
    BY <1>1 DEF Pool
  <1>4. s.start \in Nat /\ s.len \in Nat
    BY <1>1 DEF Chunk
  <1>5. g \in Nat /\ g <= s.len /\ c + g <= Length[p]
    <2>1. Length[p] \in Nat
      BY StreamsAssumption
    <2> DEFINE m == Length[p] - c
    <2>2. m \in Nat
      BY <1>1, <2>1
    <2>3. g = Min({m, s.len})
      BY DEF Got
    <2> HIDE DEF m, g
    <2>4. g \in Nat /\ g <= m /\ g <= s.len
      BY <1>4, <2>2, <2>3, MinOfTwo
    <2> QED
      BY <1>1, <2>1, <2>4 DEF m
  <1>6. pools' = [pools EXCEPT ![n] = r]
    <2> DEFINE filled == [pools EXCEPT ![s.pool].bytes =
                            [k \in DOMAIN @ |-> IF k \notin s.start .. s.start + s.len - 1 THEN @[k]
                                                ELSE IF k < s.start + g THEN Source(p)[at(k)]
                                                ELSE Garbage]]
    <2>1. pools' = [filled EXCEPT ![n] = Advanced(@, s.len)]
      BY DEF ReadReturns, Got
    <2>2. filled = [pools EXCEPT ![n] = [q EXCEPT !.bytes = new]]
      BY <1>2
    <2> HIDE DEF filled
    <2>3. Advanced([q EXCEPT !.bytes = new], s.len) = r
      <3> HIDE DEF new, s, q
      <3> QED
        BY <1>1, AdvancedIs
    <2>4. filled[n] = [q EXCEPT !.bytes = new]
      BY <1>1, <2>2
    <2>5. Advanced(filled[n], s.len) = r
      BY <2>3, <2>4
    <2> HIDE DEF r, new, q
    <2> QED
      BY <1>1, <2>1, <2>2, <2>5
  <1>7. \A k \in s.start .. s.start + g - 1 : at(k) \in 1 .. Length[p] /\ Source(p)[at(k)] = <<p, at(k)>>
    <2>1. Length[p] \in Nat
      BY StreamsAssumption
    <2> HIDE DEF s, c, g
    <2>2. \A k \in s.start .. s.start + g - 1 : at(k) \in 1 .. Length[p]
      BY <1>1, <1>4, <1>5, <2>1, SMTT(60)
    <2> QED
      BY <2>2, SourceIs
  <1>8. new \in [0 .. q.size - 1 -> ByteSet]
    <2> HIDE DEF s, c, g, at, q
    <2>1. \A k \in 0 .. q.size - 1 : q.bytes[k] \in ByteSet
      BY <1>3
    <2>2. \A k \in s.start .. s.start + g - 1 : Source(p)[at(k)] \in ByteSet
      <3>1. \A j \in 1 .. Length[p] : <<p, j>> \in ByteSet
        BY DEF ByteSet
      <3> QED
        BY <1>7, <3>1
    <2>3. Garbage \in ByteSet
      BY DEF ByteSet
    <2>4. \A k \in 0 .. q.size - 1 : k \in s.start .. s.start + s.len - 1 /\ k < s.start + g => k \in s.start .. s.start + g - 1
      BY <1>3, <1>4, <1>5
    <2> QED
      BY <1>3, <2>1, <2>2, <2>3, <2>4
  <1>9. \A k \in 0 .. q.used - 1 : new[k] = q.bytes[k]
    <2>1. \A k \in 0 .. q.used - 1 : k \in DOMAIN q.bytes /\ k \notin s.start .. s.start + s.len - 1
      <3> HIDE DEF s, q
      <3> QED
        BY <1>2, <1>3, <1>4
    <2> HIDE DEF s, q, at, g
    <2> QED
      BY <2>1
  <1>10. \A k \in 1 .. g : new[s.start + k - 1] = <<p, c + k>>
    <2> HIDE DEF s, c, g, q
    <2>1. ASSUME NEW k \in 1 .. g
          PROVE             /\ s.start + k - 1 \in 0 .. q.size - 1 /\ s.start + k - 1 \in s.start .. s.start + g - 1
                            /\ s.start + k - 1 \in s.start .. s.start + s.len - 1
                            /\ s.start + k - 1 < s.start + g /\ at(s.start + k - 1) = c + k
      <3> DEFINE x == s.start
                 l == s.len
                 z == q.size
      <3>1. x \in Nat /\ l \in Nat /\ z \in Nat /\ g \in Nat /\ c \in Nat /\ g <= l /\ x + l <= z
        BY <1>1, <1>2, <1>3, <1>4, <1>5
      <3> HIDE DEF x, l, z
      <3>2. /\ x + k - 1 \in 0 .. z - 1 /\ x + k - 1 \in x .. x + g - 1 /\ x + k - 1 \in x .. x + l - 1
            /\ x + k - 1 < x + g /\ c + (x + k - 1) - x + 1 = c + k
        BY <3>1
      <3> QED
        BY <3>2 DEF x, l, z
    <2> HIDE DEF at
    <2>2. ASSUME NEW k \in 1 .. g PROVE new[s.start + k - 1] = Source(p)[at(s.start + k - 1)]
      BY <1>3, <2>1
    <2> HIDE DEF new
    <2> QED
      BY <1>7, <2>1, <2>2
  <1> HIDE DEF new
  <1>11. r \in Pool
    <2> HIDE DEF s, q
    <2>1. q.used + s.len \in Nat /\ q.used + s.len <= q.size
      BY <1>2, <1>3, <1>4
    <2> QED
      BY <1>3, <1>8, <2>1, PoolIs
  <1>12. r.used = q.used + s.len /\ r.bytes = new
    OBVIOUS
  <1> HIDE DEF r
  <1>13. pools' \in Seq(Pool) /\ Len(pools') = n /\ pools'[n] = r /\ \A k \in 1 .. n : k # n => pools'[k] = pools[k]
    <2> HIDE DEF q
    <2>1. pools' \in Seq(Pool) /\ Len(pools') = Len(pools)
      BY <1>1, <1>6, <1>11
    <2>2. pools'[n] = r
      BY <1>1, <1>6
    <2>3. \A k \in 1 .. n : k # n => pools'[k] = pools[k]
      BY <1>1, <1>6
    <2> QED
      BY <2>1, <2>2, <2>3
  <1>14. Grow(pools, pools')
    <2>1. \A k \in 1 .. n : pools[k] \in Pool
      BY <1>1
    <2>2. \A k \in 1 .. n : pools[k].used \in Nat
      BY <2>1 DEF Pool
    <2>3. ASSUME NEW k \in 1 .. n
          PROVE  /\ pools[k].used <= pools'[k].used
                 /\ \A j \in 0 .. pools[k].used - 1 : pools'[k].bytes[j] = pools[k].bytes[j]
      <3>1. CASE k = n
        <4>1. pools'[k] = r /\ pools[k] = q
          BY <1>13, <3>1
        <4> HIDE DEF q
        <4>2. q.used <= r.used
          <5> HIDE DEF s
          <5> QED
            BY <1>3, <1>4, <1>12
        <4> QED
          BY <1>9, <1>12, <4>1, <4>2
      <3>2. CASE k # n
        <4>1. pools'[k] = pools[k]
          BY <1>13, <3>2
        <4> QED
          BY <2>2, <4>1
      <3> QED
        BY <3>1, <3>2
    <2> QED
      BY <1>1, <1>13, <2>3 DEF Grow
  <1> QED
    <2>1. pools'[s.pool].used = s.start + s.len /\ pools'[s.pool].bytes = new
      BY <1>2, <1>12, <1>13
    <2>2. s.pool \in 1 .. n
      BY <1>1, <1>2
    <2> QED
      BY <1>5, <1>10, <1>13, <1>14, <2>1, <2>2

\* A list with one more slice, of pools that have grown.
LEMMA OneMoreSlice ==
    ASSUME NEW ps \in Seq(Pool), NEW qs, Grow(ps, qs), NEW l \in Seq(Chunk), Filled(ps, l),
           NEW c \in Chunk, InUse(qs, c)
    PROVE  /\ Append(l, c) \in Seq(Chunk) /\ Filled(qs, Append(l, c))
           /\ FlattenSeq(Slices(ps, l)) \in Seq(ByteSet) /\ Piece(qs, c) \in Seq(ByteSet)
           /\ FlattenSeq(Slices(qs, Append(l, c))) = FlattenSeq(Slices(ps, l)) \o Piece(qs, c)
  <1>1. qs \in Seq(Pool)
    BY DEF Grow
  <1>2. Filled(qs, l) /\ Slices(qs, l) = Slices(ps, l)
    BY SlicesKept
  <1> DEFINE m == Append(l, c)
  <1>3. /\ m \in Seq(Chunk) /\ Len(m) = Len(l) + 1 /\ Len(l) \in Nat /\ m[Len(l) + 1] = c
        /\ \A k \in 1 .. Len(l) : m[k] = l[k]
    OBVIOUS
  <1> HIDE DEF m
  <1>4. \A k \in 1 .. Len(m) : k = Len(l) + 1 \/ k \in 1 .. Len(l)
    BY <1>3
  <1>5. Filled(qs, m)
    BY <1>2, <1>3, <1>4 DEF Filled
  <1> DEFINE s == Slices(qs, l)
             t == Slices(qs, m)
             x == Piece(qs, c)
  <1>6. s \in Seq(Seq(ByteSet)) /\ Len(s) = Len(l) /\ t \in Seq(Seq(ByteSet)) /\ Len(t) = Len(l) + 1
    BY <1>1, <1>2, <1>3, <1>5, SlicesType
  <1>7. x \in Seq(ByteSet)
    BY <1>1, BytesType
  <1>8. t[Len(l) + 1] = x /\ \A k \in 1 .. Len(l) : t[k] = s[k]
    <2>1. Len(l) + 1 \in 1 .. Len(m) /\ \A k \in 1 .. Len(l) : k \in 1 .. Len(m)
      BY <1>3
    <2> QED
      BY <1>3, <2>1 DEF Slices
  <1> HIDE DEF s, t, x
  <1>9. t = Append(s, x)
    <2> DEFINE a == Append(s, x)
    <2>1. /\ a \in Seq(Seq(ByteSet)) /\ Len(a) = Len(l) + 1 /\ a[Len(l) + 1] = x
          /\ \A k \in 1 .. Len(l) : a[k] = s[k]
      BY <1>6, <1>7
    <2> HIDE DEF a
    <2>2. ASSUME NEW k \in 1 .. Len(t) PROVE t[k] = a[k]
      <3>1. k = Len(l) + 1 \/ k \in 1 .. Len(l)
        BY <1>3, <1>6
      <3> QED
        BY <1>8, <2>1, <3>1
    <2>3. t = a
      BY <1>6, <2>1, <2>2, SeqEqual
    <2> QED
      BY <2>3 DEF a
  <1>10. FlattenSeq(t) = FlattenSeq(s) \o x
    BY <1>6, <1>7, <1>9, FlattenAppend
  <1>11. FlattenSeq(s) \in Seq(ByteSet)
    BY <1>6, FlattenType
  <1> QED
    BY <1>2, <1>3, <1>5, <1>7, <1>10, <1>11 DEF s, t, x, m

\* A source, a read further.
LEMMA SourceGrows ==
    ASSUME NEW p \in Pipes, NEW i \in Nat, NEW g \in Nat, i + g <= Length[p]
    PROVE  SubSeq(Source(p), 1, i + g) = SubSeq(Source(p), 1, i) \o [k \in 1 .. g |-> <<p, i + k>>]
  <1> DEFINE s == Source(p)
             b == [k \in 1 .. g |-> <<p, i + k>>]
             u == SubSeq(s, 1, i)
             v == SubSeq(s, 1, i + g)
             w == u \o b
  <1>1. /\ s \in Seq(ByteSet) /\ Len(s) = Length[p] /\ Length[p] \in Nat
        /\ \A k \in 1 .. Length[p] : s[k] = <<p, k>>
    BY SourceIs
  <1>2. \A k \in 1 .. g : <<p, i + k>> \in ByteSet
    BY DEF ByteSet
  <1> HIDE DEF s
  <1>3. b \in Seq(ByteSet) /\ Len(b) = g /\ \A k \in 1 .. g : b[k] = <<p, i + k>>
    <2>1. b \in [1 .. g -> ByteSet] /\ \A k \in 1 .. g : b[k] = <<p, i + k>>
      BY <1>2
    <2> HIDE DEF b
    <2> QED
      BY <2>1
  <1> HIDE DEF b
  <1>4. /\ u \in Seq(ByteSet) /\ Len(u) = i /\ v \in Seq(ByteSet) /\ Len(v) = i + g
        /\ \A k \in 1 .. i : u[k] = s[k]
        /\ \A k \in 1 .. i + g : v[k] = s[k]
    BY <1>1
  <1> HIDE DEF u, v
  <1>5. w \in Seq(ByteSet) /\ Len(w) = i + g /\ \A k \in 1 .. i + g : w[k] = IF k <= i THEN u[k] ELSE b[k - i]
    <2>1. /\ w \in Seq(ByteSet) /\ Len(w) = Len(u) + Len(b)
          /\ \A k \in 1 .. Len(u) + Len(b) : w[k] = IF k <= Len(u) THEN u[k] ELSE b[k - Len(u)]
      BY <1>3, <1>4, ConcatProperties
    <2> HIDE DEF w
    <2> QED
      BY <1>3, <1>4, <2>1
  <1> HIDE DEF w
  <1>6. ASSUME NEW k \in 1 .. i + g PROVE v[k] = w[k]
    <2>1. k \in 1 .. Length[p] /\ v[k] = <<p, k>>
      BY <1>1, <1>4
    <2>2. CASE k <= i
      <3>1. k \in 1 .. i
        BY <2>2
      <3> QED
        BY <1>4, <1>5, <2>2, <3>1
    <2>3. CASE ~(k <= i)
      <3>1. k - i \in 1 .. g /\ i + (k - i) = k
        BY <2>3
      <3>2. b[k - i] = <<p, i + (k - i)>>
        BY <1>3, <3>1
      <3>3. w[k] = b[k - i]
        BY <1>5, <2>3
      <3> QED
        BY <2>1, <3>1, <3>2, <3>3
    <2> QED
      BY <2>2, <2>3
  <1>7. v = w
    BY <1>4, <1>5, <1>6, SeqEqual
  <1> QED
    BY <1>7 DEF v, w, u, b, s

\* What the stream gets of it.
Pushed(p) == IF stream[R(p)].destroyed THEN 0 ELSE Got(p)

LEMMA ReadReturnsBytes ==
    ASSUME SInv, BInv, NEW p \in Pipes, ReadReturns(p)
    PROVE  BInv'
  <1> DEFINE s == slot[p]
             g == Pushed(p)
             c == [s EXCEPT !.len = g]
  <1>0. /\ BTyped /\ Holds(p) /\ InOrder(p) /\ OneReader /\ ReadsToEnd(p)
        /\ reading \in [Pipes -> {"idle", "malloc", "read", "failed"}]
    BY DEF BInv, SInv, Typed
  <1>1. /\ cPos' = [cPos EXCEPT ![p] = @ + g]
        /\ chunks' = IF g = 0 THEN chunks ELSE [chunks EXCEPT ![p] = Append(@, c)]
        /\ reading' = [reading EXCEPT ![p] = "idle"] /\ slot' = [slot EXCEPT ![p] = NoSlot]
        /\ UNCHANGED <<waiting, writing, batch, memory, sink>>
    BY DEF ReadReturns, writeVars, Got, Pushed
  <1>2. MidRead(p)
    <2>1. In(queue, Call("read", R(p)))
      BY Answers DEF ReadReturns
    <2> QED
      BY <2>1 DEF SInv, Reads, MidRead
  <1>3. /\ g \in Nat /\ g <= s.len /\ cPos[p] + g <= Length[p]
        /\ Grow(pools, pools') /\ Len(pools') = Len(pools) /\ s.pool \in 1 .. Len(pools)
        /\ pools'[s.pool].used = s.start + s.len
        /\ \A k \in 1 .. g : pools'[s.pool].bytes[s.start + k - 1] = <<p, cPos[p] + k>>
    <2>1. /\ Got(p) \in Nat /\ Got(p) <= s.len /\ cPos[p] + Got(p) <= Length[p]
          /\ Grow(pools, pools') /\ Len(pools') = Len(pools) /\ s.pool \in 1 .. Len(pools)
          /\ pools'[s.pool].used = s.start + s.len
          /\ \A k \in 1 .. Got(p) : pools'[s.pool].bytes[s.start + k - 1] = <<p, cPos[p] + k>>
      BY <1>0, <1>2, ReadFills
    <2>2. CASE stream[R(p)].destroyed
      <3>1. g = 0
        BY <2>2 DEF Pushed
      <3>2. s.len \in Nat /\ cPos[p] \in Nat /\ cPos[p] <= Length[p]
        BY <1>0 DEF BTyped, Chunk
      <3> QED
        BY <2>1, <3>1, <3>2
    <2>3. CASE ~stream[R(p)].destroyed
      <3>1. g = Got(p)
        BY <2>3 DEF Pushed
      <3> QED
        BY <2>1, <3>1
    <2> QED
      BY <2>2, <2>3
  <1>4. /\ s \in Chunk /\ s.start \in Nat /\ s.len \in Nat /\ cPos[p] \in Nat
        /\ pools \in Seq(Pool) /\ pools' \in Seq(Pool)
        /\ chunks[p] \in Seq(Chunk) /\ Filled(pools, chunks[p])
    BY <1>0, <1>3 DEF BTyped, Chunk, Grow, Holds
  <1>5. c \in Chunk /\ c.pool = s.pool /\ c.start = s.start /\ c.len = g
    BY <1>3, <1>4 DEF Chunk
  <1>6. g # 0 => InUse(pools', c)
    <2> HIDE DEF s, g, c
    <2>1. s.start + g <= s.start + s.len
      BY <1>3, <1>4
    <2> QED
      BY <1>3, <1>5, <2>1 DEF InUse
  <1>7. Piece(pools', c) = [k \in 1 .. g |-> <<p, cPos[p] + k>>]
    BY <1>3, <1>5 DEF Piece
  <1> HIDE DEF s, g, c
  <1>8. g # 0 => Append(chunks[p], c) \in Seq(Chunk) /\ Filled(pools', Append(chunks[p], c))
    BY <1>3, <1>4, <1>5, <1>6, OneMoreSlice
  <1>9. /\ chunks'[p] = IF g = 0 THEN chunks[p] ELSE Append(chunks[p], c)
        /\ cPos'[p] = cPos[p] + g /\ slot'[p] = NoSlot
        /\ \A q \in Pipes \ {p} : chunks'[q] = chunks[q] /\ cPos'[q] = cPos[q]
    BY <1>0, <1>1 DEF BTyped
  <1>10. BTyped'
    <2>1. chunks' \in [Pipes -> Seq(Chunk)]
      BY <1>0, <1>1, <1>8 DEF BTyped
    <2>2. cPos[p] + g \in Nat
      BY <1>3, <1>4
    <2>3. cPos' \in [Pipes -> Nat] /\ \A q \in Pipes : cPos'[q] <= Length[q]
      BY <1>0, <1>1, <1>3, <2>2 DEF BTyped
    <2>4. NoSlot \in Chunk
      BY DEF NoSlot, Chunk
    <2>5. slot' \in [Pipes -> Chunk]
      BY <1>0, <1>1, <2>4 DEF BTyped
    <2> QED
      BY <1>0, <1>1, <1>4, <2>1, <2>3, <2>5 DEF BTyped
  <1>11. \A q \in Pipes : ~MidRead(q)'
    BY <1>0, <1>1, <1>2 DEF OneReader, MidRead
  <1>12. OneReader' /\ \A q \in Pipes : ReadsToEnd(q)'
    BY <1>11 DEF OneReader, ReadsToEnd
  <1>13. \A q \in Pipes \ {p} : Holds(q)' /\ InOrder(q)'
    <2>1. \A q \in Pipes \ {p} : Untouched(q)
      BY <1>1, <1>9 DEF Untouched
    <2> QED
      BY <1>3, <2>1, PipeKept
  <1>14. CASE g = 0
    <2>1. Untouched(p)
      BY <1>1, <1>4, <1>9, <1>14 DEF Untouched
    <2> QED
      BY <1>3, <1>10, <1>12, <1>13, <2>1, PipeKept DEF BInv
  <1>15. CASE g # 0
    <2> DEFINE l == AllSlices(p)
               f == FlattenSeq(Slices(pools, l))
               b == Piece(pools', c)
    <2>1. chunks'[p] = Append(chunks[p], c)
      BY <1>9, <1>15
    <2>2. Holds(p)'
      <3>1. batch[p] \in Seq(Chunk) /\ waiting[p] \in Seq(Chunk)
        BY <1>0 DEF BTyped
      <3>2. Filled(pools', batch[p]) /\ Filled(pools', waiting[p])
        BY <1>0, <1>3, <1>4, <3>1, SlicesKept DEF Holds
      <3> QED
        BY <1>0, <1>1, <1>8, <1>15, <2>1, <3>2 DEF Holds
    <2>3. l \in Seq(Chunk) /\ Filled(pools, l)
      BY <1>0, AllType
    <2>4. AllSlices(p)' = Append(l, c)
      <3> DEFINE x == Kept(p) \o waiting[p]
                 y == chunks[p]
      <3>1. x \in Seq(Chunk) /\ y \in Seq(Chunk)
        <4>1. Kept(p) \in Seq(Chunk) /\ waiting[p] \in Seq(Chunk)
          BY <1>0, AllType
        <4> QED
          BY <1>4, <4>1
      <3>2. l = x \o y /\ AllSlices(p)' = x \o Append(y, c)
        BY <1>1, <2>1 DEF AllSlices, Kept
      <3> HIDE DEF x, y, l
      <3>3. x \o Append(y, c) = Append(x \o y, c)
        BY <1>5, <3>1
      <3> QED
        BY <3>2, <3>3
    <2> HIDE DEF l
    <2>5. /\ f \in Seq(ByteSet) /\ b \in Seq(ByteSet)
          /\ FlattenSeq(Slices(pools', Append(l, c))) = f \o b
      BY <1>3, <1>4, <1>5, <1>6, <1>15, <2>3, OneMoreSlice
    <2>6. OnTheirWay(p) = memory[p] \o f /\ OnTheirWay(p)' = memory[p] \o (f \o b)
      BY <1>1, <2>4, <2>5, OnTheirWayIs DEF l
    <2>7. SubSeq(Source(p), 1, cPos'[p]) = SubSeq(Source(p), 1, cPos[p]) \o b
      <3> DEFINE i == cPos[p]
      <3>1. i \in Nat /\ g \in Nat /\ i + g <= Length[p]
        BY <1>3, <1>4
      <3> HIDE DEF i, b
      <3>2. SubSeq(Source(p), 1, i + g) = SubSeq(Source(p), 1, i) \o [k \in 1 .. g |-> <<p, i + k>>]
        BY <3>1, SourceGrows
      <3>3. b = [k \in 1 .. g |-> <<p, i + k>>] /\ cPos'[p] = i + g
        BY <1>7, <1>9 DEF i, b
      <3> QED
        BY <3>2, <3>3 DEF i
    <2> HIDE DEF f, b
    <2>8. sink[p] \o (memory[p] \o (f \o b)) = (sink[p] \o (memory[p] \o f)) \o b
      <3> DEFINE x == sink[p]
                 y == memory[p]
      <3>1. x \in Seq(ByteSet) /\ y \in Seq(ByteSet)
        BY <1>0 DEF BTyped
      <3> HIDE DEF x, y
      <3>2. f \in Seq(ByteSet) /\ b \in Seq(ByteSet)
        BY <2>5
      <3> DEFINE z == y \o f
      <3>3. y \o (f \o b) = z \o b /\ z \in Seq(ByteSet)
        BY <3>1, <3>2, SMTT(60)
      <3> HIDE DEF z
      <3>4. x \o (z \o b) = (x \o z) \o b
        BY <3>1, <3>2, <3>3, SMTT(60)
      <3> QED
        BY <3>3, <3>4 DEF x, y, z
    <2>9. InOrder(p)'
      BY <1>0, <1>1, <2>6, <2>7, <2>8 DEF InOrder, Source
    <2> QED
      BY <1>10, <1>12, <1>13, <2>2, <2>9 DEF BInv
  <1> QED
    BY <1>14, <1>15

LEMMA BytesInit == Init => BInv
  <1> SUFFICES ASSUME Init PROVE BInv
    OBVIOUS
  <1>1. /\ pools = <<>> /\ reading = [p \in Pipes |-> "idle"] /\ slot = [p \in Pipes |-> NoSlot]
        /\ chunks = [p \in Pipes |-> <<>>] /\ waiting = [p \in Pipes |-> <<>>]
        /\ writing = [p \in Pipes |-> "idle"] /\ batch = [p \in Pipes |-> <<>>]
        /\ memory = [p \in Pipes |-> <<>>] /\ cPos = [p \in Pipes |-> 0] /\ sink = [p \in Pipes |-> <<>>]
    BY DEF Init
  <1>2. /\ NoSlot \in Chunk /\ <<>> \in Seq(Chunk) /\ <<>> \in Seq(ByteSet) /\ <<>> \in Seq(Pool)
        /\ \A p \in Pipes : 0 <= Length[p]
    BY StreamsAssumption DEF NoSlot, Chunk
  <1>3. BTyped
    BY <1>1, <1>2 DEF BTyped
  <1>4. \A p \in Pipes : ~MidRead(p)
    BY <1>1 DEF MidRead
  <1>5. \A p \in Pipes : Holds(p)
    BY <1>1 DEF Holds, Filled
  <1>6. ASSUME NEW p \in Pipes PROVE InOrder(p)
    <2>1. AllSlices(p) = <<>>
      BY <1>1 DEF AllSlices, Kept
    <2>2. Slices(pools, AllSlices(p)) = <<>>
      BY <2>1 DEF Slices
    <2>3. FlattenSeq(<<>>) = <<>>
      BY DEF FlattenSeq
    <2>4. OnTheirWay(p) = <<>> /\ sink[p] = <<>>
      BY <1>1, <2>2, <2>3, OnTheirWayIs
    <2>5. SubSeq(Source(p), 1, 0) = <<>>
      BY SubSeqEmpty
    <2> QED
      BY <1>1, <2>4, <2>5 DEF InOrder
  <1> QED
    BY <1>3, <1>4, <1>5, <1>6 DEF BInv, OneReader, ReadsToEnd

LEMMA BytesNext ==
    ASSUME "overlap" \notin Habits
    PROVE  SInv /\ BInv /\ [Next]_vars => BInv'
  <1> SUFFICES ASSUME SInv, BInv, [Next]_vars PROVE BInv'
    OBVIOUS
  <1>1. ASSUME NEW x \in Streams, Answer(x) \/ ProgramDestroys(x) PROVE BInv'
    BY <1>1, QuietBytes
  <1>2. ASSUME NEW p \in Pipes, AnswerRead(p) PROVE BInv'
    BY <1>2, QuietBytes, ReadReturnsBytes DEF AnswerRead
  <1>3. ASSUME NEW p \in Pipes, AnswerWrite(p) PROVE BInv'
    BY <1>3, WriteGetsMemoryBytes, WriteReturnsBytes, WriteFailsBytes DEF AnswerWrite
  <1>4. ASSUME NEW p \in Pipes, Read(p) \/ End(p) \/ Pass(p) \/ Write(p) \/ Finish(p) PROVE BInv'
    BY <1>4, QuietBytes, ReadBytes, PassBytes, WriteBytes
  <1>5. CASE UNCHANGED vars
    BY <1>5, QuietBytes
  <1> QED
    BY <1>1, <1>2, <1>3, <1>4, <1>5 DEF Next

-----------------------------------------------------------------------------
\* Of any number of pipes on one pool, each writes what it has read, in order: a slice
\* of a pool that waits for its write keeps its bytes while the same stream and others
\* read into that pool and into new ones, whatever fails, if no two streams read at
\* once and none is destroyed while it waits for memory.
THEOREM BytesArriveInOrder ==
    ASSUME "destroyEarly" \notin Habits, "overlap" \notin Habits
    PROVE  Spec => []BytesInOrder
  <1>1. BInv => BytesInOrder
    BY DEF BInv, InOrder, BytesInOrder
  <1> QED
    BY <1>1, StreamsInit, StreamsNext, BytesInit, BytesNext, PTL DEF Spec
=============================================================================
