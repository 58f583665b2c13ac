------------------------------ MODULE Streams ------------------------------
(***************************************************************************)
(* ReadStream and WriteStream of lib/fs.js, joined in pipes: open, _read   *)
(* with the pool that all read streams share, _write and _writev, destroy  *)
(* and close.  Readable and Writable of node are modelled from how the two *)
(* classes use them, with autoDestroy, which is on by default.             *)
(*                                                                         *)
(* What awaits C waits in the queue of lib/queue.js.  A read and a write   *)
(* are two calls: useBuffer's malloc, and then the call itself.            *)
(*                                                                         *)
(* The program destroys a stream, and leaves close() to it.                *)
(* The streams have no start option: with it a ReadStream throws (a const  *)
(* is assigned), and a WriteStream calls back before it advances pos.      *)
(***************************************************************************)
EXTENDS Integers, Sequences, FiniteSets, SequencesExt

CONSTANTS Pipes,
          Length,         \* [Pipes -> Nat]: bytes of each source
          HighWaterMark,  \* [Pipes -> Nat]: of each read stream, and of a pool it allocates
          MinPoolSpace,   \* kMinPoolSpace
          MaxBuffered,    \* bound: chunks that wait for their write
          MaxTroubled,    \* bound: streams that fail or are destroyed early
          Habits

AllHabits == {"overlap",       \* two read streams read at once
              "destroyEarly"}  \* a stream is destroyed while it waits for memory

ASSUME StreamsAssumption ==
    /\ IsFiniteSet(Pipes)
    /\ Length \in [Pipes -> Nat]
    /\ MinPoolSpace \in Nat \ {0}
    /\ HighWaterMark \in [Pipes -> Nat] /\ \A p \in Pipes : HighWaterMark[p] >= MinPoolSpace
    /\ MaxBuffered \in Nat \ {0} /\ MaxTroubled \in Nat
    /\ Habits \subseteq AllHabits

\* The two streams of a pipe.
R(p) == <<"ReadStream", p>>
W(p) == <<"WriteStream", p>>
Streams == {R(p) : p \in Pipes} \cup {W(p) : p \in Pipes}

VARIABLES stream,   \* the fields fd, destroyed and _isClosed, and who waits for 'open'
          pools,    \* the pools so far; the last is the current one
          reading,  \* the state of each _read
          slot,     \* thisPool, start and toRead of each _read
          ended,    \* push(null) was called
          chunks,   \* the chunks a readable side has pushed
          waiting,  \* the chunks of a writable side, [slice |-> , bytes |-> ]
          writing,  \* the state of each _write or _writev
          batch,    \* the chunks it has not written
          memory,   \* the bytes it has copied to C
          queue,    \* the calls that wait for C
          cOpen,    \* the streams whose ext2_file_t is allocated
          cPos,     \* the position of each source, of the bytes that were pushed
          sink,     \* the bytes of each destination
          misuse,   \* history: calls on an ext2_file_t that is freed
          troubled  \* history: the streams that failed or that the program destroyed

readVars == <<pools, reading, slot, ended, cPos>>
writeVars == <<waiting, writing, batch, memory, sink>>
vars == <<stream, readVars, chunks, writeVars, queue, cOpen, misuse, troubled>>

Source(p) == [k \in 1 .. Length[p] |-> <<p, k>>]
Garbage == <<>>     \* what malloc returns
NoSlot == [pool |-> 0, start |-> 0, len |-> 0]
BytesOf(c) == [k \in 1 .. c.len |-> pools[c.pool].bytes[c.start + k - 1]]

Push(calls) == queue' = queue \o calls
Call(op, x) == [op |-> op, of |-> x]

Init == /\ stream = [x \in Streams |-> [fd |-> "opening", destroyed |-> FALSE,
                                        isClosed |-> FALSE, closeWaits |-> FALSE]]
        /\ pools = <<>>
        /\ reading = [p \in Pipes |-> "idle"]
        /\ slot = [p \in Pipes |-> NoSlot]
        /\ ended = [p \in Pipes |-> FALSE]
        /\ chunks = [p \in Pipes |-> <<>>]
        /\ waiting = [p \in Pipes |-> <<>>]
        /\ writing = [p \in Pipes |-> "idle"]
        /\ batch = [p \in Pipes |-> <<>>]
        /\ memory = [p \in Pipes |-> <<>>]
        /\ queue = SetToSeq({Call("open", x) : x \in Streams})
        /\ cOpen = {}
        /\ cPos = [p \in Pipes |-> 0]
        /\ sink = [p \in Pipes |-> <<>>]
        /\ misuse = {} /\ troubled = {}

-----------------------------------------------------------------------------
(* destroy and close: what becomes of the fields, and the calls they make *)

\* Slip: _isClosed is not looked at.
CloseCallsAgain(x, s) == IF s.fd = "open" THEN <<Call("close", x)>> ELSE <<>>
\* A stream that has no descriptor waits for one; a closed one only emits.
CloseCalls(x, s) == IF s.fd = "open" /\ ~s.isClosed THEN <<Call("close", x)>> ELSE <<>>
CloseFields(s) ==
    IF s.fd # "open" THEN [s EXCEPT !.closeWaits = TRUE] ELSE [s EXCEPT !.isClosed = TRUE]

DestroyCalls(x, s) == IF s.destroyed THEN <<>> ELSE CloseCalls(x, s)
DestroyFields(s) == IF s.destroyed THEN s ELSE CloseFields([s EXCEPT !.destroyed = TRUE])

\* destroy(), with calls made before it.
DestroyAfter(x, calls) ==
    /\ stream' = [stream EXCEPT ![x] = DestroyFields(@)]
    /\ queue' = calls \o DestroyCalls(x, stream[x])

Trouble(x) == /\ troubled' = troubled \cup {x}
              /\ Cardinality(troubled') <= MaxTroubled

\* A read or write that awaits useBuffer is not in the queue of C yet.
AwaitsMemory(x) == \E p \in Pipes : \/ x = R(p) /\ reading[p] = "malloc"
                                    \/ x = W(p) /\ writing[p] = "malloc"

\* The program, or an error of its own, destroys a stream.
ProgramDestroys(x) ==
    /\ ~stream[x].destroyed
    /\ "destroyEarly" \in Habits \/ ~AwaitsMemory(x)
    /\ Trouble(x)
    /\ DestroyAfter(x, queue)
    /\ UNCHANGED <<readVars, chunks, writeVars, cOpen, misuse>>

-----------------------------------------------------------------------------
(* The calls that C answers: one at a time, in the order of the queue *)

Answered(op, x) == queue # <<>> /\ Head(queue) = Call(op, x)
\* A call on a file that is freed.
Used(x, op) == misuse' = IF x \in cOpen THEN misuse ELSE misuse \cup {<<op, x>>}

\* Slip: nobody listens to 'open'.
OpenListenersNone(x, s) == <<>>
\* 'open' is emitted: a close that waits closes the descriptor.
OpenListeners(x, s) == IF s.closeWaits THEN <<Call("close", x)>> ELSE <<>>

OpenReturns(x) ==
    /\ Answered("open", x)
    /\ cOpen' = cOpen \cup {x}
    /\ stream' = [stream EXCEPT ![x].fd = "open"]
    /\ queue' = Tail(queue) \o OpenListeners(x, stream[x])
    /\ UNCHANGED <<readVars, chunks, writeVars, misuse, troubled>>

\* autoClose destroys the stream, whose close waits for ever.
OpenFails(x) ==
    /\ Answered("open", x)
    /\ Trouble(x)
    /\ DestroyAfter(x, Tail(queue))
    /\ UNCHANGED <<readVars, chunks, writeVars, cOpen, misuse>>

\* close() of lib/fs.js returns or throws: C has freed the file.
CloseReturns(x) ==
    /\ Answered("close", x)
    /\ Used(x, "close")
    /\ cOpen' = cOpen \ {x}
    /\ stream' = [stream EXCEPT ![x].fd = "closed"]
    /\ queue' = Tail(queue)
    /\ UNCHANGED <<readVars, chunks, writeVars, troubled>>

-----------------------------------------------------------------------------
(* ReadStream *)

Buffered(p) == FoldLeft(LAMBDA n, c : n + c.len, 0, chunks[p])

\* Readable calls _read while it has room.
MayRead(p) ==
    /\ reading[p] = "idle" /\ ~ended[p]
    /\ stream[R(p)].fd = "open" /\ ~stream[R(p)].destroyed
    /\ Buffered(p) < HighWaterMark[p]
    /\ "overlap" \in Habits \/ \A q \in Pipes : reading[q] \in {"idle", "failed"}

\* allocNewPool, when there is no pool or little of it is left.
PoolsFor(p) ==
    IF pools # <<>> /\ Last(pools).size - Last(pools).used >= MinPoolSpace THEN pools
    ELSE Append(pools, [size |-> HighWaterMark[p], used |-> 0,
                        bytes |-> [k \in 0 .. HighWaterMark[p] - 1 |-> Garbage]])

Read(p) ==
    /\ MayRead(p)
    /\ pools' = PoolsFor(p)
    /\ LET pool == Last(PoolsFor(p))
       IN slot' = [slot EXCEPT ![p] = [pool |-> Len(PoolsFor(p)), start |-> pool.used,
                                       len |-> Min({pool.size - pool.used, HighWaterMark[p]})]]
    /\ reading' = [reading EXCEPT ![p] = "malloc"]
    /\ Push(<<Call("malloc", R(p))>>)
    /\ UNCHANGED <<stream, ended, cPos, chunks, writeVars, cOpen, misuse, troubled>>

ReadGetsMemory(p) ==
    /\ Answered("malloc", R(p))
    /\ reading' = [reading EXCEPT ![p] = "read"]
    /\ queue' = Append(Tail(queue), Call("read", R(p)))
    /\ UNCHANGED <<stream, pools, slot, ended, cPos, chunks, writeVars, cOpen, misuse, troubled>>

\* Slip: pool.used stays where it was.
AdvancedNot(pool, n) == pool
\* pool.used += toRead.
Advanced(pool, n) == [pool EXCEPT !.used = @ + n]

\* All of the memory is copied to the pool, what was read and what was not;
\* then the pool that is current now advances.  push() drops the chunk of a
\* stream that was destroyed in the meantime, which never reads again.
ReadReturns(p) ==
    /\ Answered("read", R(p))
    /\ Used(R(p), "read")
    /\ LET s == slot[p]
           got == Min({Length[p] - cPos[p], s.len})
           pushed == IF stream[R(p)].destroyed THEN 0 ELSE got
           at(k) == cPos[p] + k - s.start + 1
           filled == [pools EXCEPT ![s.pool].bytes =
                        [k \in DOMAIN @ |-> IF k \notin s.start .. s.start + s.len - 1 THEN @[k]
                                            ELSE IF k < s.start + got THEN Source(p)[at(k)]
                                            ELSE Garbage]]
       IN /\ pools' = [filled EXCEPT ![Len(pools)] = Advanced(@, s.len)]
          /\ cPos' = [cPos EXCEPT ![p] = @ + pushed]
          /\ ended' = [ended EXCEPT ![p] = got = 0]
          /\ chunks' = IF pushed = 0 THEN chunks
                       ELSE [chunks EXCEPT ![p] = Append(@, [s EXCEPT !.len = pushed])]
    /\ reading' = [reading EXCEPT ![p] = "idle"]
    /\ slot' = [slot EXCEPT ![p] = NoSlot]
    /\ queue' = Tail(queue)
    /\ UNCHANGED <<stream, writeVars, cOpen, troubled>>

ReadFails(p) ==
    /\ Answered("read", R(p))
    /\ Used(R(p), "read")
    /\ reading' = [reading EXCEPT ![p] = "failed"]
    /\ slot' = [slot EXCEPT ![p] = NoSlot]
    /\ Trouble(R(p))
    /\ DestroyAfter(R(p), Tail(queue))
    /\ UNCHANGED <<pools, ended, cPos, chunks, writeVars, cOpen>>

\* 'end' is emitted when the last chunk is taken, and destroys the stream.
Drained(p) == ended[p] /\ chunks[p] = <<>>
End(p) ==
    /\ Drained(p) /\ ~stream[R(p)].destroyed
    /\ DestroyAfter(R(p), queue)
    /\ UNCHANGED <<readVars, chunks, writeVars, cOpen, misuse, troubled>>

-----------------------------------------------------------------------------
(* WriteStream *)

\* The pipe hands a chunk on: a slice of a pool, not a copy of its bytes.
Pass(p) ==
    /\ chunks[p] # <<>> /\ ~stream[W(p)].destroyed
    /\ Len(waiting[p]) + Len(batch[p]) < MaxBuffered
    /\ waiting' = [waiting EXCEPT ![p] = Append(@, Head(chunks[p]))]
    /\ chunks' = [chunks EXCEPT ![p] = Tail(@)]
    /\ UNCHANGED <<stream, readVars, writing, batch, memory, sink, queue, cOpen, misuse, troubled>>

\* _write takes one chunk, _writev all that wait.
Write(p) ==
    /\ writing[p] = "idle" /\ waiting[p] # <<>>
    /\ stream[W(p)].fd = "open" /\ ~stream[W(p)].destroyed
    /\ batch' = [batch EXCEPT ![p] = waiting[p]]
    /\ waiting' = [waiting EXCEPT ![p] = <<>>]
    /\ writing' = [writing EXCEPT ![p] = "malloc"]
    /\ Push(<<Call("malloc", W(p))>>)
    /\ UNCHANGED <<stream, readVars, chunks, memory, sink, cOpen, misuse, troubled>>

\* The bytes are copied to C now, and the flags of the descriptor read.
WriteGetsMemory(p) ==
    /\ Answered("malloc", W(p))
    /\ memory' = [memory EXCEPT ![p] = BytesOf(Head(batch[p]))]
    /\ writing' = [writing EXCEPT ![p] = IF W(p) \in cOpen THEN "write" ELSE "noFlags"]
    /\ queue' = Append(Tail(queue), Call("write", W(p)))
    /\ UNCHANGED <<stream, readVars, chunks, waiting, batch, sink, cOpen, misuse, troubled>>

\* The next chunk of _writev, or cb().
WriteReturns(p) ==
    /\ Answered("write", W(p)) /\ writing[p] = "write"
    /\ Used(W(p), "write")
    /\ sink' = [sink EXCEPT ![p] = @ \o memory[p]]
    /\ memory' = [memory EXCEPT ![p] = <<>>]
    /\ batch' = [batch EXCEPT ![p] = Tail(@)]
    /\ LET more == Len(batch[p]) > 1
       IN /\ writing' = [writing EXCEPT ![p] = IF more THEN "malloc" ELSE "idle"]
          /\ queue' = IF more THEN Append(Tail(queue), Call("malloc", W(p))) ELSE Tail(queue)
    /\ UNCHANGED <<stream, readVars, chunks, waiting, cOpen, misuse, troubled>>

\* The disk fails, or C finds no flag of writing: EBADF, and the file is not touched.
WriteFails(p) ==
    /\ Answered("write", W(p))
    /\ IF writing[p] = "noFlags" THEN UNCHANGED misuse ELSE Used(W(p), "write")
    /\ writing' = [writing EXCEPT ![p] = "failed"]
    /\ memory' = [memory EXCEPT ![p] = <<>>]
    /\ batch' = [batch EXCEPT ![p] = <<>>]
    /\ waiting' = [waiting EXCEPT ![p] = <<>>]
    /\ Trouble(W(p))
    /\ DestroyAfter(W(p), Tail(queue))
    /\ UNCHANGED <<readVars, chunks, sink, cOpen>>

\* 'finish' closes the stream, and then autoDestroy destroys it.
Finish(p) ==
    /\ Drained(p) /\ waiting[p] = <<>> /\ writing[p] = "idle"
    /\ stream[W(p)].fd = "open" /\ ~stream[W(p)].destroyed
    /\ LET s == CloseFields(stream[W(p)])
       IN /\ stream' = [stream EXCEPT ![W(p)] = DestroyFields(s)]
          /\ Push(CloseCalls(W(p), stream[W(p)]) \o DestroyCalls(W(p), s))
    /\ UNCHANGED <<readVars, chunks, writeVars, cOpen, misuse, troubled>>

-----------------------------------------------------------------------------
Answer(x) == OpenReturns(x) \/ OpenFails(x) \/ CloseReturns(x)
AnswerRead(p) == ReadGetsMemory(p) \/ ReadReturns(p) \/ ReadFails(p)
AnswerWrite(p) == WriteGetsMemory(p) \/ WriteReturns(p) \/ WriteFails(p)

Next == \/ \E x \in Streams : Answer(x) \/ ProgramDestroys(x)
        \/ \E p \in Pipes : \/ AnswerRead(p) \/ AnswerWrite(p)
                            \/ Read(p) \/ End(p) \/ Pass(p) \/ Write(p) \/ Finish(p)

\* C answers every call (EveryCallAnswered of OpQueue), and node's streams go on
\* when they can.
Fairness ==
    /\ \A x \in Streams : WF_vars(Answer(x))
    /\ \A p \in Pipes : /\ WF_vars(AnswerRead(p)) /\ WF_vars(AnswerWrite(p))
                        /\ WF_vars(Read(p)) /\ WF_vars(End(p)) /\ WF_vars(Pass(p))
                        /\ WF_vars(Write(p)) /\ WF_vars(Finish(p))

Spec == Init /\ [][Next]_vars /\ Fairness

-----------------------------------------------------------------------------
(* Properties *)

\* The bytes on their way from C to C.
OnTheirWay(p) ==
    LET kept == IF memory[p] # <<>> THEN Tail(batch[p]) ELSE batch[p]
    IN memory[p] \o FlattenSeq([i \in 1 .. Len(kept \o waiting[p] \o chunks[p]) |->
                                   BytesOf((kept \o waiting[p] \o chunks[p])[i])])

\* What a pipe has written, holds in C's memory and keeps as slices of pools is
\* what was pushed to it, in order: the slices keep their bytes until a write copies
\* them, while _read fills pools, for this stream and for others, and a failed
\* _read leaves its pool.  After a failed write the destination has a beginning
\* of the source.
BytesInOrder ==
    \A p \in Pipes :
       IF writing[p] = "failed" THEN IsPrefix(sink[p], Source(p))
       ELSE sink[p] \o OnTheirWay(p) = SubSeq(Source(p), 1, cPos[p])

\* No stream reads, writes or closes an ext2_file_t that it has closed, although
\* 'end', 'finish', autoDestroy, an error and the program may all want to close
\* it, and although a write may find it closed between two chunks of _writev.
NoMisuse == misuse = {}

Complete(p) == sink[p] = Source(p) /\ \A x \in {R(p), W(p)} : stream[x].fd = "closed"
Stopped(p) == {R(p), W(p)} \cap troubled # {}

\* Every descriptor that a destroyed stream has, or gets later, is closed in the
\* end; and a pipe whose streams nothing stops copies its source and closes both.
StreamsClose ==
    /\ \A x \in Streams : x \in cOpen /\ stream[x].destroyed ~> x \notin cOpen
    /\ \A p \in Pipes : <>(Complete(p) \/ Stopped(p))
=============================================================================
