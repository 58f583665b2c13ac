------------------------------- MODULE Hooks -------------------------------
(***************************************************************************)
(* The hooks of lib/util.js: withHooks gives each fs operation an id,      *)
(* under which usePath, useBuffer and useObject file the C memory and the  *)
(* arrays that the operation has to give back.  The current id is a        *)
(* global, hookId, so which id a hook files under depends on the order in  *)
(* which the continuations of all operations run.                          *)
(*                                                                         *)
(* JavaScript runs continuations ("jobs") one at a time, first in first    *)
(* out, each to its next await; jobs is that queue, and each await between *)
(* a C call and the code that waits for it is one job.  The program may    *)
(* start an operation between any two jobs, and the disk may answer then:  *)
(* both come from event sources and from promise chains of any length.     *)
(* C calls go through the queue of lib/queue.js (see OpQueue).             *)
(***************************************************************************)
EXTENDS Naturals, Sequences, FiniteSets, SequencesExt

CONSTANTS Ops,    \* fs operations of the program, each made once
          Kind,   \* [Ops -> Kinds]
          NoId    \* undefined

\* What the body of an operation awaits, in order: "use" a useBuffer, "buf" a
\* usePath, "bufs" a usePaths of two, "obj" a useObject, "call" a binding.
Plans == [fd         |-> <<"call">>,                 \* fchmod
          buffer     |-> <<"use", "call">>,          \* read, write
          path       |-> <<"buf", "call">>,          \* open, unlink, mkdir, ...
          bothPaths  |-> <<"bufs", "call">>,         \* link, symlink
          pathPath   |-> <<"buf", "buf", "call">>,   \* rename
          pathArray  |-> <<"buf", "obj", "call">>]   \* readdir, readlink

Kinds == DOMAIN Plans
Plan(o) == Plans[Kind[o]]

ASSUME HooksAssumption == /\ IsFiniteSet(Ops) /\ Kind \in [Ops -> Kinds]
                          /\ NoId \notin Nat \cup Seq(Ops) \cup Seq(Ops \X Nat)

VARIABLE js     \* the JavaScript heap, as far as hooks go

vars == <<js>>

Ids == 0 .. Cardinality(Ops) - 1
\* A call of C: a malloc or free of the pointer ptr, or the operation itself.
Item(o, what, ptr) == [op |-> o, what |-> what, ptr |-> ptr]
NoItem == [op |-> NoId, what |-> "none", ptr |-> <<>>]
\* The pointers o asks for, one for each buffer of its plan.
Buffers(o) == CASE Kind[o] = "fd" -> 0
                [] Kind[o] \in {"buffer", "path", "pathArray"} -> 1
                [] Kind[o] \in {"bothPaths", "pathPath"} -> 2
Pointers(o) == {<<o, k>> : k \in 1 .. Buffers(o)}

Init == js = [
    jobs    |-> <<>>,                        \* continuations that can run
    queue   |-> <<>>,  active |-> NoItem,    \* lib/queue.js
    inC     |-> FALSE,                       \* active is suspended in C
    hookId  |-> NoId,                        \* the global
    nextId  |-> 0,     freeIds |-> <<>>,     \* getIdManager()
    objIds  |-> [i \in Ids |-> NoId],        \* Map: id to arrays, or absent
    memAddrs|-> [i \in Ids |-> NoId],        \* Map: id to pointers, or absent
    heap    |-> {},                          \* C memory not freed
    objects |-> {},                          \* pre.js: arrays C can reach
    misuse  |-> {},                          \* what C was made to do wrong
    state   |-> [o \in Ops |-> "idle"],      \* idle, busy, failing, done, failed
    error   |-> [o \in Ops |-> "none"],
    pc      |-> [o \in Ops |-> 0],           \* the step of Plan(o)
    id      |-> [o \in Ops |-> NoId],        \* _hookId of withHooks
    oldId   |-> [o \in Ops |-> NoId],        \* oldHookId of withHooks
    used    |-> [o \in Ops |-> <<>>],        \* _hookId of its useBuffers
    waiting |-> [o \in Ops |-> 0]]           \* promises of a Promise.all

-----------------------------------------------------------------------------
(* Promises and the queue *)

Push(w, o, at, item) == [w EXCEPT !.jobs = Append(@, [op |-> o, at |-> at, item |-> item])]

\* malloc and free on the memory of C.
HeapAfter(w, it) == CASE it.what = "malloc" -> w.heap \cup {it.ptr}
                      [] it.what = "free"   -> w.heap \ {it.ptr}
                      [] it.what = "call"   -> w.heap

\* What C is made to do wrong by the call.
MisuseBy(w, it) ==
    {m \in {"doubleFree"}   : it.what = "free" /\ it.ptr \notin w.heap} \cup
    {m \in {"useAfterFree"} : it.what = "call" /\ ~(Pointers(it.op) \subseteq w.heap)} \cup
    {m \in {"lostArray"}    : it.what = "call" /\ Kind[it.op] = "pathArray" /\ it.op \notin w.objects}

\* Module.ccall up to its first suspension.  malloc and free do not suspend.
Enter(w, it) ==
    LET v == [w EXCEPT !.active = it, !.heap = HeapAfter(w, it), !.misuse = @ \cup MisuseBy(w, it)]
    IN IF it.what = "call" THEN [v EXCEPT !.inC = TRUE] ELSE Push(v, it.op, "run", it)

RunQueue(w) == IF w.queue = <<>> THEN [w EXCEPT !.active = NoItem]
               ELSE Enter([w EXCEPT !.queue = Tail(@)], Head(w.queue))

\* Of several calls added at once the first runs, if none does, and the others wait.
AddOperations(w, items) ==
    LET v == [w EXCEPT !.queue = @ \o items]
    IN IF w.active = NoItem THEN RunQueue(v) ELSE v

AddOperation(w, it) == AddOperations(w, <<it>>)

Throw(w, o, e) == [w EXCEPT !.state[o] = "failing",
                            !.error[o] = IF @ = "none" THEN e ELSE @]

-----------------------------------------------------------------------------
(* The hooks *)

\* The await of the useBuffer that asked for item goes on: in usePath, or in
\* the body itself.
AfterBuffer(w, o, item) == IF Kind[o] = "buffer" THEN Push(w, o, "body", NoItem)
                           ELSE Push(w, o, "path", item)

\* useBuffer up to its await: the id is read, the memory asked for.
UseBuffer(w, o) ==
    IF w.hookId = NoId THEN AfterBuffer(Throw(w, o, "HookError"), o, NoItem)
    ELSE LET v == [w EXCEPT !.used[o] = Append(@, w.hookId)]
         IN AddOperation(v, Item(o, "malloc", <<o, Len(v.used[o])>>))

\* Slip: useBuffer reads the id again after its await.
FileUnderCurrent(w, o, k) == w.hookId
FileUnder(w, o, k) == w.used[o][k]

\* useBuffer after its await: the pointer is filed, the id made current again.
BufferReady(w, o, item) ==
    LET id == FileUnder(w, o, item.ptr[2])
    IN IF id = NoId \/ w.memAddrs[id] = NoId
       THEN AfterBuffer(Throw(w, o, "TypeError"), o, item)
       ELSE AfterBuffer([w EXCEPT !.memAddrs[id] = Append(@, item.ptr), !.hookId = id], o, item)

\* useObject: setObject first, then the id.
UseObject(w, o) ==
    LET v == [w EXCEPT !.objects = @ \cup {o}]
    IN Push(IF w.hookId = NoId THEN Throw(v, o, "HookError")
            ELSE IF w.objIds[w.hookId] = NoId THEN Throw(v, o, "TypeError")
            ELSE [v EXCEPT !.objIds[w.hookId] = Append(@, o)],
            o, "body", NoItem)

\* The body of o goes on to its next await.
Body(w, o) ==
    LET v == [w EXCEPT !.pc[o] = @ + 1]
        step == IF v.pc[o] <= Len(Plan(o)) THEN Plan(o)[v.pc[o]] ELSE "end"
    IN CASE step \in {"use", "buf"} -> UseBuffer(v, o)
         [] step = "bufs" -> UseBuffer(UseBuffer([v EXCEPT !.waiting[o] = 2], o), o)
         [] step = "obj"  -> UseObject(v, o)
         [] step = "call" -> AddOperation(v, Item(o, "call", <<>>))
         [] step = "end"  -> Push(v, o, "finally", NoItem)

\* Slip: the operation does not make its id the current one.
KeepCurrent(w, id) == w
MakeCurrent(w, id) == [w EXCEPT !.hookId = id]

\* getId: the id given back first, or a fresh one.  Slip: ++id for id++.
GetIdIncremented(w) == IF w.freeIds = <<>> THEN w.nextId + 1 ELSE Head(w.freeIds)
GetId(w) == IF w.freeIds = <<>> THEN w.nextId ELSE Head(w.freeIds)
FreeIdsLeft(w) == IF w.freeIds = <<>> THEN <<>> ELSE Tail(w.freeIds)

\* withHooks up to its await, and the body up to its own.
Enhook(w, o) ==
    LET id == GetId(w)
        v  == [w EXCEPT !.oldId[o] = w.hookId, !.id[o] = id,
                        !.nextId = IF w.freeIds = <<>> THEN @ + 1 ELSE @,
                        !.freeIds = FreeIdsLeft(w),
                        !.objIds[id] = <<>>, !.memAddrs[id] = <<>>,
                        !.state[o] = "busy"]
    IN Body(MakeCurrent(v, id), o)

\* Slip: only the first pointer is freed.
ToFreeFirst(w, o) ==
    IF w.memAddrs[w.id[o]] = <<>> THEN <<>> ELSE <<Head(w.memAddrs[w.id[o]])>>
ToFree(w, o) == w.memAddrs[w.id[o]]

\* The finally block up to its await.
Finally(w, o) ==
    LET v == [w EXCEPT !.objects = @ \ ToSet(w.objIds[w.id[o]]), !.waiting[o] = Len(ToFree(w, o))]
    IN IF ToFree(w, o) = <<>> THEN Push(v, o, "cleanup", NoItem)
       ELSE AddOperations(v, [k \in 1 .. Len(ToFree(w, o)) |-> Item(o, "free", ToFree(w, o)[k])])

\* releaseId.
ReleaseId(w, o) == Append(w.freeIds, w.id[o])

\* The rest of the finally block, and the caller is told.
Cleanup(w, o) ==
    [w EXCEPT !.objIds[w.id[o]] = NoId, !.memAddrs[w.id[o]] = NoId,
              !.hookId = w.oldId[o], !.freeIds = ReleaseId(w, o),
              !.state[o] = IF @ = "failing" THEN "failed" ELSE "done"]

\* One promise of a Promise.all of o is settled.
OneOfAll(w, o, then) ==
    LET v == [w EXCEPT !.waiting[o] = IF @ = 0 \/ (w.state[o] = "failing" /\ then = "body")
                                      THEN 0 ELSE @ - 1]
    IN IF w.waiting[o] > 0 /\ v.waiting[o] = 0 THEN Push(v, o, then, NoItem) ELSE v

-----------------------------------------------------------------------------
(* The actions *)

\* The program calls the operation.
Call(o) == js.state[o] = "idle" /\ js' = Enhook(js, o)

\* The C call has had its last answer from the disk.
DiskAnswers == /\ js.inC
               /\ js' = Push([js EXCEPT !.inC = FALSE], js.active.op, "run", js.active)

\* The continuation of run(): the promise is resolved, the next call entered.
\* Slip: run() is not called again.
RunStops(w, j) == Push(w, j.op, "ccall", j.item)
RunContinues(w, j) == RunQueue(Push(w, j.op, "ccall", j.item))

\* The continuation of ccallThrowAsync, which resolves what awaits it.
CcallContinues(w, j, ok) ==
    CASE j.item.what = "malloc" -> Push(w, j.op, "buffer", j.item)
      [] j.item.what = "free"   -> Push(w, j.op, "all", j.item)
      [] j.item.what = "call"   -> Push(IF ok THEN w ELSE Throw(w, j.op, "errno"), j.op, "body", NoItem)

\* What the job j does, up to its next await.
Continue(w, j, ok) ==
    CASE j.at = "run"     -> RunContinues(w, j)
      [] j.at = "ccall"   -> CcallContinues(w, j, ok)
      [] j.at = "buffer"  -> BufferReady(w, j.op, j.item)
      [] j.at = "path"    -> IF Kind[j.op] = "bothPaths" THEN Push(w, j.op, "element", j.item)
                             ELSE Push(w, j.op, "body", NoItem)
      [] j.at = "element" -> OneOfAll(w, j.op, "body")
      [] j.at = "body"    -> IF w.state[j.op] = "failing" THEN Push(w, j.op, "finally", NoItem)
                             ELSE Body(w, j.op)
      [] j.at = "finally" -> Finally(w, j.op)
      [] j.at = "all"     -> OneOfAll(w, j.op, "cleanup")
      [] j.at = "cleanup" -> Cleanup(w, j.op)

RunJob == /\ js.jobs # <<>>
          /\ \E ok \in BOOLEAN :
                js' = Continue([js EXCEPT !.jobs = Tail(@)], Head(js.jobs), ok)

Next == RunJob \/ DiskAnswers \/ \E o \in Ops : Call(o)

\* Jobs run until there are none, and the disk answers.
Spec == Init /\ [][Next]_vars /\ WF_vars(RunJob) /\ WF_vars(DiskAnswers)

-----------------------------------------------------------------------------
(* Properties *)

Running(o) == js.state[o] \in {"busy", "failing"}

TypeOK ==
    /\ js.hookId \in Ids \cup {NoId} /\ js.nextId \in 0 .. Cardinality(Ops)
    /\ \A o \in Ops : js.state[o] \in {"idle", "busy", "failing", "done", "failed"}
    /\ js.heap \subseteq UNION {Pointers(o) : o \in Ops}
    /\ js.objects \subseteq Ops

\* An operation frees its own memory: what is filed under its id is its own,
\* whatever the other operations did to hookId while it waited.
OwnMemory == \A o \in Ops : Running(o) =>
                ToSet(js.memAddrs[js.id[o]]) \subseteq Pointers(o)

\* C is never given memory that was freed nor an array that was dropped, and
\* nothing is freed twice.
NoMisuse == js.misuse = {}

\* A hook finds the id of its operation.
NoHookErrors == \A o \in Ops : js.error[o] \in {"none", "errno"}

\* When no operation is in progress all memory, arrays and ids are given back.
NothingLeaks ==
    (\A o \in Ops : ~Running(o)) =>
        /\ js.heap = {} /\ js.objects = {}
        /\ \A i \in Ids : js.memAddrs[i] = NoId /\ js.objIds[i] = NoId
        /\ Len(js.freeIds) = js.nextId

\* Every operation comes to an end.
EveryOpEnds == \A o \in Ops : Running(o) ~> ~Running(o)

=============================================================================
