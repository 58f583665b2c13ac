------------------------------ MODULE OpQueue ------------------------------
(***************************************************************************)
(* lib/queue.js with ccallThrowAsync of lib/util.js, its only user.        *)
(*                                                                         *)
(* The C code is built with Asyncify, which can keep one C call suspended  *)
(* at a time, so every asynchronous C call goes through this queue.  An    *)
(* atomic step is what JavaScript runs without returning to the event      *)
(* loop: a caller's addOperation (with the run() it may call), the end of  *)
(* a C call after its last disk access, the continuation of run() once the *)
(* promise of the C call has settled, and the continuation of the caller.  *)
(*                                                                         *)
(* A C call suspends at each disk access, and the disk is an object of the *)
(* user.  Inner[c] is the caller, if any, whose operation the disk object  *)
(* behind c's call awaits (a disk backed by a file of a mounted image).    *)
(***************************************************************************)
EXTENDS Sequences, Naturals

CONSTANTS Callers,   \* async functions, each awaiting at most one operation
          NoCaller,  \* no caller
          Inner      \* [Callers -> Callers \cup {NoCaller}]

ASSUME InnerAssumption ==
    /\ NoCaller \notin Callers
    /\ Inner \in [Callers -> Callers \cup {NoCaller}]

VARIABLES running,   \* queue.js: a run() is between its first and last line
          queue,     \* queue.js: the operations not yet shifted
          stage,     \* where each caller's operation is
          result,    \* how its last C call ended
          answer     \* what ccallThrowAsync last gave it

vars == <<running, queue, stage, result, answer>>

Stages  == {"idle", "queued", "executing", "returned", "settled"}
Results == {"value", "errno", "trap"}   \* >= 0, < 0, a thrown exception
Answers == {"resolved", "rejected"}

\* The operations that run() took out of the queue and has not settled.
Active == {c \in Callers : stage[c] \in {"executing", "returned"}}

\* The disk of c's call awaits an operation that was not answered yet.
AwaitsInner(c) == Inner[c] # NoCaller /\ stage[Inner[c]] # "idle"

Init == /\ running = FALSE
        /\ queue = <<>>
        /\ stage = [c \in Callers |-> "idle"]
        /\ result = [c \in Callers |-> "none"]
        /\ answer = [c \in Callers |-> "none"]

-----------------------------------------------------------------------------
(* Slips of run(), each a small edit away from the code; the properties     *)
(* below are checked to tell them from it.                                  *)

\* The early return forgets running = false.
RunLeavesRunning(q, st) ==
    IF q = <<>>
    THEN queue' = q /\ stage' = st /\ UNCHANGED running
    ELSE /\ running' = TRUE
         /\ queue' = Tail(q)
         /\ stage' = [st EXCEPT ![Head(q)] = "executing"]

\* queue.pop() for queue.shift().
RunPops(q, st) ==
    IF q = <<>>
    THEN running' = FALSE /\ queue' = q /\ stage' = st
    ELSE /\ running' = TRUE
         /\ queue' = SubSeq(q, 1, Len(q) - 1)
         /\ stage' = [st EXCEPT ![q[Len(q)]] = "executing"]

-----------------------------------------------------------------------------
\* run() up to its await, entered with the queue q and the stages st.
Run(q, st) ==
    IF q = <<>>
    THEN running' = FALSE /\ queue' = q /\ stage' = st
    ELSE /\ running' = TRUE
         /\ queue' = Tail(q)
         /\ stage' = [st EXCEPT ![Head(q)] = "executing"]

\* Slip: addOperation calls run() whatever running says.
AddOperationUnguarded(c) ==
    /\ stage[c] = "idle"
    /\ \A o \in Callers : Inner[o] = c => stage[o] = "executing"
    /\ Run(Append(queue, c), [stage EXCEPT ![c] = "queued"])
    /\ answer' = [answer EXCEPT ![c] = "pending"]
    /\ UNCHANGED result

\* A caller's ccallThrowAsync: the operation is pushed, and run unless it is
\* said to be running already.
AddOperation(c) ==
    /\ stage[c] = "idle"
    /\ \A o \in Callers : Inner[o] = c => stage[o] = "executing"
    /\ LET q  == Append(queue, c)
           st == [stage EXCEPT ![c] = "queued"]
       IN IF running
          THEN queue' = q /\ stage' = st /\ UNCHANGED running
          ELSE Run(q, st)
    /\ answer' = [answer EXCEPT ![c] = "pending"]
    /\ UNCHANGED result

\* The C call of c ends, after any number of disk accesses.
CallReturns(c) ==
    /\ stage[c] = "executing"
    /\ ~AwaitsInner(c)
    /\ stage' = [stage EXCEPT ![c] = "returned"]
    /\ \E r \in Results : result' = [result EXCEPT ![c] = r]
    /\ UNCHANGED <<running, queue, answer>>

\* Slip: await run() in the try block instead of the finally block.
SettleRunsOnSuccess(c) ==
    /\ stage[c] = "returned"
    /\ IF result[c] = "trap"
       THEN stage' = [stage EXCEPT ![c] = "settled"] /\ UNCHANGED <<running, queue>>
       ELSE Run(queue, [stage EXCEPT ![c] = "settled"])
    /\ UNCHANGED <<result, answer>>

\* The continuation of run(): resolve or reject, then run() again.
Settle(c) ==
    /\ stage[c] = "returned"
    /\ Run(queue, [stage EXCEPT ![c] = "settled"])
    /\ UNCHANGED <<result, answer>>

\* Slip: ccallThrowAsync without its last line.
ContinueWithoutReturn(c) ==
    /\ stage[c] = "settled"
    /\ stage' = [stage EXCEPT ![c] = "idle"]
    /\ answer' = [answer EXCEPT ![c] =
                    IF result[c] = "value" THEN "undefined" ELSE "rejected"]
    /\ UNCHANGED <<running, queue, result>>

\* The continuation of ccallThrowAsync: a negative result becomes an
\* ErrnoException, a trap is thrown on, anything else is returned.
Continue(c) ==
    /\ stage[c] = "settled"
    /\ stage' = [stage EXCEPT ![c] = "idle"]
    /\ answer' = [answer EXCEPT ![c] =
                    IF result[c] = "value" THEN "resolved" ELSE "rejected"]
    /\ UNCHANGED <<running, queue, result>>

Next == \E c \in Callers :
          AddOperation(c) \/ CallReturns(c) \/ Settle(c) \/ Continue(c)

\* Microtasks run when the stack is empty; a disk access is answered and a C
\* function ends, so an executing call returns.  Nobody has to call.
Fairness == \A c \in Callers : /\ WF_vars(CallReturns(c))
                               /\ WF_vars(Settle(c))
                               /\ WF_vars(Continue(c))

SafeSpec == Init /\ [][Next]_vars
Spec == SafeSpec /\ Fairness

-----------------------------------------------------------------------------
(* Safety *)

TypeOK == /\ running \in BOOLEAN
          /\ queue \in Seq(Callers)
          /\ stage \in [Callers -> Stages]
          /\ result \in [Callers -> Results \cup {"none"}]
          /\ answer \in [Callers -> Answers \cup {"none", "pending"}]

\* Asyncify keeps the stack of one suspended call: the queue never lets a
\* second C call start before the first one's promise has settled.
OneCallAtATime == \A c, d \in Active : c = d

\* The flag that lets addOperation skip run() is never stale: an operation is
\* waiting or active only while running is set, and it is set only then.
RunningIsTrue == running <=> Active # {}

\* No lost wakeup: operations wait in the queue only behind an active one.
NoLostWakeup == queue # <<>> => Active # {}

\* The queue holds each waiting operation once, and nothing else.
QueueHoldsWaiting ==
    /\ \A i \in DOMAIN queue : stage[queue[i]] = "queued"
    /\ \A i, j \in DOMAIN queue : queue[i] = queue[j] => i = j
    /\ \A c \in Callers : stage[c] = "queued" => \E i \in DOMAIN queue : queue[i] = c

\* An operation issued by the disk object of an executing call never starts:
\* it waits behind the call that waits for it (a nested mount hangs).
InnerNeverStarts ==
    \A c \in Callers : Inner[c] # NoCaller => stage[Inner[c]] \in {"idle", "queued"}

-----------------------------------------------------------------------------
(* The abstract server: the active operation first, then the queue.        *)

\* The unsettled operations, oldest first.
Line == IF Active = {} THEN queue
        ELSE <<CHOOSE c \in Active : TRUE>> \o queue

\* What a caller has been told, from the moment run() settles its promise.
Told == [c \in Callers |->
           IF stage[c] # "settled" THEN answer[c]
           ELSE IF result[c] = "value" THEN "resolved" ELSE "rejected"]

\* OpQueue is a first-come first-served server of one call at a time.
Abstract == INSTANCE SerialServer WITH line <- Line, answer <- Told
ImplementsServer == Abstract!Spec

-----------------------------------------------------------------------------
(* Liveness *)

\* Every operation that was added is settled, whatever the others do, as long
\* as no disk object is itself behind the queue.
EveryCallAnswered ==
    \A c \in Callers : answer[c] = "pending" ~>
                         answer[c] \in Answers \/ \E o \in Callers : AwaitsInner(o)

=============================================================================
