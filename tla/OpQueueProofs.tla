--------------------------- MODULE OpQueueProofs ---------------------------
(***************************************************************************)
(* The queue of lib/queue.js, for any set of callers and any disk objects: *)
(* at most one C call is active, no wakeup is lost, and the queue with the *)
(* call it runs is a first-come first-served server.                       *)
(***************************************************************************)
EXTENDS OpQueue, SequenceTheorems, TLAPS

\* What a caller was told agrees with the stage of its operation.
AnswerMatchesStage ==
    \A c \in Callers : (stage[c] = "idle") <=> (answer[c] # "pending")

IInv == /\ TypeOK
        /\ OneCallAtATime
        /\ RunningIsTrue
        /\ NoLostWakeup
        /\ QueueHoldsWaiting
        /\ AnswerMatchesStage

-----------------------------------------------------------------------------
(* Lemmas about the queue as a sequence *)

\* Pushing an operation that does not wait keeps the waiting ones distinct.
LEMMA PushWaiting ==
    ASSUME NEW q \in Seq(Callers), NEW c \in Callers
    PROVE  /\ Append(q, c) \in Seq(Callers)
           /\ Append(q, c) # <<>>
           /\ Len(Append(q, c)) = Len(q) + 1
           /\ DOMAIN Append(q, c) = 1 .. Len(q) + 1
           /\ DOMAIN q = 1 .. Len(q)
           /\ \A i \in 1 .. Len(q) : Append(q, c)[i] = q[i]
           /\ Append(q, c)[Len(q) + 1] = c
  OBVIOUS

\* Shifting moves every other operation one place to the front.
LEMMA ShiftWaiting ==
    ASSUME NEW q \in Seq(Callers), q # <<>>
    PROVE  /\ Len(q) \in Nat \ {0}
           /\ DOMAIN q = 1 .. Len(q)
           /\ Head(q) \in Callers
           /\ Head(q) = q[1]
           /\ Tail(q) \in Seq(Callers)
           /\ DOMAIN Tail(q) = 1 .. Len(q) - 1
           /\ \A i \in 1 .. Len(q) - 1 : Tail(q)[i] = q[i + 1]
  OBVIOUS

\* A queue of one operation empties when it is shifted.
LEMMA ShiftSingle ==
    ASSUME NEW c \in Callers
    PROVE  /\ Append(<<>>, c) = <<c>>
           /\ Head(<<c>>) = c
           /\ Tail(<<c>>) = <<>>
  OBVIOUS

-----------------------------------------------------------------------------
(* The inductive invariant *)

\* q holds each operation that waits according to st once, and nothing else.
Holds(q, st) ==
    /\ \A i \in DOMAIN q : st[q[i]] = "queued"
    /\ \A i, j \in DOMAIN q : q[i] = q[j] => i = j
    /\ \A c \in Callers : st[c] = "queued" => \E i \in DOMAIN q : q[i] = c

\* run(), entered while no operation is active, leaves at most one active and
\* a queue that holds what still waits.
LEMMA RunKeepsQueue ==
    ASSUME NEW q \in Seq(Callers), NEW st \in [Callers -> Stages],
           \A c \in Callers : st[c] \notin {"executing", "returned"},
           Holds(q, st),
           Run(q, st)
    PROVE  /\ running' \in BOOLEAN
           /\ queue' \in Seq(Callers)
           /\ stage' \in [Callers -> Stages]
           /\ (OneCallAtATime /\ RunningIsTrue /\ NoLostWakeup /\ QueueHoldsWaiting)'
           /\ \A c \in Callers : stage'[c] = "idle" <=> st[c] = "idle"
  <1>1. CASE q = <<>>
    <2>1. running' = FALSE /\ queue' = <<>> /\ stage' = st
      BY <1>1 DEF Run
    <2>2. Active' = {}
      BY <2>1 DEF Active
    <2>3. QueueHoldsWaiting'
      BY <1>1, <2>1 DEF Holds, QueueHoldsWaiting
    <2>4. (OneCallAtATime /\ RunningIsTrue /\ NoLostWakeup)'
      BY <2>1, <2>2 DEF OneCallAtATime, RunningIsTrue, NoLostWakeup
    <2>5. <<>> \in Seq(Callers)
      OBVIOUS
    <2> QED
      BY <2>1, <2>3, <2>4, <2>5
  <1>2. CASE q # <<>>
    <2>1. /\ running' = TRUE
          /\ queue' = Tail(q)
          /\ stage' = [st EXCEPT ![Head(q)] = "executing"]
      BY <1>2 DEF Run
    <2>2. /\ Len(q) \in Nat \ {0}
          /\ DOMAIN q = 1 .. Len(q)
          /\ Head(q) \in Callers
          /\ Head(q) = q[1]
          /\ Tail(q) \in Seq(Callers)
          /\ DOMAIN Tail(q) = 1 .. Len(q) - 1
          /\ \A i \in 1 .. Len(q) - 1 : Tail(q)[i] = q[i + 1]
      BY <1>2, ShiftWaiting
    <2>3. Active' = {Head(q)}
      BY <2>1, <2>2 DEF Active, Stages
    <2>4. stage' \in [Callers -> Stages]
      BY <2>1, <2>2 DEF Stages
    <2>5. QueueHoldsWaiting'
      <3>1. \A i \in DOMAIN queue' : stage'[queue'[i]] = "queued"
        <4> SUFFICES ASSUME NEW i \in 1 .. Len(q) - 1
                     PROVE  stage'[Tail(q)[i]] = "queued"
          BY <2>1, <2>2
        <4>1. i + 1 \in DOMAIN q /\ 1 \in DOMAIN q /\ i + 1 # 1
          BY <2>2
        <4>2. q[i + 1] # q[1] /\ st[q[i + 1]] = "queued" /\ q[i + 1] \in Callers
          BY <4>1, <2>2, ElementOfSeq DEF Holds
        <4> QED
          BY <4>2, <2>1, <2>2
      <3>2. \A i, j \in DOMAIN queue' : queue'[i] = queue'[j] => i = j
        <4> SUFFICES ASSUME NEW i \in 1 .. Len(q) - 1, NEW j \in 1 .. Len(q) - 1,
                            q[i + 1] = q[j + 1]
                     PROVE  i = j
          BY <2>1, <2>2
        <4>1. i + 1 \in DOMAIN q /\ j + 1 \in DOMAIN q
          BY <2>2
        <4>2. i + 1 = j + 1
          BY <4>1 DEF Holds
        <4> QED
          BY <4>2
      <3>3. ASSUME NEW c \in Callers, stage'[c] = "queued"
            PROVE  \E i \in DOMAIN queue' : queue'[i] = c
        <4>1. c # Head(q) /\ st[c] = "queued"
          BY <2>1, <2>2, <3>3
        <4>2. PICK k \in DOMAIN q : q[k] = c
          BY <4>1 DEF Holds
        <4>3. k - 1 \in 1 .. Len(q) - 1 /\ (k - 1) + 1 = k
          BY <4>1, <4>2, <2>2
        <4>4. Tail(q)[k - 1] = c
          BY <4>2, <4>3, <2>2
        <4> QED
          BY <4>3, <4>4, <2>1, <2>2
      <3> QED
        BY <3>1, <3>2, <3>3 DEF QueueHoldsWaiting
    <2>6. \A c \in Callers : stage'[c] = "idle" <=> st[c] = "idle"
      <3>1. 1 \in DOMAIN q
        BY <2>2
      <3>2. st[Head(q)] = "queued"
        BY <3>1, <2>2 DEF Holds
      <3> QED
        BY <3>2, <2>1, <2>2
    <2> QED
      BY <2>1, <2>2, <2>3, <2>4, <2>5, <2>6
         DEF OneCallAtATime, RunningIsTrue, NoLostWakeup
  <1> QED
    BY <1>1, <1>2

\* The invariant holds before any caller has called.
LEMMA InitIInv == Init => IInv
  <1> SUFFICES ASSUME Init PROVE IInv
    OBVIOUS
  <1>1. <<>> \in Seq(Callers) /\ DOMAIN <<>> = {}
    OBVIOUS
  <1>2. Active = {}
    BY DEF Init, Active
  <1> QED
    BY <1>1, <1>2 DEF Init, IInv, TypeOK, OneCallAtATime, RunningIsTrue, NoLostWakeup,
       QueueHoldsWaiting, AnswerMatchesStage, Stages, Results, Answers

\* An operation is added while nothing is active, or behind what is active.
LEMMA AddOperationKeeps ==
    ASSUME IInv, NEW c \in Callers, AddOperation(c)
    PROVE  IInv'
  <1> DEFINE q  == Append(queue, c)
             st == [stage EXCEPT ![c] = "queued"]
  <1>1. /\ stage[c] = "idle"
        /\ answer' = [answer EXCEPT ![c] = "pending"]
        /\ result' = result
    BY DEF AddOperation
  <1>2. st \in [Callers -> Stages] /\ queue \in Seq(Callers)
    BY DEF IInv, TypeOK, Stages
  <1>3. /\ q \in Seq(Callers) /\ q # <<>>
        /\ DOMAIN q = 1 .. Len(queue) + 1
        /\ DOMAIN queue = 1 .. Len(queue)
        /\ \A i \in 1 .. Len(queue) : q[i] = queue[i] /\ queue[i] \in Callers
        /\ q[Len(queue) + 1] = c
        /\ Len(queue) \in Nat
    BY <1>2, PushWaiting, ElementOfSeq, LenProperties
  <1> HIDE DEF q
  <1>4. Holds(q, st)
    <2>1. \A i \in DOMAIN queue : stage[queue[i]] = "queued" /\ queue[i] # c
      BY <1>1 DEF IInv, QueueHoldsWaiting
    <2>2. \A i \in DOMAIN q : st[q[i]] = "queued"
      BY <2>1, <1>2, <1>3
    <2>3. \A i, j \in DOMAIN q : q[i] = q[j] => i = j
      <3>1. \A i, j \in DOMAIN queue : queue[i] = queue[j] => i = j
        BY DEF IInv, QueueHoldsWaiting
      <3> QED
        BY <3>1, <2>1, <1>3
    <2>4. ASSUME NEW d \in Callers, st[d] = "queued"
          PROVE  \E i \in DOMAIN q : q[i] = d
      <3>1. CASE d = c
        BY <3>1, <1>3
      <3>2. CASE d # c
        <4>1. stage[d] = "queued"
          BY <3>2, <2>4 DEF IInv, TypeOK
        <4>2. PICK i \in DOMAIN queue : queue[i] = d
          BY <4>1 DEF IInv, QueueHoldsWaiting
        <4>3. i \in DOMAIN q /\ q[i] = d
          BY <4>2, <1>3
        <4> QED
          BY <4>3
      <3> QED
        BY <3>1, <3>2
    <2> QED
      BY <2>2, <2>3, <2>4 DEF Holds
  <1>5. CASE running
    <2>1. queue' = q /\ stage' = st /\ running' = running
      BY <1>5 DEF AddOperation, q
    <2>2. Active' = Active
      BY <1>1, <2>1 DEF Active, IInv, TypeOK
    <2>3. TypeOK'
      BY <1>1, <1>2, <1>3, <2>1 DEF IInv, TypeOK, Answers
    <2>4. (OneCallAtATime /\ RunningIsTrue)'
      BY <2>1, <2>2 DEF IInv, OneCallAtATime, RunningIsTrue
    <2>5. NoLostWakeup'
      BY <1>5, <2>2 DEF IInv, RunningIsTrue, NoLostWakeup
    <2>6. QueueHoldsWaiting'
      BY <1>4, <2>1 DEF Holds, QueueHoldsWaiting
    <2>7. AnswerMatchesStage'
      BY <1>1, <2>1 DEF IInv, TypeOK, AnswerMatchesStage
    <2> QED
      BY <2>3, <2>4, <2>5, <2>6, <2>7 DEF IInv
  <1>6. CASE ~running
    <2>1. Run(q, st)
      BY <1>6 DEF AddOperation, q
    <2>2. \A d \in Callers : st[d] \notin {"executing", "returned"}
      BY <1>6 DEF IInv, TypeOK, RunningIsTrue, Active
    <2>3. /\ running' \in BOOLEAN
          /\ queue' \in Seq(Callers)
          /\ stage' \in [Callers -> Stages]
          /\ (OneCallAtATime /\ RunningIsTrue /\ NoLostWakeup /\ QueueHoldsWaiting)'
          /\ \A d \in Callers : stage'[d] = "idle" <=> st[d] = "idle"
      <3> HIDE DEF st
      <3> QED
        BY <1>2, <1>3, <1>4, <2>1, <2>2, RunKeepsQueue
    <2>4. TypeOK'
      BY <1>1, <2>3 DEF IInv, TypeOK, Answers
    <2>5. AnswerMatchesStage'
      BY <1>1, <2>3 DEF IInv, TypeOK, AnswerMatchesStage
    <2> QED
      BY <2>3, <2>4, <2>5 DEF IInv
  <1> QED
    BY <1>5, <1>6

\* The end of a C call leaves the operation active.
LEMMA CallReturnsKeeps ==
    ASSUME IInv, NEW c \in Callers, CallReturns(c)
    PROVE  IInv'
  <1>1. /\ stage[c] = "executing"
        /\ stage' = [stage EXCEPT ![c] = "returned"]
        /\ running' = running /\ queue' = queue /\ answer' = answer
        /\ \E r \in Results : result' = [result EXCEPT ![c] = r]
    BY DEF CallReturns
  <1>2. Active' = Active
    BY <1>1 DEF Active, IInv, TypeOK
  <1>3. TypeOK'
    BY <1>1 DEF IInv, TypeOK, Stages
  <1>4. (OneCallAtATime /\ RunningIsTrue /\ NoLostWakeup)'
    BY <1>1, <1>2 DEF IInv, OneCallAtATime, RunningIsTrue, NoLostWakeup
  <1>5. \A d \in Callers : (stage'[d] = "queued") <=> (stage[d] = "queued")
    BY <1>1 DEF IInv, TypeOK
  <1>6. \A i \in DOMAIN queue : queue[i] \in Callers
    BY ElementOfSeq, LenProperties DEF IInv, TypeOK
  <1>7. QueueHoldsWaiting'
    BY <1>1, <1>5, <1>6 DEF IInv, QueueHoldsWaiting
  <1>8. AnswerMatchesStage'
    BY <1>1 DEF IInv, TypeOK, AnswerMatchesStage
  <1> QED
    BY <1>3, <1>4, <1>7, <1>8 DEF IInv

\* The continuation of run() settles the only active operation.
LEMMA SettleKeeps ==
    ASSUME IInv, NEW c \in Callers, Settle(c)
    PROVE  IInv'
  <1> DEFINE st == [stage EXCEPT ![c] = "settled"]
  <1>1. /\ stage[c] = "returned"
        /\ Run(queue, st)
        /\ result' = result /\ answer' = answer
    BY DEF Settle
  <1>2. st \in [Callers -> Stages] /\ queue \in Seq(Callers)
    BY DEF IInv, TypeOK, Stages
  <1>3. \A d \in Callers : st[d] \notin {"executing", "returned"}
    BY <1>1 DEF IInv, TypeOK, OneCallAtATime, Active
  <1>4. \A i \in DOMAIN queue : queue[i] \in Callers
    BY <1>2, ElementOfSeq, LenProperties
  <1>5. \A d \in Callers : (st[d] = "queued") <=> (stage[d] = "queued")
    BY <1>1 DEF IInv, TypeOK
  <1>6. Holds(queue, st)
    BY <1>4, <1>5 DEF IInv, QueueHoldsWaiting, Holds
  <1>7. /\ running' \in BOOLEAN
        /\ queue' \in Seq(Callers)
        /\ stage' \in [Callers -> Stages]
        /\ (OneCallAtATime /\ RunningIsTrue /\ NoLostWakeup /\ QueueHoldsWaiting)'
        /\ \A d \in Callers : stage'[d] = "idle" <=> st[d] = "idle"
    BY <1>1, <1>2, <1>3, <1>6, RunKeepsQueue
  <1>8. TypeOK'
    BY <1>1, <1>7 DEF IInv, TypeOK
  <1>9. AnswerMatchesStage'
    BY <1>1, <1>7 DEF IInv, TypeOK, AnswerMatchesStage
  <1> QED
    BY <1>7, <1>8, <1>9 DEF IInv

\* A caller that resumes leaves the queue alone.
LEMMA ContinueKeeps ==
    ASSUME IInv, NEW c \in Callers, Continue(c)
    PROVE  IInv'
  <1>1. /\ stage[c] = "settled"
        /\ stage' = [stage EXCEPT ![c] = "idle"]
        /\ running' = running /\ queue' = queue /\ result' = result
        /\ answer' = [answer EXCEPT ![c] =
                        IF result[c] = "value" THEN "resolved" ELSE "rejected"]
    BY DEF Continue
  <1>2. Active' = Active
    BY <1>1 DEF Active, IInv, TypeOK
  <1>3. TypeOK'
    BY <1>1 DEF IInv, TypeOK, Stages, Answers
  <1>4. (OneCallAtATime /\ RunningIsTrue /\ NoLostWakeup)'
    BY <1>1, <1>2 DEF IInv, OneCallAtATime, RunningIsTrue, NoLostWakeup
  <1>5. \A d \in Callers : (stage'[d] = "queued") <=> (stage[d] = "queued")
    BY <1>1 DEF IInv, TypeOK
  <1>6. \A i \in DOMAIN queue : queue[i] \in Callers
    BY ElementOfSeq, LenProperties DEF IInv, TypeOK
  <1>7. QueueHoldsWaiting'
    BY <1>1, <1>5, <1>6 DEF IInv, QueueHoldsWaiting
  <1>8. AnswerMatchesStage'
    BY <1>1 DEF IInv, TypeOK, AnswerMatchesStage
  <1> QED
    BY <1>3, <1>4, <1>7, <1>8 DEF IInv

\* The invariant is inductive.
LEMMA NextKeepsIInv == IInv /\ [Next]_vars => IInv'
  <1> SUFFICES ASSUME IInv, [Next]_vars PROVE IInv'
    OBVIOUS
  <1>1. CASE Next
    BY <1>1, AddOperationKeeps, CallReturnsKeeps, SettleKeeps, ContinueKeeps DEF Next
  <1>2. CASE UNCHANGED vars
    BY <1>2 DEF vars, IInv, TypeOK, OneCallAtATime, RunningIsTrue, NoLostWakeup,
       QueueHoldsWaiting, AnswerMatchesStage, Active
  <1> QED
    BY <1>1, <1>2

\* Every reachable state satisfies the invariant.
LEMMA IInvHolds == SafeSpec => []IInv
  BY InitIInv, NextKeepsIInv, PTL DEF SafeSpec

-----------------------------------------------------------------------------
(* Safety *)

\* The variables keep their types, for any number of callers.
THEOREM TypeCorrect == SafeSpec => []TypeOK
  <1>1. IInv => TypeOK
    BY DEF IInv
  <1> QED
    BY <1>1, IInvHolds, PTL

\* queue.js never has two C calls in progress, so Asyncify never has to keep
\* two suspended stacks.
THEOREM MutualExclusion == SafeSpec => []OneCallAtATime
  <1>1. IInv => OneCallAtATime
    BY DEF IInv
  <1> QED
    BY <1>1, IInvHolds, PTL

\* The flag running of queue.js tells the truth, and no operation waits in a
\* queue that nobody will shift again.
THEOREM NobodyForgotten == SafeSpec => [](RunningIsTrue /\ NoLostWakeup /\ QueueHoldsWaiting)
  <1>1. IInv => RunningIsTrue /\ NoLostWakeup /\ QueueHoldsWaiting
    BY DEF IInv
  <1> QED
    BY <1>1, IInvHolds, PTL

\* While a disk object awaits its own operation, its call is executing and
\* the operation is still in the queue.
InnerWaits ==
    \A c \in Callers : (Inner[c] # NoCaller /\ stage[Inner[c]] # "idle") =>
        stage[c] = "executing" /\ stage[Inner[c]] = "queued"

\* A disk object that awaits an operation of this queue waits for ever.
THEOREM NestedMountHangs == SafeSpec => []InnerNeverStarts
  <1>1. Init => InnerWaits
    BY InnerAssumption DEF Init, InnerWaits
  <1>2. IInv /\ InnerWaits /\ [Next]_vars => InnerWaits'
    <2> SUFFICES ASSUME IInv, InnerWaits, [Next]_vars PROVE InnerWaits'
      OBVIOUS
    <2> SUFFICES ASSUME NEW o \in Callers, Inner[o] # NoCaller,
                        stage'[Inner[o]] # "idle"
                 PROVE  stage'[o] = "executing" /\ stage'[Inner[o]] = "queued"
      BY DEF InnerWaits
    <2>1. Inner[o] \in Callers
      BY InnerAssumption
    <2>2. ASSUME NEW c \in Callers, AddOperation(c)
          PROVE  stage'[o] = "executing" /\ stage'[Inner[o]] = "queued"
      <3>1. CASE running
        <4>1. stage' = [stage EXCEPT ![c] = "queued"] /\ stage[c] = "idle"
          BY <2>2, <3>1 DEF AddOperation
        <4> QED
          BY <4>1, <2>1, <2>2 DEF AddOperation, InnerWaits, IInv, TypeOK
      <3>2. CASE ~running
        <4>1. Active = {} /\ queue = <<>>
          BY <3>2 DEF IInv, RunningIsTrue, NoLostWakeup
        <4>2. c # Inner[o] /\ stage[Inner[o]] = "idle"
          BY <2>1, <2>2, <4>1 DEF AddOperation, Active, InnerWaits
        <4>3. Append(queue, c) # <<>> /\ Head(Append(queue, c)) = c
          BY <4>1, ShiftSingle
        <4>4. stage' = [[stage EXCEPT ![c] = "queued"] EXCEPT ![c] = "executing"]
          BY <2>2, <3>2, <4>3 DEF AddOperation, Run
        <4>5. stage'[Inner[o]] = "idle"
          BY <2>1, <4>2, <4>4 DEF IInv, TypeOK
        <4> QED
          BY <4>5
      <3> QED
        BY <3>1, <3>2
    <2>3. ASSUME NEW c \in Callers, CallReturns(c)
          PROVE  stage'[o] = "executing" /\ stage'[Inner[o]] = "queued"
      <3>1. stage' = [stage EXCEPT ![c] = "returned"] /\ stage[c] = "executing"
        BY <2>3 DEF CallReturns
      <3>2. stage[Inner[o]] # "idle"
        BY <2>1, <3>1 DEF IInv, TypeOK
      <3>3. c # o /\ c # Inner[o]
        BY <2>3, <3>1, <3>2 DEF CallReturns, AwaitsInner, InnerWaits
      <3> QED
        BY <2>1, <3>1, <3>2, <3>3 DEF InnerWaits, IInv, TypeOK
    <2>4. ASSUME NEW c \in Callers, Settle(c)
          PROVE  stage'[o] = "executing" /\ stage'[Inner[o]] = "queued"
      <3>1. stage[c] = "returned" /\ Active = {c}
        BY <2>4 DEF Settle, IInv, OneCallAtATime, Active
      <3>2. stage[Inner[o]] = "idle"
        BY <3>1 DEF InnerWaits, Active
      <3>3. CASE queue = <<>>
        <4>1. stage' = [stage EXCEPT ![c] = "settled"]
          BY <2>4, <3>3 DEF Settle, Run
        <4> QED
          BY <4>1, <3>1, <3>2, <2>1 DEF IInv, TypeOK
      <3>4. CASE queue # <<>>
        <4>1. stage' = [[stage EXCEPT ![c] = "settled"] EXCEPT ![Head(queue)] = "executing"]
          BY <2>4, <3>4 DEF Settle, Run
        <4>2. Head(queue) = queue[1] /\ 1 \in DOMAIN queue
          BY <3>4, ShiftWaiting DEF IInv, TypeOK
        <4>3. stage[Head(queue)] = "queued"
          BY <4>2 DEF IInv, QueueHoldsWaiting
        <4> QED
          BY <4>1, <4>3, <3>1, <3>2, <2>1 DEF IInv, TypeOK
      <3> QED
        BY <3>3, <3>4
    <2>5. ASSUME NEW c \in Callers, Continue(c)
          PROVE  stage'[o] = "executing" /\ stage'[Inner[o]] = "queued"
      BY <2>1, <2>5 DEF Continue, InnerWaits, IInv, TypeOK
    <2>6. CASE UNCHANGED vars
      BY <2>6 DEF vars, InnerWaits
    <2> QED
      BY <2>2, <2>3, <2>4, <2>5, <2>6 DEF Next
  <1>3. InnerWaits => InnerNeverStarts
    BY DEF InnerWaits, InnerNeverStarts
  <1> QED
    BY <1>1, <1>2, <1>3, IInvHolds, PTL DEF SafeSpec

-----------------------------------------------------------------------------
(* Refinement *)

\* The line is the queue, behind the active operation if there is one.
LEMMA LineIs ==
    ASSUME IInv
    PROVE  /\ Active = {} => Line = queue
           /\ \A c \in Active : Line = <<c>> \o queue
  <1>1. ASSUME NEW c \in Active
        PROVE  (CHOOSE d \in Active : TRUE) = c
    BY <1>1 DEF IInv, OneCallAtATime
  <1> QED
    BY <1>1 DEF Line

\* The same of the next state.
LEMMA LineIsPrime ==
    ASSUME IInv'
    PROVE  /\ Active' = {} => Line' = queue'
           /\ \A c \in Active' : Line' = <<c>> \o queue'
  <1>1. ASSUME NEW c \in Active'
        PROVE  (CHOOSE d \in Active' : TRUE) = c
    BY <1>1 DEF IInv, OneCallAtATime
  <1> QED
    BY <1>1 DEF Line

\* Adding an operation is a request of the server.
LEMMA AddOperationRequests ==
    ASSUME IInv, IInv', NEW c \in Callers, AddOperation(c)
    PROVE  Abstract!Request(c)
  <1>1. /\ stage[c] = "idle"
        /\ answer' = [answer EXCEPT ![c] = "pending"]
        /\ result' = result
    BY DEF AddOperation
  <1>2. Told[c] # "pending"
    BY <1>1 DEF Told, IInv, AnswerMatchesStage
  <1>3. queue \in Seq(Callers)
    BY DEF IInv, TypeOK
  <1>4. CASE running
    <2>1. /\ queue' = Append(queue, c)
          /\ stage' = [stage EXCEPT ![c] = "queued"]
      BY <1>4 DEF AddOperation
    <2>2. Active' = Active
      BY <1>1, <2>1 DEF Active, IInv, TypeOK
    <2>3. PICK a \in Active : TRUE
      BY <1>4 DEF IInv, RunningIsTrue
    <2>4. Line = <<a>> \o queue /\ Line' = <<a>> \o Append(queue, c)
      BY <2>1, <2>2, <2>3, LineIs, LineIsPrime
    <2>5. <<a>> \o Append(queue, c) = Append(<<a>> \o queue, c)
      BY <1>3, <2>3 DEF Active
    <2>6. Told' = [Told EXCEPT ![c] = "pending"]
      BY <1>1, <2>1 DEF Told, IInv, TypeOK
    <2> QED
      BY <1>2, <2>4, <2>5, <2>6 DEF Abstract!Request
  <1>5. CASE ~running
    <2>1. Active = {} /\ queue = <<>>
      BY <1>5 DEF IInv, RunningIsTrue, NoLostWakeup
    <2>2. /\ Append(queue, c) = <<c>>
          /\ Append(queue, c) # <<>>
          /\ Head(Append(queue, c)) = c
          /\ Tail(Append(queue, c)) = <<>>
      BY <2>1, ShiftSingle
    <2>3. /\ queue' = <<>>
          /\ stage' = [[stage EXCEPT ![c] = "queued"] EXCEPT ![c] = "executing"]
      BY <1>5, <2>2 DEF AddOperation, Run
    <2>4. c \in Active'
      BY <2>3 DEF Active, IInv, TypeOK
    <2>5. Line = <<>> /\ Line' = <<c>> \o <<>>
      BY <2>1, <2>3, <2>4, LineIs, LineIsPrime
    <2>6. <<c>> \o <<>> = Append(<<>>, c)
      OBVIOUS
    <2>7. Told' = [Told EXCEPT ![c] = "pending"]
      BY <1>1, <2>3 DEF Told, IInv, TypeOK
    <2> QED
      BY <1>2, <2>5, <2>6, <2>7 DEF Abstract!Request
  <1> QED
    BY <1>4, <1>5

\* Settling an operation is the server answering the head of its line.
LEMMA SettleServes ==
    ASSUME IInv, IInv', NEW c \in Callers, Settle(c)
    PROVE  Abstract!Serve
  <1>1. /\ stage[c] = "returned" /\ c \in Active
        /\ Run(queue, [stage EXCEPT ![c] = "settled"])
        /\ result' = result /\ answer' = answer
    BY DEF Settle, Active
  <1>2. queue \in Seq(Callers) /\ Line = <<c>> \o queue
    BY <1>1, LineIs DEF IInv, TypeOK
  <1>3. Line # <<>> /\ Head(Line) = c /\ Tail(Line) = queue
    BY <1>2
  <1>4. Line' = queue /\ stage' \in [Callers -> Stages] /\ stage'[c] = "settled"
        /\ \A d \in Callers \ {c} : stage'[d] # "settled" <=> stage[d] # "settled"
    <2>1. CASE queue = <<>>
      <3>1. queue' = queue /\ stage' = [stage EXCEPT ![c] = "settled"]
        BY <1>1, <2>1 DEF Run
      <3>2. Active' = {}
        BY <1>1, <3>1 DEF Active, IInv, TypeOK, OneCallAtATime
      <3> QED
        BY <3>1, <3>2, LineIsPrime DEF IInv, TypeOK, Stages
    <2>2. CASE queue # <<>>
      <3>1. /\ queue' = Tail(queue)
            /\ stage' = [[stage EXCEPT ![c] = "settled"] EXCEPT ![Head(queue)] = "executing"]
        BY <1>1, <2>2 DEF Run
      <3>2. /\ Head(queue) \in Callers
            /\ Head(queue) = queue[1] /\ 1 \in DOMAIN queue
        BY <1>2, <2>2, ShiftWaiting
      <3>3. stage[Head(queue)] = "queued"
        BY <3>2 DEF IInv, QueueHoldsWaiting
      <3>4. Head(queue) \in Active'
        BY <3>1, <3>2, <3>3 DEF Active, IInv, TypeOK
      <3>5. Line' = <<Head(queue)>> \o Tail(queue)
        BY <3>1, <3>4, LineIsPrime
      <3>6. <<Head(queue)>> \o Tail(queue) = queue
        BY <1>2, <2>2
      <3> QED
        BY <1>1, <3>1, <3>2, <3>3, <3>5, <3>6 DEF IInv, TypeOK, Stages
    <2> QED
      BY <2>1, <2>2
  <1>5. \E a \in Abstract!Answers : Told' = [Told EXCEPT ![c] = a]
    <2> DEFINE a == IF result[c] = "value" THEN "resolved" ELSE "rejected"
    <2>1. a \in Abstract!Answers
      BY DEF Abstract!Answers
    <2>2. Told' = [Told EXCEPT ![c] = a]
      BY <1>1, <1>4 DEF Told
    <2> QED
      BY <2>1, <2>2
  <1> QED
    BY <1>3, <1>4, <1>5 DEF Abstract!Serve

\* The other steps of the code are invisible to the server's clients.
LEMMA RestStutters ==
    ASSUME IInv, IInv', NEW c \in Callers, CallReturns(c) \/ Continue(c)
    PROVE  UNCHANGED Abstract!vars
  <1>1. CASE CallReturns(c)
    <2>1. /\ stage[c] = "executing"
          /\ stage' = [stage EXCEPT ![c] = "returned"]
          /\ queue' = queue /\ answer' = answer
          /\ \E r \in Results : result' = [result EXCEPT ![c] = r]
      BY <1>1 DEF CallReturns
    <2>2. Active' = Active
      BY <2>1 DEF Active, IInv, TypeOK
    <2>3. Told' = Told
      BY <2>1 DEF Told, IInv, TypeOK
    <2> QED
      BY <2>1, <2>2, <2>3 DEF Line, Abstract!vars
  <1>2. CASE Continue(c)
    <2>1. /\ stage[c] = "settled"
          /\ stage' = [stage EXCEPT ![c] = "idle"]
          /\ queue' = queue /\ result' = result
          /\ answer' = [answer EXCEPT ![c] =
                          IF result[c] = "value" THEN "resolved" ELSE "rejected"]
      BY <1>2 DEF Continue
    <2>2. Active' = Active
      BY <2>1 DEF Active, IInv, TypeOK
    <2>3. Told' = Told
      BY <2>1 DEF Told, IInv, TypeOK
    <2> QED
      BY <2>1, <2>2, <2>3 DEF Line, Abstract!vars
  <1> QED
    BY <1>1, <1>2

\* queue.js implements the first-come first-served server: calls are settled
\* in the order they were added, one at a time, each with its own result.
THEOREM QueueIsServer == SafeSpec => ImplementsServer
  <1>1. Init => Abstract!Init
    <2> SUFFICES ASSUME Init PROVE Abstract!Init
      OBVIOUS
    <2>1. Active = {}
      BY DEF Init, Active
    <2> QED
      BY <2>1 DEF Init, Abstract!Init, Line, Told
  <1>2. IInv /\ IInv' /\ [Next]_vars => [Abstract!Next]_Abstract!vars
    <2> SUFFICES ASSUME IInv, IInv', [Next]_vars
                 PROVE  [Abstract!Next]_Abstract!vars
      OBVIOUS
    <2>1. CASE Next
      BY <2>1, AddOperationRequests, SettleServes, RestStutters DEF Next, Abstract!Next
    <2>2. CASE UNCHANGED vars
      BY <2>2 DEF vars, Abstract!vars, Line, Told, Active
    <2> QED
      BY <2>1, <2>2
  <1> QED
    BY <1>1, <1>2, IInvHolds, PTL DEF SafeSpec, ImplementsServer, Abstract!Spec

=============================================================================
