------------------------- MODULE SessionActorProofs -------------------------
(***************************************************************************)
(* Proofs about SessionActor, for every set of requests: the inductive     *)
(* invariant IInv, the safety properties that follow from it, and that the *)
(* actor implements RequestPort.                                           *)
(***************************************************************************)
EXTENDS SessionActor, TLAPS

Items == Requests \cup {STOP}

LEMMA AppendItem ==
    ASSUME NEW S, NEW q \in Seq(S), NEW x \in S
    PROVE  /\ Append(q, x) \in Seq(S)
           /\ Len(q) \in Nat
           /\ Len(Append(q, x)) = Len(q) + 1
           /\ \A i \in 1..Len(q) : Append(q, x)[i] = q[i]
           /\ Append(q, x)[Len(q) + 1] = x
    OBVIOUS

LEMMA TakeItem ==
    ASSUME NEW S, NEW q \in Seq(S), q # <<>>
    PROVE  /\ Tail(q) \in Seq(S)
           /\ Len(q) \in Nat \ {0}
           /\ Len(Tail(q)) = Len(q) - 1
           /\ Head(q) = q[1]
           /\ Head(q) \in S
           /\ \A i \in 1..(Len(q) - 1) : Tail(q)[i] = q[i + 1]
    OBVIOUS

LEMMA EmptyQueue == Len(<<>>) = 0 /\ <<>> \in Seq(Items)
    OBVIOUS

-----------------------------------------------------------------------------
(* The invariant holds initially.                                          *)

LEMMA InitInv == Init => IInv
<1> SUFFICES ASSUME Init PROVE IInv
    OBVIOUS
<1> USE SentinelsDistinct, EmptyQueue
<1>1. TypeOK
    BY DEF Init, TypeOK, OwnerStates, TaskStates, FutStates, Items
<1>2. LifeCycle /\ Holding /\ PendingAccounted
    BY DEF Init, LifeCycle, Holding, PendingAccounted
<1>3. QueueShape
    BY DEF Init, QueueShape
<1>4. inflight \in Requests => fut[inflight] # "unused"
    BY DEF Init
<1> QED BY <1>1, <1>2, <1>3, <1>4 DEF IInv

-----------------------------------------------------------------------------
(* Every step preserves it: the owner, the callers, the task.              *)

LEMMA OwnerInv == IInv /\ Owner => IInv'
<1> SUFFICES ASSUME IInv, Owner PROVE IInv'
    OBVIOUS
<1> USE SentinelsDistinct DEF IInv, TypeOK, OwnerStates, TaskStates, FutStates
<1>1. CASE Start
  <2>1. TypeOK' /\ LifeCycle' /\ Holding'
      BY <1>1 DEF Start, LifeCycle, Holding
  <2>2. QueueShape'
      BY <1>1, EmptyQueue DEF Start, QueueShape, LifeCycle, HasTask
  <2>3. PendingAccounted'
      BY <1>1 DEF Start, PendingAccounted, InQueue
  <2> QED BY <1>1, <2>1, <2>2, <2>3 DEF Start
<1>2. CASE StartReturns
  <2>1. TypeOK' /\ LifeCycle' /\ Holding'
      BY <1>2 DEF StartReturns, LifeCycle, Holding
  <2>2. QueueShape'
      BY <1>2 DEF StartReturns, QueueShape, HasTask
  <2>3. PendingAccounted'
      BY <1>2 DEF StartReturns, PendingAccounted, InQueue
  <2> QED BY <1>2, <2>1, <2>2, <2>3 DEF StartReturns
<1>3. CASE CancelStart
  <2>1. TypeOK' /\ LifeCycle' /\ Holding'
      BY <1>3 DEF CancelStart, LifeCycle, Holding
  <2>2. QueueShape'
      BY <1>3 DEF CancelStart, QueueShape, HasTask
  <2>3. PendingAccounted'
      BY <1>3 DEF CancelStart, PendingAccounted, InQueue
  <2> QED BY <1>3, <2>1, <2>2, <2>3 DEF CancelStart
<1>4. CASE StopBegins
  <2>1. HasTask /\ ~HasTask'
      BY <1>4 DEF StopBegins, HasTask
  <2>2. LifeCycle' /\ Holding'
      BY <1>4 DEF StopBegins, LifeCycle, Holding
  <2>3. CASE pc = "done"
      BY <1>4, <2>1, <2>2, <2>3
         DEF StopBegins, QueueShape, PendingAccounted, InQueue
  <2>4. CASE pc # "done"
    <3>1. queue' = Append(queue, STOP)
        BY <1>4, <2>4 DEF StopBegins
    <3>2. /\ queue' \in Seq(Requests \cup {STOP})
          /\ Len(queue) \in Nat
          /\ Len(queue') = Len(queue) + 1
          /\ \A i \in 1..Len(queue) : queue'[i] = queue[i]
          /\ queue'[Len(queue) + 1] = STOP
        BY <3>1, AppendItem
    <3>3. pc # "unborn"
        BY <1>4 DEF StopBegins, LifeCycle
    <3>4. QueueShape'
        BY <1>4, <2>1, <2>4, <3>2, <3>3 DEF StopBegins, QueueShape
    <3>5. PendingAccounted'
        BY <1>4, <3>2 DEF StopBegins, PendingAccounted, InQueue
    <3> QED BY <1>4, <2>2, <3>2, <3>4, <3>5 DEF StopBegins
  <2> QED BY <2>3, <2>4
<1>5. CASE CancelStop
  <2>1. TypeOK' /\ LifeCycle' /\ Holding'
      BY <1>5 DEF CancelStop, LifeCycle, Holding
  <2>2. QueueShape'
      BY <1>5 DEF CancelStop, QueueShape, HasTask
  <2>3. PendingAccounted'
      BY <1>5 DEF CancelStop, PendingAccounted, InQueue
  <2> QED BY <1>5, <2>1, <2>2, <2>3 DEF CancelStop
<1>6. CASE StopReturns
  <2>1. TypeOK' /\ LifeCycle' /\ Holding'
      BY <1>6 DEF StopReturns, LifeCycle, Holding
  <2>2. QueueShape'
      BY <1>6, EmptyQueue DEF StopReturns, QueueShape, HasTask
  <2>3. PendingAccounted'
      BY <1>6 DEF StopReturns, PendingAccounted, InQueue
  <2> QED BY <1>6, <2>1, <2>2, <2>3 DEF StopReturns
<1> QED BY <1>1, <1>2, <1>3, <1>4, <1>5, <1>6 DEF Owner

LEMMA RequesterInv == IInv /\ Requester => IInv'
<1> SUFFICES ASSUME IInv, NEW r \in Requests, Submit(r) \/ Withdraw(r)
             PROVE  IInv'
    BY DEF Requester
<1> USE SentinelsDistinct DEF IInv, TypeOK, OwnerStates, TaskStates, FutStates
<1>1. CASE Submit(r) /\ HasTask /\ pc # "done"
  <2>1. queue' = Append(queue, r) /\ fut' = [fut EXCEPT ![r] = "pending"]
      BY <1>1 DEF Submit
  <2>2. /\ queue' \in Seq(Requests \cup {STOP})
        /\ Len(queue) \in Nat
        /\ Len(queue') = Len(queue) + 1
        /\ \A i \in 1..Len(queue) : queue'[i] = queue[i]
        /\ queue'[Len(queue) + 1] = r
      BY <2>1, AppendItem
  <2>3. \A i \in 1..Len(queue) : queue[i] # STOP /\ queue[i] # r
      BY <1>1 DEF Submit, QueueShape
  <2>4. r # inflight
      BY <1>1 DEF Submit
  <2>5. TypeOK' /\ LifeCycle' /\ Holding'
      BY <1>1, <2>1, <2>2 DEF Submit, LifeCycle, Holding
  <2>6. pc \notin {"unborn", "done"}
      BY <1>1 DEF Submit, LifeCycle
  <2>7. \A i \in 1..Len(queue) : queue[i] \in Requests
      BY <2>3
  <2>8. QueueShape'
    <3>1. \A i, j \in 1..Len(queue') : queue'[i] = queue'[j] => i = j
        BY <2>2, <2>3 DEF QueueShape
    <3>2. \A i \in 1..Len(queue') : queue'[i] # STOP
        BY <2>2, <2>3
    <3>3. \A i \in 1..Len(queue') : fut'[queue'[i]] # "unused" /\ queue'[i] # inflight
      <4>1. fut'[r] = "pending"
          BY <2>1
      <4>2. \A i \in 1..Len(queue) : fut'[queue[i]] = fut[queue[i]]
          BY <2>1, <2>3, <2>7
      <4>3. \A i \in 1..Len(queue) : fut[queue[i]] # "unused" /\ queue[i] # inflight
          BY <2>3 DEF QueueShape
      <4> QED BY <2>2, <2>4, <4>1, <4>2, <4>3
    <3> QED BY <1>1, <2>6, <3>1, <3>2, <3>3 DEF Submit, QueueShape
  <2>9. PendingAccounted'
      BY <1>1, <2>1, <2>2 DEF Submit, PendingAccounted, InQueue
  <2>10. inflight' \in Requests => fut'[inflight'] # "unused"
      BY <1>1, <2>1 DEF Submit
  <2> QED BY <2>5, <2>8, <2>9, <2>10
<1>2. CASE Submit(r) /\ ~(HasTask /\ pc # "done")
  <2>1. queue' = queue /\ fut' = [fut EXCEPT ![r] = "error"]
      BY <1>2 DEF Submit
  <2>2. TypeOK' /\ LifeCycle' /\ Holding'
      BY <1>2, <2>1 DEF Submit, LifeCycle, Holding
  <2>3. QueueShape'
      BY <1>2, <2>1 DEF Submit, QueueShape, HasTask
  <2>4. PendingAccounted'
      BY <1>2, <2>1 DEF Submit, PendingAccounted, InQueue
  <2> QED BY <1>2, <2>1, <2>2, <2>3, <2>4 DEF Submit
<1>3. CASE Withdraw(r)
  <2>1. TypeOK' /\ LifeCycle' /\ Holding'
      BY <1>3 DEF Withdraw, LifeCycle, Holding
  <2>2. QueueShape'
      BY <1>3 DEF Withdraw, QueueShape, HasTask
  <2>3. PendingAccounted'
      BY <1>3 DEF Withdraw, PendingAccounted, InQueue
  <2> QED BY <1>3, <2>1, <2>2, <2>3 DEF Withdraw
<1> QED BY <1>1, <1>2, <1>3

LEMMA TaskInv == IInv /\ Task => IInv'
<1> SUFFICES ASSUME IInv, Task PROVE IInv'
    OBVIOUS
<1> USE SentinelsDistinct DEF IInv, TypeOK, OwnerStates, TaskStates, FutStates
<1>1. CASE BootSucceeds
  <2>1. TypeOK' /\ LifeCycle' /\ Holding'
      BY <1>1 DEF BootSucceeds, LifeCycle, Holding
  <2>2. QueueShape'
      BY <1>1 DEF BootSucceeds, QueueShape, HasTask
  <2>3. PendingAccounted'
      BY <1>1 DEF BootSucceeds, PendingAccounted, InQueue
  <2> QED BY <1>1, <2>1, <2>2, <2>3 DEF BootSucceeds
<1>2. CASE TakeStop
  <2>1. /\ queue' \in Seq(Requests \cup {STOP})
        /\ Len(queue) \in Nat \ {0}
        /\ Len(queue') = Len(queue) - 1
        /\ queue[1] = STOP
        /\ \A i \in 1..(Len(queue) - 1) : queue'[i] = queue[i + 1]
      BY <1>2, TakeItem DEF TakeStop
  <2>2. Len(queue) = 1 /\ Len(queue') = 0
      BY <2>1 DEF QueueShape
  <2>3. LifeCycle' /\ Holding'
      BY <1>2 DEF TakeStop, LifeCycle, Holding
  <2>4. QueueShape'
      BY <1>2, <2>2 DEF TakeStop, QueueShape
  <2>5. PendingAccounted'
      BY <1>2, <2>1, <2>2 DEF TakeStop, PendingAccounted, InQueue
  <2> QED BY <1>2, <2>1, <2>3, <2>4, <2>5 DEF TakeStop
<1>3. CASE TakeRequest
  <2>1. /\ queue' \in Seq(Requests \cup {STOP})
        /\ Len(queue) \in Nat \ {0}
        /\ Len(queue') = Len(queue) - 1
        /\ Head(queue) = queue[1]
        /\ Head(queue) \in Requests
        /\ \A i \in 1..(Len(queue) - 1) : queue'[i] = queue[i + 1]
      BY <1>3, TakeItem DEF TakeRequest
  <2>2. inflight = NONE
      BY <1>3 DEF TakeRequest, Holding
  <2>3. inflight' \in {NONE, queue[1]}
      BY <1>3, <2>1, <2>2 DEF TakeRequest
  <2>4. TypeOK' /\ LifeCycle' /\ Holding'
      BY <1>3, <2>1, <2>2 DEF TakeRequest, LifeCycle, Holding
  <2>5. QueueShape'
    <3>1. \A i \in 1..Len(queue') : i + 1 \in 1..Len(queue) /\ queue'[i] = queue[i + 1]
        BY <2>1
    <3>2. \A i \in 1..Len(queue') : queue'[i] # queue[1]
        BY <2>1, <3>1 DEF QueueShape
    <3>3. \A i \in 1..Len(queue') : queue'[i] \in Requests \cup {STOP}
        BY <2>1, <3>1
    <3>4. \A i \in 1..Len(queue') :
              queue'[i] # STOP => fut[queue'[i]] # "unused" /\ queue'[i] # inflight'
        BY <2>3, <3>1, <3>2, <3>3 DEF QueueShape
    <3>5. \A i, j \in 1..Len(queue') : queue'[i] = queue'[j] => i = j
        BY <2>1, <3>1 DEF QueueShape
    <3>6. \A i \in 1..Len(queue') : queue'[i] = STOP => i = Len(queue') /\ ~HasTask
        BY <2>1, <3>1 DEF QueueShape
    <3>7. pc' \notin {"unborn", "done"} /\ UNCHANGED <<owner, fut>>
        BY <1>3 DEF TakeRequest
    <3> QED BY <3>4, <3>5, <3>6, <3>7 DEF QueueShape, HasTask
  <2>6. PendingAccounted'
    <3>1. SUFFICES ASSUME NEW r \in Requests, fut[r] = "pending"
                   PROVE  InQueue(r)' \/ inflight' = r
        BY <1>3 DEF TakeRequest, PendingAccounted
    <3>2. PICK i \in 1..Len(queue) : queue[i] = r
        BY <2>2, <3>1 DEF PendingAccounted, InQueue
    <3>3. CASE i = 1
        BY <1>3, <2>1, <3>1, <3>2, <3>3 DEF TakeRequest
    <3>4. CASE i # 1
      <4>1. i - 1 \in 1..(Len(queue) - 1)
          BY <2>1, <3>4
      <4>2. queue'[i - 1] = queue[(i - 1) + 1]
          BY <2>1, <4>1
      <4>3. i - 1 \in 1..Len(queue') /\ queue'[i - 1] = r
          BY <2>1, <3>2, <4>1, <4>2
      <4> QED BY <4>3 DEF InQueue
    <3> QED BY <3>3, <3>4
  <2>7. inflight' \in Requests => fut'[inflight'] # "unused"
      BY <1>3, <2>1, <2>2 DEF TakeRequest
  <2> QED BY <2>4, <2>5, <2>6, <2>7
<1>4. CASE Answered
  <2>1. TypeOK' /\ LifeCycle' /\ Holding'
      BY <1>4 DEF Answered, LifeCycle, Holding
  <2>2. QueueShape'
      BY <1>4 DEF Answered, QueueShape, HasTask
  <2>3. PendingAccounted'
      BY <1>4 DEF Answered, PendingAccounted, InQueue
  <2> QED BY <1>4, <2>1, <2>2, <2>3 DEF Answered
<1>5. CASE AnsweredLate
  <2>1. TypeOK' /\ LifeCycle' /\ Holding'
      BY <1>5 DEF AnsweredLate, LifeCycle, Holding
  <2>2. QueueShape'
      BY <1>5 DEF AnsweredLate, QueueShape, HasTask
  <2>3. PendingAccounted'
      BY <1>5 DEF AnsweredLate, PendingAccounted, InQueue
  <2> QED BY <1>5, <2>1, <2>2, <2>3 DEF AnsweredLate
<1>6. CASE SessionBreaks
  <2>1. TypeOK' /\ LifeCycle' /\ Holding'
      BY <1>6 DEF SessionBreaks, LifeCycle, Holding
  <2>2. QueueShape'
      BY <1>6 DEF SessionBreaks, QueueShape, HasTask
  <2>3. PendingAccounted'
      BY <1>6 DEF SessionBreaks, PendingAccounted, InQueue
  <2> QED BY <1>6, <2>1, <2>2, <2>3 DEF SessionBreaks
<1>7. CASE TaskEnds
  <2>1. TypeOK'
      BY <1>7, EmptyQueue DEF TaskEnds, Drained, Items
  <2>2. LifeCycle' /\ Holding'
      BY <1>7 DEF TaskEnds, LifeCycle, Holding
  <2>3. QueueShape'
      BY <1>7, EmptyQueue DEF TaskEnds, QueueShape
  <2>4. PendingAccounted'
      BY <1>7 DEF TaskEnds, Drained, PendingAccounted
  <2>5. inflight' \in Requests => fut'[inflight'] # "unused"
      BY <1>7 DEF TaskEnds, Drained
  <2> QED BY <2>1, <2>2, <2>3, <2>4, <2>5
<1> QED BY <1>1, <1>2, <1>3, <1>4, <1>5, <1>6, <1>7 DEF Task

LEMMA StutterInv == IInv /\ UNCHANGED vars => IInv'
    BY DEF IInv, vars, TypeOK, LifeCycle, Holding, QueueShape, HasTask,
           PendingAccounted, InQueue

LEMMA NextInv == IInv /\ [Next]_vars => IInv'
    BY OwnerInv, RequesterInv, TaskInv, StutterInv DEF Next

\* The invariant of the actor, for every set of requests.
THEOREM Invariance == Spec => []IInv
<1>1. Init => IInv
    BY InitInv
<1>2. IInv /\ [Next]_vars => IInv'
    BY NextInv
<1> QED BY <1>1, <1>2, PTL DEF Spec

-----------------------------------------------------------------------------
(* What follows from the invariant in every state.                         *)

\* Type correctness (recorder.py:109-202).
THEOREM TypeCorrect == Spec => []TypeOK
    BY Invariance, PTL DEF IInv

\* No future that waits is ever forgotten by the actor.
THEOREM Accounted == Spec => []PendingAccounted
    BY Invariance, PTL DEF IInv

LEMMA InvOnlyInflightLost == IInv => OnlyInflightLost
    BY EmptyQueue DEF IInv, QueueShape, PendingAccounted, InQueue, OnlyInflightLost

\* When the task has ended, only the caller of the call it broke under waits.
THEOREM LostIsInflight == Spec => []OnlyInflightLost
    BY Invariance, InvOnlyInflightLost, PTL

LEMMA InvJoined == IInv => JoinedBeforeLeaving
    BY DEF IInv, LifeCycle, JoinedBeforeLeaving

\* stop() always joins the task, even when it is cancelled.
THEOREM StopJoins == Spec => []JoinedBeforeLeaving
    BY Invariance, InvJoined, PTL

\* Together: for every set of requests, however the session breaks and whoever
\* is cancelled, no caller and no task is lost sight of (recorder.py:150-202).
THEOREM NobodyForgotten == Spec => []ActorAccounted
    BY TypeCorrect, Accounted, LostIsInflight, StopJoins, PTL DEF ActorAccounted

-----------------------------------------------------------------------------
(* What a step may never do.                                               *)

LEMMA StepCleanStop ==
    IInv /\ TakeStop => \A r \in Requests : fut[r] # "pending"
<1> SUFFICES ASSUME IInv, TakeStop, NEW r \in Requests, fut[r] = "pending"
             PROVE  FALSE
    OBVIOUS
<1>1. Len(queue) \in Nat \ {0} /\ queue[1] = STOP
    BY TakeItem DEF TakeStop, IInv, TypeOK
<1>2. Len(queue) = 1
  <2>1. 1 \in 1..Len(queue)
      BY <1>1
  <2>2. \A i \in 1..Len(queue) : queue[i] = STOP => i = Len(queue)
      BY DEF IInv, QueueShape
  <2> QED BY <1>1, <2>1, <2>2
<1>3. inflight # r
    BY SentinelsDistinct DEF TakeStop, IInv, Holding
<1>4. PICK i \in 1..Len(queue) : queue[i] = r
    BY <1>3 DEF IInv, PendingAccounted, InQueue
<1> QED BY <1>1, <1>2, <1>4, SentinelsDistinct

\* A clean stop fails no accepted request: the sentinel is behind all of them.
THEOREM CleanStop == Spec => CleanStopFailsNobody
<1>1. IInv /\ [Next]_vars =>
          [TakeStop => \A r \in Requests : fut[r] # "pending"]_vars
    BY StepCleanStop
<1> QED BY <1>1, Invariance, PTL DEF Spec, CleanStopFailsNobody

LEMMA StepNoOvertaking ==
    ASSUME IInv, Next, NEW r \in Requests, NEW s \in Requests,
           Ahead(r, s), fut[r] = "pending", inflight # s
    PROVE  inflight' # s
<1> SUFFICES ASSUME inflight' = s PROVE FALSE
    OBVIOUS
<1>1. TakeRequest
    BY SentinelsDistinct
       DEF Next, Owner, Requester, Task, Start, StartReturns, CancelStart,
           StopBegins, CancelStop, StopReturns, Submit, Withdraw, BootSucceeds,
           TakeStop, Answered, AnsweredLate, SessionBreaks, TaskEnds
<1>2. PICK i, j \in 1..Len(queue) : i < j /\ queue[i] = r /\ queue[j] = s
    BY DEF Ahead
<1>3. /\ Head(queue) = queue[1]
      /\ Len(queue) \in Nat \ {0}
    BY <1>1, TakeItem DEF TakeRequest, IInv, TypeOK
<1>4. s = queue[1]
    BY <1>1, <1>3, SentinelsDistinct DEF TakeRequest
<1>5. j = 1
    BY <1>2, <1>3, <1>4 DEF IInv, QueueShape
<1> QED BY <1>2, <1>3, <1>5

\* Requests are executed in the order of their submission.
THEOREM Fifo == Spec => NoOvertaking
<1> DEFINE InOrder ==
        \A r, s \in Requests :
            Ahead(r, s) /\ fut[r] = "pending" /\ inflight # s => inflight' # s
<1>1. IInv /\ [Next]_vars => [InOrder]_vars
    BY StepNoOvertaking
<1> QED BY <1>1, Invariance, PTL DEF Spec, NoOvertaking

\* The queue serves requests and sentinel in the order they came.
THEOREM InOrder == Spec => ServedInOrder
    BY Fifo, CleanStop DEF ServedInOrder

-----------------------------------------------------------------------------
(* The actor implements RequestPort.                                       *)

LEMMA OwnerImplements == IInv /\ Owner => [Port!Next]_(Port!vars)
<1> SUFFICES ASSUME IInv, Owner PROVE [Port!Next]_(Port!vars)
    OBVIOUS
<1> USE DEF IInv, TypeOK, LifeCycle, Port!vars
<1>1. CASE Start
    BY <1>1 DEF Start, Port!Next, Port!Open
<1>2. CASE StartReturns
    BY <1>2 DEF StartReturns
<1>3. CASE CancelStart
    BY <1>3 DEF CancelStart
<1>4. CASE StopBegins
    BY <1>4 DEF StopBegins
<1>5. CASE CancelStop
    BY <1>5 DEF CancelStop
<1>6. CASE StopReturns
    BY <1>6 DEF StopReturns
<1> QED BY <1>1, <1>2, <1>3, <1>4, <1>5, <1>6 DEF Owner

LEMMA RequesterImplements == IInv /\ Requester => Port!Next
<1> SUFFICES ASSUME IInv, NEW r \in Requests, Submit(r) \/ Withdraw(r)
             PROVE  Port!Submit(r) \/ Port!Refuse(r) \/ Port!Withdraw(r)
    BY DEF Requester, Port!Next
<1> USE DEF IInv, TypeOK, LifeCycle
<1>1. CASE Submit(r) /\ HasTask /\ pc # "done"
    BY <1>1 DEF Submit, Port!Submit
<1>2. CASE Submit(r) /\ ~(HasTask /\ pc # "done")
    BY <1>2 DEF Submit, Port!Refuse
<1>3. CASE Withdraw(r)
    BY <1>3 DEF Withdraw, Port!Withdraw
<1> QED BY <1>1, <1>2, <1>3

LEMMA EndImplements == IInv /\ TaskEnds => Port!Close
<1> SUFFICES ASSUME IInv, TaskEnds PROVE Port!Close
    OBVIOUS
<1> DEFINE lost == {r \in Requests : fut[r] = "pending" /\ ~InQueue(r)}
<1>1. lost \in SUBSET Port!Outstanding
    BY DEF Port!Outstanding
<1>2. \A a, b \in lost : a = b
    BY DEF IInv, PendingAccounted
<1>3. fut' = [r \in Requests |->
                IF r \in Port!Outstanding \ lost THEN "error" ELSE fut[r]]
    BY DEF TaskEnds, Drained, Port!Outstanding
<1>4. pc = "closing" /\ pc' = "done"
    BY DEF TaskEnds
<1> QED BY <1>1, <1>2, <1>3, <1>4 DEF Port!Close

LEMMA TaskImplements == IInv /\ Task => [Port!Next]_(Port!vars)
<1> SUFFICES ASSUME IInv, Task PROVE [Port!Next]_(Port!vars)
    OBVIOUS
<1>1. CASE Answered
  <2>1. inflight \in Requests
      BY <1>1 DEF Answered, IInv, Holding
  <2>2. Port!Answer(inflight)
      BY <1>1, <2>1 DEF Answered, Port!Answer, Port!Answers
  <2> QED BY <2>1, <2>2 DEF Port!Next
<1>2. CASE TaskEnds
    BY <1>2, EndImplements DEF Port!Next
<1>3. CASE BootSucceeds
    BY <1>3 DEF BootSucceeds, Port!vars
<1>4. CASE TakeStop
    BY <1>4 DEF TakeStop, Port!vars
<1>5. CASE TakeRequest
    BY <1>5 DEF TakeRequest, Port!vars
<1>6. CASE AnsweredLate
    BY <1>6 DEF AnsweredLate, Port!vars
<1>7. CASE SessionBreaks
    BY <1>7 DEF SessionBreaks, Port!vars
<1> QED BY <1>1, <1>2, <1>3, <1>4, <1>5, <1>6, <1>7 DEF Task

\* The actor implements RequestPort: a future is resolved at most once, only by
\* an answer, a refusal, its caller or the closing of the session, and closing
\* leaves at most one request without an answer.
THEOREM Refinement == Spec => PortSpec
<1>1. Init => Port!Init
    BY DEF Init, Port!Init
<1>2. IInv /\ [Next]_vars => [Port!Next]_(Port!vars)
  <2>1. IInv /\ UNCHANGED vars => UNCHANGED Port!vars
      BY DEF vars, Port!vars
  <2> QED BY <2>1, OwnerImplements, RequesterImplements, TaskImplements DEF Next
<1> QED BY <1>1, <1>2, Invariance, PTL DEF Spec, PortSpec, Port!Spec
=============================================================================
