---------------------------- MODULE SessionActor ----------------------------
(***************************************************************************)
(* `_SessionActor` of dmcp/recorder.py: one asyncio task owns one MCP      *)
(* session; the recorder (the "owner") starts and stops it, and any number *)
(* of coroutines call request(), which puts a `_Request` on an unbounded   *)
(* queue and awaits its future.                                            *)
(*                                                                         *)
(* asyncio runs one coroutine at a time, so a step below is the code from  *)
(* one await to the next.  The MCP server, the transport and whoever       *)
(* cancels a coroutine are the environment.                                *)
(***************************************************************************)
EXTENDS Naturals, Sequences

CONSTANTS
    Requests,   \* calls of request(), each made at most once
    NONE,       \* "no request in flight"
    STOP        \* the `None` that stop() puts on the queue

ASSUME SentinelsDistinct == /\ NONE \notin Requests
                            /\ STOP \notin Requests

VARIABLES
    owner,      \* where the coroutine that calls start() and stop() is
    pc,         \* where the task running _serve is
    ready,      \* the future _ready
    queue,      \* _queue
    inflight,   \* the item _serve took off the queue and has not resolved
    fut         \* the future of each request

vars == <<owner, pc, ready, queue, inflight, fut>>

OwnerStates == {"new", "starting", "running", "stopping", "left"}
TaskStates  == {"unborn", "booting", "idle", "calling", "closing", "done"}
FutStates   == {"unused", "pending", "result", "error", "cancelled"}

TypeOK == /\ owner \in OwnerStates
          /\ pc \in TaskStates
          /\ ready \in {"none", "pending", "ok", "failed", "cancelled"}
          /\ queue \in Seq(Requests \cup {STOP})
          /\ inflight \in Requests \cup {NONE}
          /\ fut \in [Requests -> FutStates]

Init == /\ owner = "new"
        /\ pc = "unborn"
        /\ ready = "none"
        /\ queue = <<>>
        /\ inflight = NONE
        /\ fut = [r \in Requests |-> "unused"]

-----------------------------------------------------------------------------
(* The owner: TraceRecorder.__aenter__ and __aexit__.                      *)

Start == /\ owner = "new"
         /\ owner' = "starting"
         /\ pc' = "booting"
         /\ ready' = "pending"
         /\ UNCHANGED <<queue, inflight, fut>>

StartReturns == /\ owner = "starting"
                /\ ready = "ok"
                /\ owner' = "running"
                /\ UNCHANGED <<pc, ready, queue, inflight, fut>>

\* The owner is cancelled while it awaits _ready: the future is cancelled too.
CancelStart == /\ owner = "starting"
               /\ ready = "pending"
               /\ ready' = "cancelled"
               /\ UNCHANGED <<owner, pc, queue, inflight, fut>>

\* self._task is set by start() and dropped by stop().
HasTask == owner \in {"starting", "running"}

\* Mutant: stop() forgets to put the sentinel.
StopBegins_NoSentinel == /\ \/ owner = "running"
                            \/ owner = "starting" /\ ready \in {"failed", "cancelled"}
                         /\ owner' = "stopping"
                         /\ UNCHANGED <<pc, ready, queue, inflight, fut>>

\* stop(): on leaving the recorder, or because start() raised.
StopBegins == /\ \/ owner = "running"
                 \/ owner = "starting" /\ ready \in {"failed", "cancelled"}
              /\ owner' = "stopping"
              /\ queue' = IF pc = "done" THEN queue ELSE Append(queue, STOP)
              /\ UNCHANGED <<pc, ready, inflight, fut>>

\* A cancelled `await task` cancels the actor's task; the owner keeps waiting.
\* An interrupted call leaves its request unresolved in `inflight`.
CancelStop == /\ owner = "stopping"
              /\ pc \in {"booting", "idle", "calling"}
              /\ pc' = "closing"
              /\ UNCHANGED <<owner, ready, queue, inflight, fut>>

StopReturns == /\ owner = "stopping"
               /\ pc = "done"
               /\ owner' = "left"
               /\ UNCHANGED <<pc, ready, queue, inflight, fut>>

-----------------------------------------------------------------------------
(* The coroutines that call request().                                     *)

Submit(r) == /\ fut[r] = "unused"
             /\ owner \in {"running", "stopping", "left"}
             /\ IF HasTask /\ pc # "done"
                THEN /\ fut' = [fut EXCEPT ![r] = "pending"]
                     /\ queue' = Append(queue, r)
                ELSE /\ fut' = [fut EXCEPT ![r] = "error"]
                     /\ UNCHANGED queue
             /\ UNCHANGED <<owner, pc, ready, inflight>>

\* The caller is cancelled at `await fut`; its item stays where it is.
Withdraw(r) == /\ fut[r] = "pending"
               /\ fut' = [fut EXCEPT ![r] = "cancelled"]
               /\ UNCHANGED <<owner, pc, ready, queue, inflight>>

-----------------------------------------------------------------------------
(* The actor's task: _serve.                                               *)

BootSucceeds == /\ pc = "booting"
                /\ pc' = "idle"
                /\ ready' = IF ready = "pending" THEN "ok" ELSE ready
                /\ UNCHANGED <<owner, queue, inflight, fut>>

TakeStop == /\ pc = "idle"
            /\ queue # <<>>
            /\ Head(queue) = STOP
            /\ queue' = Tail(queue)
            /\ pc' = "closing"
            /\ UNCHANGED <<owner, ready, inflight, fut>>

\* Mutant: the queue is served newest first.
TakeRequest_Newest ==
    /\ pc = "idle"
    /\ queue # <<>>
    /\ queue[Len(queue)] # STOP
    /\ queue' = SubSeq(queue, 1, Len(queue) - 1)
    /\ IF fut[queue[Len(queue)]] = "pending"
       THEN pc' = "calling" /\ inflight' = queue[Len(queue)]
       ELSE UNCHANGED <<pc, inflight>>
    /\ UNCHANGED <<owner, ready, fut>>

\* Mutant: the test of `item.future.done()` is inverted.
TakeRequest_Inverted ==
    /\ pc = "idle"
    /\ queue # <<>>
    /\ Head(queue) # STOP
    /\ queue' = Tail(queue)
    /\ IF fut[Head(queue)] # "pending"
       THEN pc' = "calling" /\ inflight' = Head(queue)
       ELSE UNCHANGED <<pc, inflight>>
    /\ UNCHANGED <<owner, ready, fut>>

\* An item whose future is already done is dropped; any other one is executed.
TakeRequest == /\ pc = "idle"
               /\ queue # <<>>
               /\ Head(queue) # STOP
               /\ queue' = Tail(queue)
               /\ IF fut[Head(queue)] = "pending"
                  THEN pc' = "calling" /\ inflight' = Head(queue)
                  ELSE UNCHANGED <<pc, inflight>>
               /\ UNCHANGED <<owner, ready, fut>>

\* Mutant: an exception of the call is not caught per request; it ends the loop.
Answered_ErrorEndsLoop ==
    /\ pc = "calling"
    /\ fut[inflight] = "pending"
    /\ \E a \in {"result", "error"} :
         /\ fut' = [fut EXCEPT ![inflight] = a]
         /\ pc' = IF a = "error" THEN "closing" ELSE "idle"
    /\ inflight' = NONE
    /\ UNCHANGED <<owner, ready, queue>>

\* The session call returns or raises, and its future still waits.
Answered == /\ pc = "calling"
            /\ fut[inflight] = "pending"
            /\ \E a \in {"result", "error"} : fut' = [fut EXCEPT ![inflight] = a]
            /\ inflight' = NONE
            /\ pc' = "idle"
            /\ UNCHANGED <<owner, ready, queue>>

\* The call ends after its caller gave up: set_result raises InvalidStateError,
\* and so does the set_exception that handles it, which leaves the loop.
AnsweredLate == /\ pc = "calling"
                /\ fut[inflight] # "pending"
                /\ inflight' = NONE
                /\ pc' = "closing"
                /\ UNCHANGED <<owner, ready, queue, fut>>

\* Boot raises, or the transport's task group cancels the body of the
\* `async with`.  A CancelledError in the middle of a call passes the
\* per-request handler, so `inflight` keeps the request nobody will resolve.
SessionBreaks == /\ pc \in {"booting", "idle", "calling"}
                 /\ pc' = "closing"
                 /\ UNCHANGED <<owner, ready, queue, inflight, fut>>

\* _drain: every queued request that still waits gets an exception.
InQueue(r) == \E i \in 1..Len(queue) : queue[i] = r

\* Mutant: the queue is drained before the contexts unwind, not after.
Drained_Early == fut

\* Mutant: _drain resolves futures that are already done again.
Drained_Again == [r \in Requests |-> IF InQueue(r) THEN "error" ELSE fut[r]]

Drained == [r \in Requests |->
              IF fut[r] = "pending" /\ InQueue(r) THEN "error" ELSE fut[r]]

\* The contexts have unwound: the handlers drain the queue and the task ends.
TaskEnds == /\ pc = "closing"
            /\ pc' = "done"
            /\ ready' = IF ready = "pending" THEN "failed" ELSE ready
            /\ fut' = Drained
            /\ queue' = <<>>
            /\ UNCHANGED <<owner, inflight>>

-----------------------------------------------------------------------------
Owner     == \/ Start
             \/ StartReturns
             \/ CancelStart
             \/ StopBegins
             \/ CancelStop
             \/ StopReturns
Requester == \E r \in Requests : Submit(r) \/ Withdraw(r)
Task      == \/ BootSucceeds
             \/ TakeStop
             \/ TakeRequest
             \/ Answered
             \/ AnsweredLate
             \/ SessionBreaks
             \/ TaskEnds

Next == Owner \/ Requester \/ Task

Spec == Init /\ [][Next]_vars

\* The event loop runs every coroutine that is ready (StartReturns, TakeStop,
\* ...).  The last two conjuncts are about the server: it boots or fails, and
\* it ends every call, as does every transport on closing.
LoopFairness   == /\ WF_vars(StartReturns)
                  /\ WF_vars(StopBegins /\ owner = "starting")
                  /\ WF_vars(StopReturns)
                  /\ WF_vars(TakeStop \/ TakeRequest)
                  /\ WF_vars(TaskEnds)
ServerFairness == /\ WF_vars(pc = "booting" /\ (BootSucceeds \/ SessionBreaks))
                  /\ WF_vars(Answered \/ AnsweredLate)

FairSpec == Spec /\ LoopFairness /\ ServerFairness

-----------------------------------------------------------------------------
(* Properties.                                                             *)

\* A future that waits is still known to the actor: it is queued or it is the
\* request in flight (recorder.py:165-170: nothing taken off the queue is
\* dropped while its caller waits).
PendingAccounted ==
    \A r \in Requests : fut[r] = "pending" => InQueue(r) \/ inflight = r

\* Once the task has ended nothing is left on the queue, and the only caller
\* that can still be waiting is that of the call the session broke under:
\* requests accepted while the contexts unwind are drained too
\* (recorder.py:171-182).
OnlyInflightLost ==
    pc = "done" => /\ queue = <<>>
                   /\ \A r \in Requests : fut[r] = "pending" => inflight = r

\* The recorder never leaves while the task that owns the session runs: stop()
\* joins it even if it was itself cancelled (recorder.py:191-202).
JoinedBeforeLeaving == owner = "left" => pc = "done"

\* No caller is forgotten and no task abandoned, wherever the session breaks and
\* whoever is cancelled: a waiting future is queued or in flight, after the end
\* only the caller of the broken call can wait, and leaving joins the task.
ActorAccounted == TypeOK /\ PendingAccounted /\ OnlyInflightLost /\ JoinedBeforeLeaving

\* A clean stop fails nobody: when the loop takes the sentinel, every accepted
\* request has been resolved already (recorder.py:185, 192-197: the sentinel
\* goes behind all accepted requests and none is accepted after it).
CleanStopFailsNobody ==
    [][TakeStop => \A r \in Requests : fut[r] # "pending"]_vars

Ahead(r, s) == \E i, j \in 1..Len(queue) : i < j /\ queue[i] = r /\ queue[j] = s

\* Requests are executed in the order of their submission: none starts while
\* an earlier one still waits in the queue (recorder.py:161-164).
NoOvertaking ==
    [][\A r, s \in Requests :
          Ahead(r, s) /\ fut[r] = "pending" /\ inflight # s => inflight' # s]_vars

\* The queue is a queue for requests and sentinel alike: no request overtakes
\* another, and stopping cleanly answers all that were accepted.
ServedInOrder == NoOvertaking /\ CleanStopFailsNobody

\* The comment at recorder.py:167, "surface per-request, keep the session
\* alive", for every answer: ending a call never ends the session.
AnswerKeepsSession ==
    [][\A r \in Requests : inflight = r /\ inflight' = NONE => pc' = "idle"]_vars

\* With a server that ends its calls, every accepted request is resolved unless
\* the session broke while executing it (recorder.py:184-189).
EveryRequestResolved ==
    \A r \in Requests :
        fut[r] = "pending" ~> fut[r] # "pending" \/ (pc = "done" /\ inflight = r)

\* With such a server, stop() returns (recorder.py:191-202).
StopReturnsEventually == owner = "stopping" ~> owner = "left"

-----------------------------------------------------------------------------
(* The inductive invariant behind the safety properties.                   *)

\* The task exists once the owner has started it; the owner leaves after it.
LifeCycle == /\ owner = "new" <=> pc = "unborn"
             /\ owner = "left" => pc = "done"
             /\ ready = "ok" => pc \notin {"unborn", "booting"}
             /\ owner = "running" => ready = "ok"

\* An item is held only while it is executed, or forever once it is lost.
Holding == /\ pc = "calling" => inflight \in Requests
           /\ pc \in {"unborn", "booting", "idle"} => inflight = NONE

\* Nothing waits on the queue of a task that does not run, the sentinel is its
\* last item and is put by stop() alone, and an item is put once.
QueueShape == /\ pc \in {"unborn", "done"} => queue = <<>>
              /\ \A i \in 1..Len(queue) :
                   queue[i] = STOP => i = Len(queue) /\ ~HasTask
              /\ \A i, j \in 1..Len(queue) : queue[i] = queue[j] => i = j
              /\ \A i \in 1..Len(queue) :
                   queue[i] # STOP => /\ fut[queue[i]] # "unused"
                                      /\ queue[i] # inflight

IInv == /\ TypeOK
        /\ LifeCycle
        /\ Holding
        /\ QueueShape
        /\ PendingAccounted
        /\ inflight \in Requests => fut[inflight] # "unused"

-----------------------------------------------------------------------------
(* The promise to callers, and how the actor's state keeps it.             *)

Port == INSTANCE RequestPort WITH
          port <- IF pc = "unborn" THEN "shut"
                  ELSE IF pc = "done" THEN "closed" ELSE "open"

\* The actor implements RequestPort: each future is resolved at most once, and
\* closing leaves at most one request without an answer.
PortSpec == Port!Spec
=============================================================================
