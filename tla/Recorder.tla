------------------------------ MODULE Recorder ------------------------------
(***************************************************************************)
(* `TraceRecorder` of dmcp/recorder.py: `async with` boots one session per *)
(* configured server, the body issues list_tools and call_tool calls and   *)
(* records a Step for each, and leaving stops every session.  A Step takes *)
(* a JSON object as arguments: of a call with others none is built.        *)
(*                                                                         *)
(* A session is seen through RequestPort, the promise that SessionActor    *)
(* keeps: a call is answered, refused, failed when its session goes down,  *)
(* withdrawn by its caller, or - the call a session breaks under - never   *)
(* answered at all.                                                        *)
(***************************************************************************)
EXTENDS Naturals, Sequences, SequencesExt

CONSTANTS
    Servers,    \* the configured servers
    Order,      \* their order in `servers=`, a sequence
    Calls       \* calls of list_tools / call_tool, each made at most once

ASSUME OrderListsServers == /\ Order \in Seq(Servers)
                            /\ Len(Order) > 0
                            /\ IsInjective(Order)
                            /\ ToSet(Order) = Servers

VARIABLES
    phase,          \* where the `async with` statement is
    pos,            \* the server being booted, or the actor being stopped
    session,        \* the session task of each server
    actors,         \* _actors, in insertion order
    failures,       \* trace.seed_metadata["boot_failures"]
    fingerprints,   \* trace.servers
    toolSpecs,      \* the keys of trace.tool_specs
    sink,           \* _server_stderr_file
    call,           \* where each call is and which server it is for
    outcome,        \* what really became of each call
    steps           \* trace.steps

boot == <<actors, failures, fingerprints, toolSpecs>>
vars == <<phase, pos, session, boot, sink, call, outcome, steps>>

Idle      == [at |-> "idle"]
Ops       == {"list_tools", "call_tool"}

\* The arguments the model wrote, which are parsed as JSON and checked by no one:
\* an object (or null), another value that is false in Python, or one that is true.
Args      == {"object", "falsy", "truthy"}
CallState == {Idle} \cup [at : {"waiting", "ended"}, server : Servers, op : Ops, args : Args]
Outcomes  == {"none", "keyError", "refused", "ok", "toolError", "exception", "cancelled"}
Step      == [id : Nat, call : Calls, status : {"success", "error"}, result : BOOLEAN]

TypeOK ==
    /\ phase \in {"new", "entering", "open", "exiting", "left", "aborted"}
    /\ pos \in 1..Len(Order) + 1
    /\ session \in [Servers -> {"none", "booting", "up", "stopping", "down"}]
    /\ {actors, failures, fingerprints} \subseteq Seq(Servers)
    /\ toolSpecs \subseteq Servers
    /\ sink \in {"none", "open", "closed"}
    /\ call \in [Calls -> CallState]
    /\ outcome \in [Calls -> Outcomes]
    /\ steps \in Seq(Step)

Init ==
    /\ phase = "new"
    /\ pos = 1
    /\ session = [s \in Servers |-> "none"]
    /\ actors = <<>> /\ failures = <<>> /\ fingerprints = <<>> /\ toolSpecs = {}
    /\ sink = "none"
    /\ call = [c \in Calls |-> Idle]
    /\ outcome = [c \in Calls |-> "none"]
    /\ steps = <<>>

-----------------------------------------------------------------------------
(* Entering.                                                               *)

Current == Order[pos]

Enter ==
    /\ phase = "new"
    /\ phase' = "entering"
    /\ sink' = "open"
    /\ session' = [session EXCEPT ![Current] = "booting"]
    /\ UNCHANGED <<pos, boot, call, outcome, steps>>

\* actor.start() returns; _fingerprint now asks the session for its tools.
Started ==
    /\ phase = "entering"
    /\ session[Current] = "booting"
    /\ session' = [session EXCEPT ![Current] = "up"]
    /\ UNCHANGED <<phase, pos, boot, sink, call, outcome, steps>>

\* The loop of __aenter__ goes on to the next server or ends.  `now` is what
\* the current session has become.
NextServer(now) ==
    /\ pos' = IF pos < Len(Order) THEN pos + 1 ELSE pos
    /\ phase' = IF pos < Len(Order) THEN "entering" ELSE "open"
    /\ session' = [s \in Servers |->
                     CASE s = Current -> now
                       [] pos < Len(Order) /\ s = Order[pos + 1] -> "booting"
                       [] OTHER -> session[s]]

\* Mutant: the actor is published before its tools are known.
Fingerprinted_NoSpecs ==
    /\ phase = "entering"
    /\ session[Current] = "up"
    /\ actors' = Append(actors, Current)
    /\ fingerprints' = Append(fingerprints, Current)
    /\ NextServer("up")
    /\ UNCHANGED <<failures, toolSpecs, sink, call, outcome, steps>>

\* _fingerprint returns.  Between its tools/list answer and the end of the
\* iteration there is no await, and only records are built.
Fingerprinted ==
    /\ phase = "entering"
    /\ session[Current] = "up"
    /\ toolSpecs' = toolSpecs \cup {Current}
    /\ actors' = Append(actors, Current)
    /\ fingerprints' = Append(fingerprints, Current)
    /\ NextServer("up")
    /\ UNCHANGED <<failures, sink, call, outcome, steps>>

\* start() or _fingerprint raises: stop the actor, note the failure, carry on.
\* What _fingerprint still reads once the tools are filed may raise, too.
BootFails ==
    /\ phase = "entering"
    /\ session[Current] \in {"booting", "up", "down"}
    /\ failures' = Append(failures, Current)
    /\ \/ UNCHANGED toolSpecs
       \/ session[Current] # "booting" /\ toolSpecs' = toolSpecs \cup {Current}
    /\ NextServer("down")
    /\ UNCHANGED <<actors, fingerprints, sink, call, outcome, steps>>

\* Cancelled while entering: this actor is stopped, the exception goes on, and
\* __aexit__ is not going to run.
CancelEnter ==
    /\ phase = "entering"
    /\ failures' = Append(failures, Current)
    /\ session' = [session EXCEPT ![Current] = "down"]
    /\ phase' = "aborted"
    /\ UNCHANGED <<pos, actors, fingerprints, toolSpecs, sink, call, outcome, steps>>

-----------------------------------------------------------------------------
(* Calls.                                                                  *)

NextStepId(c) == IF steps = <<>> THEN 0 ELSE Last(steps).id + 1

StepOf(c, status, out) == [id     |-> NextStepId(c),
                           call   |-> c,
                           status |-> status,
                           result |-> out \in {"ok", "toolError"}]

\* Mutant: isError is not looked at.
Record_IgnoresIsError(c, out, args) ==
    /\ outcome' = [outcome EXCEPT ![c] = out]
    /\ steps' = IF args # "object" THEN steps
                ELSE Append(steps, StepOf(c, IF out \in {"exception", "refused"}
                                             THEN "error" ELSE "success", out))

\* The `finally` of call_tool and list_tools.  `status` starts as success and
\* only `except Exception` and isError turn it to error, so that a
\* CancelledError leaves a success without a result.  Step.build raises where
\* the arguments are no object.
Record(c, out, args) ==
    /\ outcome' = [outcome EXCEPT ![c] = out]
    /\ steps' = IF args # "object" THEN steps
                ELSE Append(steps, StepOf(c, IF out \in {"ok", "cancelled"}
                                             THEN "success" ELSE "error", out))

\* _require_actor raises before the `try`: no Step.  An actor that is stopped
\* or whose task is done refuses the request: an error Step, at once.
Issue(c, s, op, args) ==
    /\ phase \in {"open", "exiting"}
    /\ call[c] = Idle
    /\ op = "list_tools" => args = "object"
    /\ LET at(x) == call' = [call EXCEPT ![c] = [at |-> x, server |-> s, op |-> op, args |-> args]] IN
       \/ /\ ~Contains(actors, s)
          /\ at("ended")
          /\ outcome' = [outcome EXCEPT ![c] = "keyError"]
          /\ UNCHANGED steps
       \/ /\ Contains(actors, s)
          /\ session[s] # "up"
          /\ at("ended")
          /\ Record(c, "refused", args)
       \/ /\ Contains(actors, s)
          /\ session[s] = "up"
          /\ at("waiting")
          /\ UNCHANGED <<outcome, steps>>
    /\ UNCHANGED <<phase, pos, session, boot, sink>>

End(c, out) ==
    /\ call[c].at = "waiting"
    /\ call' = [call EXCEPT ![c].at = "ended"]
    /\ Record(c, out, call[c].args)
    /\ UNCHANGED <<phase, pos, session, boot, sink>>

\* `arguments or {}` is sent, and the session refuses what is no object.
Returns(c) ==
    /\ call[c].at = "waiting" /\ call[c].args # "truthy"
    /\ session[call[c].server] # "down"
    /\ \/ End(c, "ok")
       \/ call[c].op = "call_tool" /\ End(c, "toolError")

Raises(c)  == End(c, "exception")
Cancel(c)  == End(c, "cancelled")

\* A session ends on its own: the server died or the transport failed.
SessionDies(s) ==
    /\ session[s] \in {"up", "stopping"}
    /\ session' = [session EXCEPT ![s] = "down"]
    /\ UNCHANGED <<phase, pos, boot, sink, call, outcome, steps>>

-----------------------------------------------------------------------------
(* Leaving.                                                                *)

Waiting(s) == {c \in Calls : call[c].at = "waiting" /\ call[c].server = s}

BeginExit ==
    /\ phase = "open"
    /\ phase' = "exiting"
    /\ pos' = 1
    /\ UNCHANGED <<session, boot, sink, call, outcome, steps>>

\* stop(): from here on the actor refuses requests.
StopActor ==
    /\ phase = "exiting"
    /\ pos <= Len(actors)
    /\ session[actors[pos]] = "up"
    /\ session' = [session EXCEPT ![actors[pos]] = "stopping"]
    /\ UNCHANGED <<phase, pos, boot, sink, call, outcome, steps>>

\* The actor answers what it has accepted, takes the sentinel and ends.
StoppedCleanly(s) ==
    /\ session[s] = "stopping"
    /\ Waiting(s) = {}
    /\ session' = [session EXCEPT ![s] = "down"]
    /\ UNCHANGED <<phase, pos, boot, sink, call, outcome, steps>>

\* Mutant: stop() is called only on actors whose session is still up, and the
\* loop goes on without awaiting it.
StopReturns_NoJoin ==
    /\ phase = "exiting"
    /\ pos <= Len(actors)
    /\ session[actors[pos]] \in {"stopping", "down"}
    /\ pos' = pos + 1
    /\ UNCHANGED <<phase, session, boot, sink, call, outcome, steps>>

\* `await task` returns, for a session that was already down at once.
StopReturns ==
    /\ phase = "exiting"
    /\ pos <= Len(actors)
    /\ session[actors[pos]] = "down"
    /\ pos' = pos + 1
    /\ UNCHANGED <<phase, session, boot, sink, call, outcome, steps>>

Exited ==
    /\ phase = "exiting"
    /\ pos > Len(actors)
    /\ phase' = "left"
    /\ actors' = <<>>
    /\ sink' = "closed"
    /\ UNCHANGED <<pos, session, failures, fingerprints, toolSpecs, call, outcome, steps>>

-----------------------------------------------------------------------------
Next ==
    \/ Enter
    \/ Started
    \/ Fingerprinted
    \/ BootFails
    \/ CancelEnter
    \/ BeginExit
    \/ StopActor
    \/ StopReturns
    \/ Exited
    \/ \E s \in Servers : SessionDies(s) \/ StoppedCleanly(s)
    \/ \E c \in Calls :
         \/ \E s \in Servers, op \in Ops, args \in Args : Issue(c, s, op, args)
         \/ Returns(c)
         \/ Raises(c)
         \/ Cancel(c)

Spec == Init /\ [][Next]_vars

-----------------------------------------------------------------------------
(* Properties.                                                             *)

StepsOf(c) == {i \in 1..Len(steps) : steps[i].call = c}

\* The calls that reached their `try` and end in a Step.
Recordable(c) == call[c].at = "ended" /\ outcome[c] # "keyError" /\ call[c].args = "object"

\* A call that reached its `try` with an object as arguments leaves exactly one
\* Step, whatever ended it, and no other call leaves any
\* (recorder.py:358-384, 396-429).
OneStepPerCall ==
    \A c \in Calls : IF Recordable(c) THEN \E i \in 1..Len(steps) : StepsOf(c) = {i}
                      ELSE StepsOf(c) = {}

\* However calls overlap, step ids are the positions of the steps, so that a
\* checkpoint's matched step id names one step (trace.py:199-200).
StepIdsArePositions == \A i \in 1..Len(steps) : steps[i].id = i - 1

\* An error step is a call that failed, and a success step one that succeeded
\* or whose caller was cancelled; only the latter has no result.
StatusExplained ==
    \A i \in 1..Len(steps) :
        LET out == outcome[steps[i].call] IN
        IF steps[i].status = "error"
        THEN out \in {"toolError", "exception", "refused"}
        ELSE out = IF steps[i].result THEN "ok" ELSE "cancelled"

\* The trace tells nothing but what happened: for every call that was made with
\* an object as arguments one step, at the position its id says, with the status
\* of its outcome, and for no other call any.
TraceIsFaithful == TypeOK /\ OneStepPerCall /\ StepIdsArePositions /\ StatusExplained

\* The servers of `seq` are in configuration order, none twice.
Before(s, t)  == \E i, j \in 1..Len(Order) : i < j /\ Order[i] = s /\ Order[j] = t
InOrder(seq)  == \A i, j \in 1..Len(seq) : i < j => Before(seq[i], seq[j])

\* Every configured server ends up either booted - with its fingerprint, tools
\* and actor - or in boot_failures, once and in configuration order
\* (recorder.py:262-284).  Tools may be known of a server that then failed.
BootAccounted ==
    phase \in {"open", "exiting"} =>
        /\ actors = fingerprints
        /\ ToSet(fingerprints) \subseteq toolSpecs
        /\ InOrder(fingerprints)
        /\ ToSet(failures) = Servers \ ToSet(fingerprints)
        /\ InOrder(failures)

\* A server that is on record as booted can be called: "no session for server" is
\* only for servers that failed to boot (recorder.py:279-282, 341-347).
BootedServersHaveSession ==
    \A c \in Calls : outcome[c] = "keyError" => ~Contains(fingerprints, call[c].server)

\* Servers that fail, die or boot late leave what is recorded of them and what
\* can be called the same.
BootIsAccounted == BootAccounted /\ BootedServersHaveSession

NoSessionRuns == \A s \in Servers : session[s] \in {"none", "down"}

\* Leaving the `async with` leaves no session running and the stderr file
\* closed, whatever sessions died or calls were cancelled on the way.
LeftQuiet == phase = "left" => NoSessionRuns /\ sink = "closed"

-----------------------------------------------------------------------------
(* The inductive invariant behind StepIdsArePositions, OneStepPerCall and  *)
(* LeftQuiet.                                                              *)

\* Where the loops of __aenter__ and __aexit__ are.
LoopsInRange ==
    /\ phase = "new" => pos = 1 /\ actors = <<>>
    /\ phase = "entering" => pos <= Len(Order) /\ Len(actors) < pos
    /\ phase \in {"open", "exiting"} => Len(actors) <= Len(Order)

Quiet(s) == session[s] \in {"none", "down"}

\* A session that runs is that of the server being booted or of an actor that
\* is still to be stopped; without the former a session could be forgotten.
RunningKnown ==
    /\ phase = "new" => \A s \in Servers : Quiet(s)
    /\ phase = "entering" =>
         \A s \in Servers : Quiet(s) \/ s = Current \/ Contains(actors, s)
    /\ phase = "open" => \A s \in Servers : Quiet(s) \/ Contains(actors, s)
    /\ phase = "exiting" =>
         \A s \in Servers : Quiet(s) \/ \E i \in pos..Len(actors) : actors[i] = s

IInv == /\ TypeOK
        /\ StepIdsArePositions
        /\ OneStepPerCall
        /\ LoopsInRange
        /\ RunningKnown
        /\ LeftQuiet

(* The one behind BootedServersHaveSession, with IInv.                     *)

\* What is on record as booted has an actor until the recorder is left, and
\* nothing has been called before it is open.
BootedKnown ==
    /\ phase \in {"new", "entering", "open", "exiting"} =>
         \A s \in Servers : Contains(fingerprints, s) => Contains(actors, s)
    /\ phase \in {"new", "entering", "aborted"} => \A c \in Calls : call[c] = Idle
    /\ \A c \in Calls : call[c].at # "ended" => outcome[c] = "none"
    /\ BootedServersHaveSession

(* The one behind BootAccounted, with IInv.                                *)

\* The servers the loop of __aenter__ is done with.
Booted == {Order[i] : i \in 1..pos - 1}

\* What of the servers is known has been filed once, in order, on either side.
Filed(done) == /\ actors = fingerprints
               /\ ToSet(fingerprints) \subseteq toolSpecs
               /\ InOrder(fingerprints)
               /\ InOrder(failures)
               /\ ToSet(fingerprints) \cup ToSet(failures) = done
               /\ ToSet(fingerprints) \cap ToSet(failures) = {}

BootIsFiled == /\ phase \in {"new", "entering"} => Filed(Booted)
               /\ phase \in {"open", "exiting"} => Filed(Servers)
=============================================================================
