--------------------------- MODULE RecorderProofs ---------------------------
(***************************************************************************)
(* Proofs about Recorder, for every list of servers and every set of       *)
(* calls: however calls overlap, fail or are cancelled the trace has one   *)
(* step for each that was made with an object as arguments, with its       *)
(* position as id, and none for the others; every server is filed once, as *)
(* booted or as a failure; and leaving the recorder leaves no session      *)
(* running.                                                                *)
(***************************************************************************)
EXTENDS Recorder, TLAPS

LEMMA AppendItem ==
    ASSUME NEW S, NEW q \in Seq(S), NEW x \in S
    PROVE  /\ Append(q, x) \in Seq(S)
           /\ Len(q) \in Nat
           /\ Len(Append(q, x)) = Len(q) + 1
           /\ \A i \in 1..Len(q) : Append(q, x)[i] = q[i]
           /\ Append(q, x)[Len(q) + 1] = x
    OBVIOUS

LEMMA CurrentServer ==
    ASSUME TypeOK, LoopsInRange, phase \in {"new", "entering"}
    PROVE  Current \in Servers
    BY OrderListsServers DEF TypeOK, LoopsInRange, Current

-----------------------------------------------------------------------------
(* Recording a step.                                                       *)

\* The outcomes with which a call is recorded.
Recorded == Outcomes \ {"none", "keyError"}

LEMMA NextIdIsLength ==
    ASSUME TypeOK, StepIdsArePositions, NEW c \in Calls
    PROVE  NextStepId(c) = Len(steps)
<1>1. CASE steps = <<>>
    BY <1>1 DEF NextStepId
<1>2. CASE steps # <<>>
  <2>1. Len(steps) \in Nat \ {0}
      BY <1>2 DEF TypeOK
  <2>2. steps[Len(steps)].id = Len(steps) - 1
      BY <2>1 DEF StepIdsArePositions
  <2> QED BY <1>2, <2>1, <2>2 DEF NextStepId, Last
<1> QED BY <1>1, <1>2

LEMMA RecordAppends ==
    ASSUME TypeOK, StepIdsArePositions, NEW c \in Calls, NEW out \in Recorded,
           Record(c, out, "object")
    PROVE  /\ steps' \in Seq(Step)
           /\ Len(steps) \in Nat
           /\ Len(steps') = Len(steps) + 1
           /\ \A i \in 1..Len(steps) : steps'[i] = steps[i]
           /\ steps'[Len(steps) + 1].call = c
           /\ steps'[Len(steps) + 1].id = Len(steps)
<1> DEFINE new == StepOf(c, IF out \in {"ok", "cancelled"} THEN "success" ELSE "error", out)
<1>1. steps' = Append(steps, new)
    BY DEF Record
<1>2. NextStepId(c) = Len(steps)
    BY NextIdIsLength
<1>3. Len(steps) \in Nat /\ steps \in Seq(Step)
    BY DEF TypeOK
<1>4. new \in Step /\ new.call = c /\ new.id = Len(steps)
    BY <1>2, <1>3 DEF Step, StepOf
<1> HIDE DEF new
<1> QED BY <1>1, <1>3, <1>4, AppendItem

LEMMA RecordKeepsIds ==
    ASSUME TypeOK, StepIdsArePositions, NEW c \in Calls, NEW out \in Recorded,
           NEW args \in Args, Record(c, out, args)
    PROVE  StepIdsArePositions'
<1>0. CASE args # "object"
    BY <1>0 DEF Record, StepIdsArePositions
<1> SUFFICES ASSUME args = "object" PROVE StepIdsArePositions'
    BY <1>0
<1> SUFFICES ASSUME NEW i \in 1..Len(steps)' PROVE steps'[i].id = i - 1
    BY DEF StepIdsArePositions
<1>1. i \in 1..Len(steps) \/ i = Len(steps) + 1
    BY RecordAppends
<1> QED BY <1>1, RecordAppends DEF StepIdsArePositions

\* The call that ends gets its step, and no other call does.
LEMMA RecordKeepsOne ==
    ASSUME TypeOK, StepIdsArePositions, OneStepPerCall,
           NEW c \in Calls, NEW out \in Recorded, NEW args \in Args, Record(c, out, args),
           call[c].at # "ended", call'[c].at = "ended", call'[c].args = args,
           \A d \in Calls \ {c} : call'[d] = call[d]
    PROVE  OneStepPerCall'
<1>1. outcome' = [outcome EXCEPT ![c] = out] /\ outcome \in [Calls -> Outcomes]
    BY DEF Record, TypeOK
<1>2. StepsOf(c) = {}
    BY DEF OneStepPerCall, Recordable
<1>3. CASE args # "object"
  <2>1. steps' = steps
      BY <1>3 DEF Record
  <2>2. \A d \in Calls \ {c} : call'[d] = call[d] /\ outcome'[d] = outcome[d]
      BY <1>1
  <2> QED BY <1>2, <1>3, <2>1, <2>2 DEF OneStepPerCall, Recordable, StepsOf
<1>4. CASE args = "object"
  <2>1. StepsOf(c)' = {Len(steps) + 1}
      BY <1>2, <1>4, RecordAppends DEF StepsOf
  <2>2. \A d \in Calls \ {c} : StepsOf(d)' = StepsOf(d)
      BY <1>4, RecordAppends DEF StepsOf
  <2> SUFFICES ASSUME NEW d \in Calls
               PROVE  (IF Recordable(d) THEN \E i \in 1..Len(steps) : StepsOf(d) = {i}
                       ELSE StepsOf(d) = {})'
      BY DEF OneStepPerCall
  <2>3. CASE d = c
    <3>1. Recordable(c)'
        BY <1>1, <1>4 DEF Recordable, Recorded
    <3> QED BY <1>4, <2>1, <2>3, <3>1, RecordAppends
  <2>4. CASE d # c
    <3>1. call'[d] = call[d] /\ outcome'[d] = outcome[d] /\ StepsOf(d)' = StepsOf(d)
        BY <1>1, <2>2, <2>4
    <3>2. 1..Len(steps) \subseteq 1..Len(steps')
        BY <1>4, RecordAppends
    <3> QED BY <3>1, <3>2 DEF OneStepPerCall, Recordable
  <2> QED BY <2>3, <2>4
<1> QED BY <1>3, <1>4

-----------------------------------------------------------------------------
(* The invariant holds initially.                                          *)

LEMMA InitInv == Init => IInv
<1> SUFFICES ASSUME Init PROVE IInv
    OBVIOUS
<1> USE DEF Init
<1>1. TypeOK
    BY OrderListsServers DEF TypeOK, CallState, Idle, Outcomes
<1>2. StepIdsArePositions /\ LeftQuiet /\ LoopsInRange /\ RunningKnown
    BY DEF StepIdsArePositions, LeftQuiet, LoopsInRange, RunningKnown, Quiet
<1>3. OneStepPerCall
    BY DEF OneStepPerCall, Recordable, StepsOf, Idle
<1> QED BY <1>1, <1>2, <1>3 DEF IInv

-----------------------------------------------------------------------------
(* Calls: they change call, outcome and steps only.                        *)

LEMMA RecordKeepsTypes ==
    ASSUME TypeOK, StepIdsArePositions, NEW c \in Calls, NEW out \in Recorded,
           NEW args \in Args, Record(c, out, args)
    PROVE  outcome' \in [Calls -> Outcomes] /\ steps' \in Seq(Step)
<1>1. outcome' = [outcome EXCEPT ![c] = out] /\ out \in Outcomes
    BY DEF Record, Recorded
<1>2. CASE args = "object"
    BY <1>1, <1>2, RecordAppends DEF TypeOK
<1>3. CASE args # "object"
    BY <1>1, <1>3 DEF TypeOK, Record
<1> QED BY <1>2, <1>3

LEMMA CallsKeepBoot ==
    ASSUME IInv, UNCHANGED <<phase, pos, session, boot, sink>>
    PROVE  LoopsInRange' /\ RunningKnown' /\ LeftQuiet'
<1> USE DEF boot
<1>1. LoopsInRange'
    BY DEF IInv, LoopsInRange
<1>2. RunningKnown'
    BY DEF IInv, RunningKnown, Quiet, Current, Contains
<1>3. LeftQuiet'
    BY DEF IInv, LeftQuiet, NoSessionRuns
<1> QED BY <1>1, <1>2, <1>3

LEMMA IssueInv ==
    ASSUME IInv, NEW c \in Calls, NEW s \in Servers, NEW op \in Ops,
           NEW args \in Args, Issue(c, s, op, args)
    PROVE  IInv'
<1> USE DEF IInv, boot
<1> DEFINE issued(x) == [at |-> x, server |-> s, op |-> op, args |-> args]
<1>1. LoopsInRange' /\ RunningKnown' /\ LeftQuiet'
    BY CallsKeepBoot DEF Issue
<1>2. call[c].at = "idle" /\ call \in [Calls -> CallState]
    BY DEF Issue, Idle, TypeOK
<1>3. \A x \in {"waiting", "ended"} : issued(x) \in CallState
    BY DEF CallState
<1>4. CASE Record(c, "refused", args) /\ call' = [call EXCEPT ![c] = issued("ended")]
  <2>1. "refused" \in Recorded
      BY DEF Recorded, Outcomes
  <2>2. call' \in [Calls -> CallState] /\ call'[c].at = "ended" /\ call'[c].args = args
      BY <1>2, <1>3, <1>4
  <2>3. TypeOK'
      BY <1>4, <2>1, <2>2, RecordKeepsTypes DEF TypeOK, Issue
  <2>4. \A d \in Calls \ {c} : call'[d] = call[d]
      BY <1>2, <1>4
  <2>5. OneStepPerCall'
      BY <1>2, <1>4, <2>1, <2>2, <2>4, RecordKeepsOne
  <2> QED BY <1>1, <1>4, <2>1, <2>3, <2>5, RecordKeepsIds
<1>5. CASE /\ call' = [call EXCEPT ![c] = issued("ended")]
           /\ outcome' = [outcome EXCEPT ![c] = "keyError"]
           /\ UNCHANGED steps
  <2>1. TypeOK'
    <3>1. call' \in [Calls -> CallState] /\ outcome' \in [Calls -> Outcomes]
        BY <1>2, <1>3, <1>5 DEF TypeOK, Outcomes
    <3> QED BY <1>5, <3>1 DEF TypeOK, Issue
  <2>2. OneStepPerCall'
    <3>1. StepsOf(c) = {}
        BY <1>2 DEF OneStepPerCall, Recordable
    <3>2. outcome'[c] = "keyError"
        BY <1>5 DEF TypeOK
    <3>3. \A d \in Calls \ {c} : call'[d] = call[d] /\ outcome'[d] = outcome[d]
        BY <1>2, <1>5 DEF TypeOK
    <3> QED BY <1>5, <3>1, <3>2, <3>3 DEF OneStepPerCall, Recordable, StepsOf
  <2> QED BY <1>1, <1>5, <2>1, <2>2 DEF StepIdsArePositions
<1>6. CASE /\ call' = [call EXCEPT ![c] = issued("waiting")]
           /\ UNCHANGED <<outcome, steps>>
  <2>1. TypeOK'
    <3>1. call' \in [Calls -> CallState]
        BY <1>2, <1>3, <1>6
    <3> QED BY <1>6, <3>1 DEF TypeOK, Issue
  <2>2. OneStepPerCall'
    <3>1. call'[c].at = "waiting" /\ StepsOf(c) = {}
        BY <1>2, <1>6 DEF OneStepPerCall, Recordable
    <3>2. \A d \in Calls \ {c} : call'[d] = call[d]
        BY <1>2, <1>6
    <3> QED BY <1>6, <3>1, <3>2 DEF OneStepPerCall, Recordable, StepsOf
  <2> QED BY <1>1, <1>6, <2>1, <2>2 DEF StepIdsArePositions
<1> QED BY <1>4, <1>5, <1>6 DEF Issue

LEMMA EndInv ==
    ASSUME IInv, NEW c \in Calls, NEW out \in Recorded, End(c, out)
    PROVE  IInv'
<1> USE DEF IInv
<1>1. LoopsInRange' /\ RunningKnown' /\ LeftQuiet'
    BY CallsKeepBoot DEF End
<1>2. Record(c, out, call[c].args) /\ call[c].at = "waiting" /\ call \in [Calls -> CallState]
    BY DEF End, TypeOK
<1>3. call' = [call EXCEPT ![c].at = "ended"]
    BY DEF End
<1>4. /\ call' \in [Calls -> CallState] /\ call'[c].at = "ended"
      /\ call'[c].args = call[c].args /\ call[c].args \in Args
  <2>1. call[c] \in [at : {"waiting", "ended"}, server : Servers, op : Ops, args : Args]
      BY <1>2 DEF CallState, Idle
  <2>2. [call[c] EXCEPT !.at = "ended"] \in CallState
      BY <2>1 DEF CallState
  <2> QED BY <1>2, <1>3, <2>1, <2>2
<1>5. TypeOK'
    BY <1>2, <1>4, RecordKeepsTypes DEF TypeOK, End, boot
<1>6. \A d \in Calls \ {c} : call'[d] = call[d]
    BY <1>2, <1>3
<1>7. OneStepPerCall'
    BY <1>2, <1>4, <1>6, RecordKeepsOne
<1> QED BY <1>1, <1>2, <1>4, <1>5, <1>7, RecordKeepsIds

LEMMA CallInv ==
    ASSUME IInv, NEW c \in Calls, Returns(c) \/ Raises(c) \/ Cancel(c)
    PROVE  IInv'
<1>1. \E out \in Recorded : End(c, out)
    BY DEF Returns, Raises, Cancel, Recorded, Outcomes
<1> QED BY <1>1, EndInv

-----------------------------------------------------------------------------
(* Booting, leaving and sessions that die: call, outcome and steps stay.   *)

LEMMA BootKeepsSteps ==
    ASSUME IInv, UNCHANGED <<call, outcome, steps>>
    PROVE  StepIdsArePositions' /\ OneStepPerCall'
    BY DEF IInv, StepIdsArePositions, OneStepPerCall, Recordable, StepsOf

LEMMA ContainsAppended ==
    ASSUME NEW S, NEW q \in Seq(S), NEW x \in S
    PROVE  /\ Contains(Append(q, x), x)
           /\ \A y : Contains(q, y) => Contains(Append(q, x), y)
<1>1. Contains(Append(q, x), x)
    BY AppendItem DEF Contains
<1>2. ASSUME NEW y, Contains(q, y) PROVE Contains(Append(q, x), y)
  <2>1. PICK i \in 1..Len(q) : q[i] = y
      BY <1>2 DEF Contains
  <2> QED BY <2>1, AppendItem DEF Contains
<1> QED BY <1>1, <1>2

LEMMA EnterInv ==
    ASSUME IInv, Enter
    PROVE  IInv'
<1> USE DEF IInv, Enter, boot
<1>1. Current \in Servers /\ Current' = Current
    BY CurrentServer DEF Current
<1>2. session' = [session EXCEPT ![Current] = "booting"]
    OBVIOUS
<1>3. TypeOK'
    BY <1>1, <1>2 DEF TypeOK
<1>4. LoopsInRange'
    BY OrderListsServers DEF LoopsInRange, TypeOK
<1>5. RunningKnown'
    BY <1>1, <1>2 DEF RunningKnown, Quiet, TypeOK
<1> QED BY <1>3, <1>4, <1>5, BootKeepsSteps DEF LeftQuiet

\* The end of an iteration of __aenter__: the loop moves on with what it knows
\* of the current session.
LEMMA NextServerInv ==
    ASSUME IInv, phase = "entering", NEW now \in {"up", "down"}, NextServer(now),
           \/ actors' = actors /\ now = "down"
           \/ actors' = Append(actors, Current)
    PROVE  /\ session' \in [Servers -> {"none", "booting", "up", "stopping", "down"}]
           /\ pos' \in 1..Len(Order) + 1
           /\ actors' \in Seq(Servers)
           /\ LoopsInRange' /\ RunningKnown' /\ LeftQuiet'
           /\ phase' \in {"entering", "open"}
<1> USE DEF IInv
<1>1. Current \in Servers
    BY CurrentServer
<1>2. /\ pos \in Nat /\ Len(Order) \in Nat /\ 1 <= pos /\ pos <= Len(Order)
      /\ Len(actors) \in Nat /\ Len(actors) < pos /\ actors \in Seq(Servers)
    BY OrderListsServers DEF TypeOK, LoopsInRange
<1>3. /\ actors' \in Seq(Servers)
      /\ Len(actors') \in {Len(actors), Len(actors) + 1}
      /\ \A s : Contains(actors, s) => Contains(actors', s)
      /\ now = "down" \/ Contains(actors', Current)
  <2>1. CASE actors' = actors /\ now = "down"
      BY <1>2, <2>1
  <2>2. CASE actors' = Append(actors, Current)
    <3>1. /\ Append(actors, Current) \in Seq(Servers)
          /\ Len(Append(actors, Current)) = Len(actors) + 1
        BY <1>1, <1>2, AppendItem
    <3>2. /\ Contains(Append(actors, Current), Current)
          /\ \A s : Contains(actors, s) => Contains(Append(actors, Current), s)
        BY <1>1, <1>2, ContainsAppended
    <3> QED BY <2>2, <3>1, <3>2
  <2> QED BY <2>1, <2>2
<1>4. /\ pos' = IF pos < Len(Order) THEN pos + 1 ELSE pos
      /\ phase' = IF pos < Len(Order) THEN "entering" ELSE "open"
    BY DEF NextServer
<1>5. \A s \in Servers :
         session'[s] = CASE s = Current -> now
                         [] pos < Len(Order) /\ s = Order[pos + 1] -> "booting"
                         [] OTHER -> session[s]
    BY DEF NextServer
<1>6. session' \in [Servers -> {"none", "booting", "up", "stopping", "down"}]
    BY DEF NextServer, TypeOK
<1>7. pos' \in 1..Len(Order) + 1 /\ LoopsInRange'
    BY <1>2, <1>3, <1>4 DEF LoopsInRange
<1>8. RunningKnown'
  <2>1. ASSUME NEW s \in Servers
        PROVE  \/ session'[s] \in {"none", "down"}
               \/ pos < Len(Order) /\ s = Order[pos + 1]
               \/ Contains(actors', s)
    <3>1. CASE s = Current
        BY <1>3, <1>5, <3>1
    <3>2. CASE s # Current /\ session'[s] = session[s]
        BY <1>3, <3>2 DEF RunningKnown, Quiet
    <3> QED BY <1>5, <3>1, <3>2
  <2> QED BY <1>4, <2>1 DEF RunningKnown, Quiet, Current
<1> QED BY <1>3, <1>4, <1>6, <1>7, <1>8 DEF LeftQuiet

LEMMA FingerprintedInv ==
    ASSUME IInv, Fingerprinted
    PROVE  IInv'
<1> USE DEF IInv, Fingerprinted
<1>1. Current \in Servers
    BY CurrentServer
<1>2. /\ session' \in [Servers -> {"none", "booting", "up", "stopping", "down"}]
      /\ pos' \in 1..Len(Order) + 1
      /\ actors' \in Seq(Servers)
      /\ LoopsInRange' /\ RunningKnown' /\ LeftQuiet'
      /\ phase' \in {"entering", "open"}
    BY NextServerInv
<1>3. fingerprints' \in Seq(Servers) /\ toolSpecs' \subseteq Servers
    BY <1>1, AppendItem DEF TypeOK
<1>4. TypeOK'
    BY <1>2, <1>3 DEF TypeOK
<1> QED BY <1>2, <1>4, BootKeepsSteps

LEMMA BootFailsInv ==
    ASSUME IInv, BootFails
    PROVE  IInv'
<1> USE DEF IInv, BootFails
<1>1. Current \in Servers
    BY CurrentServer
<1>2. /\ session' \in [Servers -> {"none", "booting", "up", "stopping", "down"}]
      /\ pos' \in 1..Len(Order) + 1
      /\ LoopsInRange' /\ RunningKnown' /\ LeftQuiet'
      /\ phase' \in {"entering", "open"}
    BY NextServerInv
<1>3. failures' \in Seq(Servers)
    BY <1>1, AppendItem DEF TypeOK
<1>4. TypeOK'
    BY <1>2, <1>3 DEF TypeOK
<1> QED BY <1>2, <1>4, BootKeepsSteps

LEMMA CancelEnterInv ==
    ASSUME IInv, CancelEnter
    PROVE  IInv'
<1> USE DEF IInv, CancelEnter
<1>1. failures' \in Seq(Servers)
    BY CurrentServer, AppendItem DEF TypeOK
<1>2. TypeOK'
    BY <1>1 DEF TypeOK
<1> QED BY <1>2, BootKeepsSteps DEF LoopsInRange, RunningKnown, LeftQuiet

\* A session that changes to a state of its own, the loops staying where they are.
LEMMA SessionInv ==
    ASSUME IInv, NEW s \in Servers,
           NEW now \in {"none", "booting", "up", "stopping", "down"},
           session' = [session EXCEPT ![s] = now],
           now = "down" \/ ~Quiet(s),
           UNCHANGED <<phase, pos, boot, sink, call, outcome, steps>>
    PROVE  IInv'
<1> USE DEF IInv, boot
<1>1. TypeOK' /\ LoopsInRange' /\ Current' = Current
    BY DEF TypeOK, LoopsInRange, Current
<1>2. \A x \in Servers : Quiet(x) => Quiet(x)'
    BY DEF Quiet, TypeOK
<1>3. RunningKnown'
    BY <1>1, <1>2 DEF RunningKnown, Contains
<1>4. LeftQuiet'
    BY <1>2 DEF LeftQuiet, NoSessionRuns, Quiet
<1> QED BY <1>1, <1>3, <1>4, BootKeepsSteps

LEMMA StartedInv ==
    ASSUME IInv, Started
    PROVE  IInv'
    BY SessionInv, CurrentServer DEF Started, IInv, Quiet

LEMMA SessionDiesInv ==
    ASSUME IInv, NEW s \in Servers, SessionDies(s) \/ StoppedCleanly(s)
    PROVE  IInv'
    BY SessionInv DEF SessionDies, StoppedCleanly

-----------------------------------------------------------------------------
(* Leaving.                                                                *)

LEMMA BeginExitInv ==
    ASSUME IInv, BeginExit
    PROVE  IInv'
<1> USE DEF IInv, BeginExit, boot
<1>1. TypeOK' /\ LoopsInRange' /\ LeftQuiet'
    BY OrderListsServers DEF TypeOK, LoopsInRange, LeftQuiet
<1>2. RunningKnown'
    BY DEF RunningKnown, Quiet, Contains
<1> QED BY <1>1, <1>2, BootKeepsSteps

LEMMA StopActorInv ==
    ASSUME IInv, StopActor
    PROVE  IInv'
<1>1. actors[pos] \in Servers
    BY DEF IInv, TypeOK, StopActor
<1> QED BY <1>1, SessionInv DEF StopActor, Quiet

LEMMA StopReturnsInv ==
    ASSUME IInv, StopReturns
    PROVE  IInv'
<1> USE DEF IInv, StopReturns, boot
<1>1. pos \in Nat /\ Len(actors) \in Nat /\ Len(Order) \in Nat /\ Len(actors) <= Len(Order)
    BY OrderListsServers DEF TypeOK, LoopsInRange
<1>2. TypeOK' /\ LoopsInRange' /\ LeftQuiet'
    BY <1>1 DEF TypeOK, LoopsInRange, LeftQuiet
<1>3. RunningKnown'
  <2>1. ASSUME NEW s \in Servers, ~Quiet(s)
        PROVE  \E i \in pos + 1..Len(actors) : actors[i] = s
    <3>1. PICK i \in pos..Len(actors) : actors[i] = s
        BY <2>1 DEF RunningKnown
    <3>2. i # pos
        BY <2>1, <3>1 DEF Quiet
    <3> QED BY <1>1, <3>1, <3>2
  <2> QED BY <2>1 DEF RunningKnown, Quiet
<1> QED BY <1>2, <1>3, BootKeepsSteps

LEMMA ExitedInv ==
    ASSUME IInv, Exited
    PROVE  IInv'
<1> USE DEF IInv, Exited
<1>1. NoSessionRuns
  <2>1. pos..Len(actors) = {}
      BY DEF TypeOK
  <2> QED BY <2>1 DEF RunningKnown, Quiet, NoSessionRuns
<1>2. TypeOK'
    BY DEF TypeOK
<1>3. LeftQuiet'
    BY <1>1 DEF LeftQuiet, NoSessionRuns
<1> QED BY <1>2, <1>3, BootKeepsSteps DEF LoopsInRange, RunningKnown

-----------------------------------------------------------------------------
(* Every step, and the theorems.                                           *)

LEMMA NextInv ==
    ASSUME IInv, [Next]_vars
    PROVE  IInv'
<1>1. CASE UNCHANGED vars
  <2> USE <1>1 DEF IInv, vars, boot
  <2>1. TypeOK'
      BY DEF TypeOK
  <2> QED BY <2>1, CallsKeepBoot, BootKeepsSteps
<1>2. ASSUME NEW s \in Servers, SessionDies(s) \/ StoppedCleanly(s) PROVE IInv'
    BY <1>2, SessionDiesInv
<1>3. ASSUME NEW c \in Calls, NEW s \in Servers, NEW op \in Ops,
           NEW args \in Args, Issue(c, s, op, args)
      PROVE  IInv'
    BY <1>3, IssueInv
<1>4. ASSUME NEW c \in Calls, Returns(c) \/ Raises(c) \/ Cancel(c) PROVE IInv'
    BY <1>4, CallInv
<1> QED BY <1>1, <1>2, <1>3, <1>4, EnterInv, StartedInv, FingerprintedInv, BootFailsInv,
           CancelEnterInv, BeginExitInv, StopActorInv, StopReturnsInv, ExitedInv DEF Next

\* Throughout every behaviour of the recorder the invariant holds.
THEOREM Invariance == Spec => []IInv
<1>1. Init => IInv
    BY InitInv
<1>2. IInv /\ [Next]_vars => IInv'
    BY NextInv
<1> QED BY <1>1, <1>2, PTL DEF Spec

\* Every variable of the recorder keeps its type, for any servers and calls.
THEOREM TypeCorrect == Spec => []TypeOK
<1>1. IInv => TypeOK
    BY DEF IInv
<1> QED BY <1>1, Invariance, PTL

\* Step ids are positions however many calls overlap (recorder.py:358-384).
THEOREM UniqueIds == Spec => []StepIdsArePositions
<1>1. IInv => StepIdsArePositions
    BY DEF IInv
<1> QED BY <1>1, Invariance, PTL

\* Every call that was made with an object as arguments leaves exactly one step,
\* whether it returned, failed, was refused or was cancelled; one made with
\* anything else leaves none, even if it ran (recorder.py:358-429).
THEOREM ExactlyOneStep == Spec => []OneStepPerCall
<1>1. IInv => OneStepPerCall
    BY DEF IInv
<1> QED BY <1>1, Invariance, PTL

\* Leaving stops every session that was started, whatever failed or died on
\* the way (recorder.py:288-298).
THEOREM LeavesQuiet == Spec => []LeftQuiet
<1>1. IInv => LeftQuiet
    BY DEF IInv
<1> QED BY <1>1, Invariance, PTL

-----------------------------------------------------------------------------
(* What the steps say: a step once recorded stays explained, because its   *)
(* call has ended and an ended call keeps its outcome.                     *)

LEMMA RecordKeepsStatus ==
    ASSUME TypeOK, StepIdsArePositions, OneStepPerCall, StatusExplained,
           NEW c \in Calls, NEW out \in Recorded, NEW args \in Args, Record(c, out, args),
           call[c].at # "ended"
    PROVE  StatusExplained'
<1> DEFINE new == StepOf(c, IF out \in {"ok", "cancelled"} THEN "success" ELSE "error", out)
<1>1. outcome' = [outcome EXCEPT ![c] = out] /\ outcome \in [Calls -> Outcomes]
    BY DEF Record, TypeOK
<1>2. steps \in Seq(Step) /\ Len(steps) \in Nat
    BY DEF TypeOK
<1>3. \A i \in 1..Len(steps) : steps[i].call # c /\ steps[i].call \in Calls
  <2>1. StepsOf(c) = {}
      BY DEF OneStepPerCall, Recordable
  <2>2. \A i \in 1..Len(steps) : steps[i] \in Step
      BY <1>2
  <2> QED BY <2>1, <2>2 DEF StepsOf, Step
<1>0. CASE args # "object"
    BY <1>0, <1>1, <1>3 DEF Record, StatusExplained
<1> SUFFICES ASSUME args = "object" PROVE StatusExplained'
    BY <1>0
<1>6. steps' = Append(steps, new)
    BY DEF Record
<1> SUFFICES ASSUME NEW i \in 1..Len(steps')
             PROVE  LET of == outcome'[steps'[i].call] IN
                    IF steps'[i].status = "error"
                    THEN of \in {"toolError", "exception", "refused"}
                    ELSE of = IF steps'[i].result THEN "ok" ELSE "cancelled"
    BY DEF StatusExplained
<1>4. CASE i \in 1..Len(steps)
  <2>1. steps'[i] = steps[i] /\ outcome'[steps[i].call] = outcome[steps[i].call]
      BY <1>1, <1>3, <1>4, RecordAppends
  <2> QED BY <1>4, <2>1 DEF StatusExplained
<1>5. CASE i \notin 1..Len(steps)
  <2>1. i = Len(steps) + 1 /\ steps'[i] = new
      BY <1>2, <1>5, <1>6, RecordAppends
  <2>2. /\ outcome'[steps'[i].call] = out
        /\ steps'[i].status = IF out \in {"ok", "cancelled"} THEN "success" ELSE "error"
        /\ steps'[i].result = (out \in {"ok", "toolError"})
      BY <1>1, <2>1 DEF StepOf
  <2>3. out \in {"refused", "ok", "toolError", "exception", "cancelled"}
      BY DEF Recorded, Outcomes
  <2>4. CASE out = "ok"
      BY <2>2, <2>4
  <2>5. CASE out = "cancelled"
      BY <2>2, <2>5
  <2>6. CASE out \in {"refused", "toolError", "exception"}
      BY <2>2, <2>6
  <2> QED BY <2>3, <2>4, <2>5, <2>6
<1> QED BY <1>4, <1>5

LEMMA NextStatus ==
    ASSUME IInv, StatusExplained, [Next]_vars
    PROVE  StatusExplained'
<1> USE DEF IInv
<1>1. CASE UNCHANGED <<outcome, steps>>
    BY <1>1 DEF StatusExplained
<1>2. ASSUME NEW c \in Calls, NEW s \in Servers, NEW op \in Ops,
           NEW args \in Args, Issue(c, s, op, args)
      PROVE  StatusExplained'
  <2>1. call[c].at # "ended"
      BY <1>2 DEF Issue, Idle
  <2>2. CASE Record(c, "refused", args)
      BY <2>1, <2>2, RecordKeepsStatus DEF Recorded, Outcomes
  <2>3. CASE outcome' = [outcome EXCEPT ![c] = "keyError"] /\ UNCHANGED steps
    <3>1. \A i \in 1..Len(steps) : steps[i].call # c /\ steps[i].call \in Calls
      <4>1. StepsOf(c) = {}
          BY <2>1 DEF OneStepPerCall, Recordable
      <4>2. \A i \in 1..Len(steps) : steps[i] \in Step
          BY DEF TypeOK
      <4> QED BY <4>1, <4>2 DEF StepsOf, Step
    <3> QED BY <2>3, <3>1 DEF StatusExplained, TypeOK
  <2> QED BY <1>1, <1>2, <2>2, <2>3 DEF Issue
<1>3. ASSUME NEW c \in Calls, NEW out \in Recorded, End(c, out)
      PROVE  StatusExplained'
  <2>1. call[c] \in [at : {"waiting", "ended"}, server : Servers, op : Ops, args : Args]
      BY <1>3 DEF TypeOK, CallState, Idle, End
  <2> QED BY <1>3, <2>1, RecordKeepsStatus DEF End
<1>4. ASSUME NEW c \in Calls, Returns(c) \/ Raises(c) \/ Cancel(c) PROVE StatusExplained'
  <2>1. \E out \in Recorded : End(c, out)
      BY <1>4 DEF Returns, Raises, Cancel, Recorded, Outcomes
  <2> QED BY <1>3, <2>1
<1>5. CASE Enter \/ Started \/ Fingerprinted \/ BootFails \/ CancelEnter
    BY <1>1, <1>5 DEF Enter, Started, Fingerprinted, BootFails, CancelEnter
<1>6. CASE BeginExit \/ StopActor \/ StopReturns \/ Exited
    BY <1>1, <1>6 DEF BeginExit, StopActor, StopReturns, Exited
<1>7. ASSUME NEW s \in Servers, SessionDies(s) \/ StoppedCleanly(s) PROVE StatusExplained'
    BY <1>1, <1>7 DEF SessionDies, StoppedCleanly
<1>8. CASE UNCHANGED vars
    BY <1>1, <1>8 DEF vars
<1> QED BY <1>2, <1>4, <1>5, <1>6, <1>7, <1>8 DEF Next

\* For any servers and any calls that overlap: every call made with an object as
\* arguments has its one step, at its place and with its status, and the trace
\* holds no other (recorder.py:358-429).
THEOREM FaithfulTrace == Spec => []TraceIsFaithful
<1>1. Init => StatusExplained
    BY DEF Init, StatusExplained
<1>2. IInv /\ StatusExplained /\ [Next]_vars => StatusExplained'
    BY NextStatus
<1>3. IInv /\ StatusExplained => TraceIsFaithful
    BY DEF IInv, TraceIsFaithful
<1> QED BY <1>1, <1>2, <1>3, Invariance, PTL DEF Spec

-----------------------------------------------------------------------------
(* What is booted can be called.                                           *)

LEMMA NextBooted ==
    ASSUME IInv, BootedKnown, [Next]_vars
    PROVE  BootedKnown'
<1> USE DEF BootedKnown, BootedServersHaveSession
<1>1. CASE UNCHANGED vars
    BY <1>1 DEF vars, boot
<1>2. CASE Enter \/ Started
    BY <1>2 DEF Enter, Started, boot
<1>3. CASE Fingerprinted
  <2>1. ASSUME NEW s \in Servers, Contains(fingerprints', s) PROVE Contains(actors', s)
    <3>1. /\ actors \in Seq(Servers) /\ fingerprints \in Seq(Servers) /\ Current \in Servers
          /\ phase = "entering"
        BY <1>3, CurrentServer DEF IInv, TypeOK, Fingerprinted
    <3>2. Contains(actors', Current) /\ \A x : Contains(actors, x) => Contains(actors', x)
        BY <1>3, <3>1, ContainsAppended DEF Fingerprinted
    <3>3. s = Current \/ Contains(fingerprints, s)
        BY <1>3, <2>1, <3>1, AppendItem DEF Fingerprinted, Contains
    <3> QED BY <3>1, <3>2, <3>3
  <2>2. phase' \in {"entering", "open"} /\ phase = "entering" /\ UNCHANGED <<call, outcome>>
      BY <1>3 DEF Fingerprinted, NextServer
  <2>3. \A c \in Calls : call[c].at # "ended" /\ outcome[c] = "none"
      BY <2>2 DEF Idle
  <2> QED BY <2>1, <2>2, <2>3
<1>4. CASE BootFails \/ CancelEnter
    BY <1>4 DEF BootFails, CancelEnter, NextServer
<1>5. CASE BeginExit \/ StopActor \/ StopReturns \/ Exited
    BY <1>5 DEF BeginExit, StopActor, StopReturns, Exited, boot
<1>6. ASSUME NEW s \in Servers, SessionDies(s) \/ StoppedCleanly(s) PROVE BootedKnown'
    BY <1>6 DEF SessionDies, StoppedCleanly, boot
<1>7. ASSUME NEW c \in Calls, NEW s \in Servers, NEW op \in Ops,
           NEW args \in Args, Issue(c, s, op, args)
      PROVE  BootedKnown'
  <2> DEFINE issued(x) == [at |-> x, server |-> s, op |-> op, args |-> args]
  <2>1. /\ call \in [Calls -> CallState] /\ outcome \in [Calls -> Outcomes]
        /\ phase \in {"open", "exiting"} /\ UNCHANGED <<phase, boot>>
        /\ outcome[c] = "none"
      BY <1>7 DEF IInv, TypeOK, Issue, Idle
  <2>2. CASE /\ ~Contains(actors, s)
             /\ call' = [call EXCEPT ![c] = issued("ended")]
             /\ outcome' = [outcome EXCEPT ![c] = "keyError"]
    <3>1. ~Contains(fingerprints, s)
        BY <2>1, <2>2
    <3> QED BY <2>1, <2>2, <3>1 DEF boot
  <2>3. CASE call' = [call EXCEPT ![c] = issued("ended")] /\ Record(c, "refused", args)
      BY <2>1, <2>3 DEF Record, boot
  <2>4. CASE call' = [call EXCEPT ![c] = issued("waiting")] /\ UNCHANGED outcome
      BY <2>1, <2>4 DEF boot
  <2> QED BY <1>7, <2>2, <2>3, <2>4 DEF Issue
<1>8. ASSUME NEW c \in Calls, Returns(c) \/ Raises(c) \/ Cancel(c) PROVE BootedKnown'
  <2>1. PICK out \in Recorded : End(c, out)
      BY <1>8 DEF Returns, Raises, Cancel, Recorded, Outcomes
  <2>2. /\ call \in [Calls -> CallState] /\ outcome \in [Calls -> Outcomes]
        /\ call[c].at = "waiting" /\ UNCHANGED <<phase, boot>>
        /\ call' = [call EXCEPT ![c].at = "ended"]
        /\ outcome' = [outcome EXCEPT ![c] = out] /\ out # "keyError"
      BY <2>1 DEF IInv, TypeOK, End, Record, Recorded
  <2>3. call[c] \in [at : {"waiting", "ended"}, server : Servers, op : Ops, args : Args]
      BY <2>2 DEF CallState, Idle
  <2>4. call'[c].at = "ended" /\ \A d \in Calls \ {c} : call'[d] = call[d] /\ outcome'[d] = outcome[d]
      BY <2>2, <2>3
  <2>5. phase \notin {"new", "entering", "aborted"}
      BY <2>2 DEF Idle
  <2>6. outcome'[c] # "keyError"
      BY <2>2
  <2> QED BY <2>2, <2>4, <2>5, <2>6 DEF boot
<1> QED BY <1>1, <1>2, <1>3, <1>4, <1>5, <1>6, <1>7, <1>8 DEF Next

\* Whatever servers failed to boot, a call to one that is on record as booted is
\* never refused for want of a session (recorder.py:262-284, 341-347).
THEOREM BootedIsCallable == Spec => []BootedServersHaveSession
<1>1. Init => BootedKnown
    BY DEF Init, BootedKnown, BootedServersHaveSession, Idle
<1>2. IInv /\ BootedKnown /\ [Next]_vars => BootedKnown'
    BY NextBooted
<1>3. BootedKnown => BootedServersHaveSession
    BY DEF BootedKnown
<1> QED BY <1>1, <1>2, <1>3, Invariance, PTL DEF Spec
-----------------------------------------------------------------------------
(* Every server is filed once, in configuration order, as booted or failed. *)

LEMMA CurrentIsNew ==
    ASSUME TypeOK, LoopsInRange, phase = "entering"
    PROVE  /\ Current \notin Booted
           /\ Booted \cup {Current} = {Order[i] : i \in 1..pos}
           /\ \A s \in Booted : Before(s, Current)
<1>1. /\ pos \in Nat /\ 1 <= pos /\ pos <= Len(Order) /\ Len(Order) \in Nat
      /\ \A i, j \in 1..Len(Order) : Order[i] = Order[j] => i = j
    BY OrderListsServers DEF TypeOK, LoopsInRange, IsInjective
<1>2. \A i \in 1..pos - 1 : i \in 1..Len(Order) /\ i < pos
    BY <1>1
<1>3. 1..pos = 1..pos - 1 \cup {pos} /\ pos \in 1..Len(Order)
    BY <1>1
<1> QED BY <1>1, <1>2, <1>3 DEF Booted, Before, Current

\* Filing the current server at the end of either list keeps it in order.
LEMMA FilesInOrder ==
    ASSUME TypeOK, LoopsInRange, phase = "entering",
           NEW q \in Seq(Servers), InOrder(q), ToSet(q) \subseteq Booted
    PROVE  /\ InOrder(Append(q, Current))
           /\ ToSet(Append(q, Current)) = ToSet(q) \cup {Current}
<1>1. /\ Len(q) \in Nat /\ Len(Append(q, Current)) = Len(q) + 1
      /\ \A i \in 1..Len(q) : Append(q, Current)[i] = q[i]
      /\ Append(q, Current)[Len(q) + 1] = Current
      /\ DOMAIN q = 1..Len(q) /\ DOMAIN Append(q, Current) = 1..Len(q) + 1
    BY CurrentServer, AppendItem
<1>2. ToSet(Append(q, Current)) = ToSet(q) \cup {Current}
  <2>1. 1..Len(q) + 1 = 1..Len(q) \cup {Len(q) + 1}
      BY <1>1
  <2> QED BY <1>1, <2>1 DEF ToSet
<1>3. ASSUME NEW i \in 1..Len(q) + 1, NEW j \in 1..Len(q) + 1, i < j
      PROVE  Before(Append(q, Current)[i], Append(q, Current)[j])
  <2>1. i \in 1..Len(q) /\ Append(q, Current)[i] = q[i] /\ q[i] \in Booted
      BY <1>1, <1>3 DEF ToSet
  <2>2. CASE j = Len(q) + 1
      BY <1>1, <2>1, <2>2, CurrentIsNew
  <2>3. CASE j \in 1..Len(q)
      BY <1>1, <1>3, <2>1, <2>3 DEF InOrder
  <2> QED BY <1>1, <2>2, <2>3
<1> QED BY <1>1, <1>2, <1>3 DEF InOrder

\* After the last server the loop is done with all of them.
LEMMA NextServerFiles ==
    ASSUME TypeOK, LoopsInRange, phase = "entering", NEW now, NextServer(now),
           actors' = fingerprints', ToSet(fingerprints') \subseteq toolSpecs',
           InOrder(fingerprints'), InOrder(failures'),
           ToSet(fingerprints') \cup ToSet(failures') = Booted \cup {Current},
           ToSet(fingerprints') \cap ToSet(failures') = {}
    PROVE  BootIsFiled'
<1> DEFINE done == Booted \cup {Current}
<1>1. /\ pos \in Nat /\ 1 <= pos /\ pos <= Len(Order) /\ Len(Order) \in Nat
      /\ done = {Order[i] : i \in 1..pos}
    BY OrderListsServers, CurrentIsNew DEF TypeOK, LoopsInRange
<1>2. CASE pos < Len(Order)
  <2>1. pos' - 1 = pos /\ phase' = "entering"
      BY <1>1, <1>2 DEF NextServer
  <2>2. Booted' = done
      BY <1>1, <2>1 DEF Booted
  <2> QED BY <2>1, <2>2 DEF BootIsFiled, Filed, InOrder
<1>3. CASE pos = Len(Order)
  <2>1. phase' = "open"
      BY <1>1, <1>3 DEF NextServer
  <2>2. Servers = done
    <3>1. DOMAIN Order = 1..Len(Order) /\ ToSet(Order) = Servers
        BY OrderListsServers
    <3> QED BY <1>1, <1>3, <3>1 DEF ToSet
  <2> QED BY <2>1, <2>2 DEF BootIsFiled, Filed, InOrder
<1> QED BY <1>1, <1>2, <1>3

LEMMA FingerprintedFiles ==
    ASSUME IInv, BootIsFiled, Fingerprinted
    PROVE  BootIsFiled'
<1>1. /\ TypeOK /\ LoopsInRange /\ phase = "entering" /\ Filed(Booted)
      /\ fingerprints \in Seq(Servers) /\ NextServer("up")
    BY DEF IInv, TypeOK, Fingerprinted, BootIsFiled
<1>2. /\ actors' = Append(fingerprints, Current) /\ fingerprints' = actors'
      /\ toolSpecs' = toolSpecs \cup {Current} /\ failures' = failures
    BY <1>1 DEF Fingerprinted, Filed
<1>3. /\ InOrder(Append(fingerprints, Current))
      /\ ToSet(Append(fingerprints, Current)) = ToSet(fingerprints) \cup {Current}
    BY <1>1, FilesInOrder DEF Filed
<1>4. ToSet(fingerprints') \subseteq toolSpecs' /\ InOrder(fingerprints')
    BY <1>1, <1>2, <1>3 DEF Filed, InOrder
<1>5. InOrder(failures')
    BY <1>1, <1>2 DEF Filed
<1>6. /\ ToSet(fingerprints') \cup ToSet(failures') = Booted \cup {Current}
      /\ ToSet(fingerprints') \cap ToSet(failures') = {}
    BY <1>1, <1>2, <1>3, CurrentIsNew DEF Filed
<1> QED BY <1>1, <1>2, <1>4, <1>5, <1>6, NextServerFiles

LEMMA BootFailsFiles ==
    ASSUME IInv, BootIsFiled, BootFails
    PROVE  BootIsFiled'
<1>1. /\ TypeOK /\ LoopsInRange /\ phase = "entering" /\ Filed(Booted)
      /\ failures \in Seq(Servers) /\ NextServer("down")
    BY DEF IInv, TypeOK, BootFails, BootIsFiled
<1>2. failures' = Append(failures, Current) /\ UNCHANGED <<actors, fingerprints>> /\ toolSpecs \subseteq toolSpecs'
    BY DEF BootFails
<1>3. /\ InOrder(Append(failures, Current))
      /\ ToSet(Append(failures, Current)) = ToSet(failures) \cup {Current}
    BY <1>1, FilesInOrder DEF Filed
<1>4. InOrder(failures') /\ InOrder(fingerprints') /\ ToSet(fingerprints') \subseteq toolSpecs'
    BY <1>1, <1>2, <1>3 DEF Filed
<1>5. /\ ToSet(fingerprints') \cup ToSet(failures') = Booted \cup {Current}
      /\ ToSet(fingerprints') \cap ToSet(failures') = {}
    BY <1>1, <1>2, <1>3, CurrentIsNew DEF Filed
<1>6. actors' = fingerprints'
    BY <1>1, <1>2 DEF Filed
<1> QED BY <1>1, <1>4, <1>5, <1>6, NextServerFiles

LEMMA NextFiles ==
    ASSUME IInv, BootIsFiled, [Next]_vars
    PROVE  BootIsFiled'
<1> USE DEF BootIsFiled, Filed, Booted, boot
<1>1. CASE UNCHANGED <<phase, pos, boot>>
    BY <1>1
<1>2. CASE Enter \/ CancelEnter \/ BeginExit \/ Exited
    BY <1>2 DEF Enter, CancelEnter, BeginExit, Exited
<1>3. CASE StopReturns
    BY <1>3 DEF StopReturns
<1>4. CASE Started \/ StopActor \/ UNCHANGED vars
    BY <1>1, <1>4 DEF Started, StopActor, vars
<1>5. ASSUME NEW s \in Servers, SessionDies(s) \/ StoppedCleanly(s) PROVE BootIsFiled'
    BY <1>1, <1>5 DEF SessionDies, StoppedCleanly
<1>6. ASSUME NEW c \in Calls, NEW s \in Servers, NEW op \in Ops,
           NEW args \in Args, Issue(c, s, op, args)
      PROVE  BootIsFiled'
    BY <1>1, <1>6 DEF Issue
<1>7. ASSUME NEW c \in Calls, Returns(c) \/ Raises(c) \/ Cancel(c) PROVE BootIsFiled'
    BY <1>1, <1>7 DEF Returns, Raises, Cancel, End
<1> HIDE DEF BootIsFiled
<1> QED BY <1>2, <1>3, <1>4, <1>5, <1>6, <1>7, FingerprintedFiles, BootFailsFiles DEF Next

\* Whatever servers fail, die or boot late, each is filed once, in order, as
\* booted or as failed, and what is booted can be called (recorder.py:262-284).
THEOREM BootIsAlwaysAccounted == Spec => []BootIsAccounted
<1>1. Init => BootIsFiled
  <2> SUFFICES ASSUME Init PROVE Filed(Booted)
      BY DEF BootIsFiled, Init
  <2> QED BY DEF Init, Filed, Booted, ToSet, InOrder
<1>2. IInv /\ BootIsFiled /\ [Next]_vars => BootIsFiled'
    BY NextFiles
<1>3. BootIsFiled => BootAccounted
    BY DEF BootIsFiled, Filed, BootAccounted
<1>4. BootAccounted /\ BootedServersHaveSession => BootIsAccounted
    BY DEF BootIsAccounted
<1> QED BY <1>1, <1>2, <1>3, <1>4, Invariance, BootedIsCallable, PTL DEF Spec
=============================================================================
