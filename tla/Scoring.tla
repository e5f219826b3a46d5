------------------------------ MODULE Scoring ------------------------------
(***************************************************************************)
(* The deterministic tier-1 scorer of dmcp/evaluator.py as operators on a  *)
(* task spec, the steps of a trace and its final message.                  *)
(*                                                                         *)
(* What a predicate matches is data: an arg_predicate is the set of the    *)
(* argument classes that satisfy it, a value predicate the set of the      *)
(* texts that do.  A checkpoint's id is its place in the spec, a step's id *)
(* its place in the trace; NoStep is a matched_step_id of None.            *)
(***************************************************************************)
EXTENDS Naturals, Sequences, FiniteSetsExt

CONSTANTS
    Servers, Names,     \* a tool is a server and a tool name
    Args,               \* classes of arguments
    Texts,              \* rendered results and final messages
    NoText              \* the empty text

ASSUME NoTextDistinct == NoText \notin Texts

Refs   == Servers \X Names
NoStep == 0

ToolEffect    == [kind : {"tool_effect"}, equivalence : SUBSET Refs,
                  mustSucceed : BOOLEAN, args : SUBSET Args]
ValueProduced == [kind : {"value_produced"}, texts : SUBSET Texts,
                  scope : {"any_tool_result", "final_assistant_message"}]
Checkpoint    == ToolEffect \cup ValueProduced \cup [kind : {"state_condition"}]
Minefield     == [tools : {{}} \cup {{r} : r \in Refs}, args : SUBSET Args]

TaskSpec == [checkpoints : Seq(Checkpoint),
             minefields  : Seq(Minefield),
             ordering    : SUBSET (Nat \X Nat)]

AgentCall == [kind : {"call_tool_agent"}, ref : Refs, args : Args,
              ok : BOOLEAN, text : Texts \cup {NoText}]
TraceStep == AgentCall \cup [kind : {"list_tools"}]

-----------------------------------------------------------------------------
(* Checkpoints.                                                            *)

AgentCalls(steps) == {i \in 1..Len(steps) : steps[i].kind = "call_tool_agent"}
Succeeded(steps)  == {i \in AgentCalls(steps) : steps[i].ok}

\* The calls a tool_effect checkpoint accepts.
EffectCalls(cp, steps) ==
    {i \in AgentCalls(steps) : /\ steps[i].ref \in cp.equivalence
                               /\ cp.mustSucceed => steps[i].ok
                               /\ steps[i].args \in cp.args}

\* The calls whose result shows the value a value_produced checkpoint wants.
ValueCalls(cp, steps) ==
    {i \in Succeeded(steps) : steps[i].text \in cp.texts}

Result(kind, passed, step) ==
    [kind |-> kind, passed |-> passed, step |-> step, tier |-> 1]

\* Mutant: the last match is reported, not the first.
FirstOf_Last(kind, calls) ==
    Result(kind, calls # {}, IF calls = {} THEN NoStep ELSE Max(calls))

\* The first call that matches decides; without any the checkpoint fails.
FirstOf(kind, calls) ==
    Result(kind, calls # {}, IF calls = {} THEN NoStep ELSE Min(calls))

\* A value in the final message counts only if some call succeeded.
FinalValue(cp, steps, message) ==
    Result(cp.kind, message \in cp.texts /\ Succeeded(steps) # {}, NoStep)

EvalCheckpoint(cp, steps, message) ==
    CASE cp.kind = "tool_effect" -> FirstOf(cp.kind, EffectCalls(cp, steps))
      [] cp.kind = "value_produced" ->
           IF cp.scope = "final_assistant_message"
           THEN FinalValue(cp, steps, message)
           ELSE FirstOf(cp.kind, ValueCalls(cp, steps))
      [] OTHER -> Result(cp.kind, FALSE, NoStep)

-----------------------------------------------------------------------------
(* Minefields, ordering, verdict.                                          *)

\* The status of the call is not looked at: an attempt is enough.
Tripped(mf, steps) == \E i \in AgentCalls(steps) : /\ steps[i].ref \in mf.tools
                                                   /\ steps[i].args \in mf.args

MatchedAt(results, id) ==
    IF id \in 1..Len(results) THEN results[id].step ELSE NoStep

EvalOrdering(ordering, results) ==
    \A oc \in ordering :
        LET before == MatchedAt(results, oc[1])
            after  == MatchedAt(results, oc[2])
        IN before # NoStep /\ after # NoStep /\ before < after

Verdict(results, hits, orderingOk) ==
    /\ \A i \in 1..Len(results) : results[i].passed
    /\ hits = {}
    /\ orderingOk

-----------------------------------------------------------------------------
(* Error taxonomy and server attribution.                                  *)

\* Calls of the right tool name on a server the checkpoint does not accept.
Misdirected(cp, steps) ==
    {i \in Succeeded(steps) :
        /\ \E ref \in cp.equivalence : ref[2] = steps[i].ref[2]
        /\ steps[i].ref \notin cp.equivalence}

Attempts(cp, steps) == {i \in AgentCalls(steps) : steps[i].ref \in cp.equivalence}

Prerequisite(spec, id) == \E oc \in spec.ordering : oc[1] = id

\* Mutant: a checkpoint whose tool was tried on no server at all is forgotten.
EffectError_NoE6(spec, id, steps) ==
    LET cp == spec.checkpoints[id] IN
    CASE Misdirected(cp, steps) # {} -> {"E4"}
      [] Misdirected(cp, steps) = {} /\ Attempts(cp, steps) # {} -> {"E7"}
      [] OTHER -> {}

EffectError(spec, id, steps) ==
    LET cp == spec.checkpoints[id] IN
    IF Misdirected(cp, steps) # {} THEN {"E4"}
    ELSE IF Attempts(cp, steps) # {} THEN {"E7"}
    ELSE IF Prerequisite(spec, id) THEN {"E1"}
    ELSE {"E6"}

\* The errors counted: <<code, checkpoint>>, and E5 once for a broken order.
ClassifyErrors(spec, steps, results, orderingOk) ==
    LET failed(kind) == {i \in 1..Len(results) :
                           ~results[i].passed /\ results[i].kind = kind}
    IN (UNION {EffectError(spec, i, steps) \X {i} : i \in failed("tool_effect")})
         \cup {<<"E3", i>> : i \in failed("value_produced")}
         \cup (IF orderingOk THEN {} ELSE {<<"E5", NoStep>>})

\* The servers on which some checkpoint accepts a tool of this name.
CorrectServers(spec, name) ==
    {s \in Servers : \E i \in 1..Len(spec.checkpoints) :
                        /\ spec.checkpoints[i].kind = "tool_effect"
                        /\ <<s, name>> \in spec.checkpoints[i].equivalence}

\* Server attribution errors: a required tool name on a wrong server.
DetectSae(spec, steps) ==
    {i \in Succeeded(steps) :
        /\ CorrectServers(spec, steps[i].ref[2]) # {}
        /\ steps[i].ref[1] \notin CorrectServers(spec, steps[i].ref[2])}

Evaluate(spec, steps, message) ==
    LET results    == [i \in 1..Len(spec.checkpoints) |->
                         EvalCheckpoint(spec.checkpoints[i], steps, message)]
        hits       == {i \in 1..Len(spec.minefields) :
                         Tripped(spec.minefields[i], steps)}
        orderingOk == EvalOrdering(spec.ordering, results)
    IN [results    |-> results,
        hits       |-> hits,
        orderingOk |-> orderingOk,
        passed     |-> Verdict(results, hits, orderingOk),
        sae        |-> DetectSae(spec, steps),
        errors     |-> ClassifyErrors(spec, steps, results, orderingOk)]

-----------------------------------------------------------------------------
(* Self-consistency of a spec with its own reference trace.                *)

ToolEffectIds(spec) ==
    {i \in 1..Len(spec.checkpoints) : spec.checkpoints[i].kind = "tool_effect"}

\* Mutant: only the successful calls of the reference count.
GoldToolSet_Succeeded(steps) == {steps[i].ref : i \in Succeeded(steps)}

GoldToolSet(steps) == {steps[i].ref : i \in AgentCalls(steps)}

ToolAbsent(spec, steps) ==
    {i \in ToolEffectIds(spec) :
        LET eq == spec.checkpoints[i].equivalence
        IN eq # {} /\ eq \cap GoldToolSet(steps) = {}}

GoldUnsatisfied(spec, steps) ==
    {i \in ToolEffectIds(spec) : EffectCalls(spec.checkpoints[i], steps) = {}}

\* The gate of `generate`: state_condition checkpoints are skipped.
ReferenceUnsatisfied(spec, steps, message) ==
    {i \in 1..Len(spec.checkpoints) :
        /\ spec.checkpoints[i].kind # "state_condition"
        /\ ~EvalCheckpoint(spec.checkpoints[i], steps, message).passed}
=============================================================================
