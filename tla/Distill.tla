------------------------------ MODULE Distill ------------------------------
(***************************************************************************)
(* From a trace to a task spec (dmcp/distiller.py): what the code derives  *)
(* from the trace itself, and what it makes of the answer of the model.    *)
(*                                                                         *)
(* A step is [agent, ok, server, args, yields]: `agent` for a call of the  *)
(* explorer, `args` and `yields` the values of its arguments and result.   *)
(* A manifest maps servers to their dynamism; NONE when there is none.     *)
(* The answer is [chat, called, readable, fields, checkpoints, minefields]:*)
(* the error of the chat, whether the tool was called, whether its         *)
(* arguments were JSON of the right shape, which fields they have, and the *)
(* checkpoints, each a kind with its fields, and minefields.               *)
(***************************************************************************)
EXTENDS Naturals, Sequences, FiniteSets, SequencesExt

CONSTANTS
    LongEnough(_),      \* an argument that is worth looking for
    Windows(_),         \* the six-digit windows of a value
    Family(_),          \* family_of a model
    NONE

Agent(steps)      == SelectSeq(steps, LAMBDA s : s.agent)
Successful(steps) == SelectSeq(steps, LAMBDA s : s.agent /\ s.ok)
Servers(steps)    == {Successful(steps)[i].server : i \in 1..Len(Successful(steps))}

\* _had_recovery.
HadRecovery(steps) ==
    \E i, h \in 1..Len(Agent(steps)) : i < h /\ ~Agent(steps)[i].ok /\ Agent(steps)[h].ok

\* _runtime_branching: an argument of a call, a failed one too, comes from an
\* earlier successful result, verbatim or by its digits.
Reappears(value, result) ==
    value \in result \/ Windows(value) \cap UNION {Windows(v) : v \in result} # {}

RuntimeBranching(steps) ==
    LET calls == Agent(steps)
    IN  \E i, h \in 1..Len(calls) :
            /\ i < h
            /\ calls[i].ok
            /\ \E v \in calls[h].args : LongEnough(v) /\ Reappears(v, calls[i].yields)

-----------------------------------------------------------------------------
(* derive_dynamism: the highest class of the servers the manifest knows.   *)

Rank == [static |-> 0, live_read |-> 1, stateful_write |-> 2]

Known(servers, manifest) == IF manifest = NONE THEN {} ELSE servers \cap DOMAIN manifest

DeriveDynamism(servers, manifest) ==
    LET classes == {manifest[s] : s \in Known(servers, manifest)}
    IN  IF classes = {} THEN "live_read"
        ELSE CHOOSE d \in classes : \A e \in classes : Rank[e] <= Rank[d]

Complexity(steps, manifest) ==
    [depth            |-> Len(Successful(steps)),
     distinctServers  |-> Cardinality(Servers(steps)),
     crossServer      |-> Cardinality(Servers(steps)) > 1,
     runtimeBranching |-> RuntimeBranching(steps),
     stateCoupling    |-> \E s \in Known(Servers(steps), manifest) : manifest[s] = "stateful_write",
     recoveryRequired |-> HadRecovery(steps)]

\* Mutant: the servers of failed calls count as used.
ServersUsed_All(steps) == {Agent(steps)[i].server : i \in 1..Len(Agent(steps))}

ServersUsed(steps) == Servers(steps)

\* _trace_view_for_llm: only what succeeded is shown.
View(trace) ==
    [goal |-> trace.goal, tools |-> trace.tools, steps |-> Successful(trace.steps), final |-> trace.final]

-----------------------------------------------------------------------------
(* The answer of the model.                                                *)

EffectFields == {"checkpoint_id", "description", "equivalence_set"}
ValueFields  == {"checkpoint_id", "description", "predicate"}
MineFields   == {"minefield_id", "description"}

\* _parse_checkpoint and _parse_minefield raise errors that distill turns into
\* its own; other shapes raise errors it lets through.
Parses(checkpoint) ==
    CASE checkpoint.kind = "tool_effect"    -> EffectFields \subseteq checkpoint.fields
      [] checkpoint.kind = "value_produced" -> ValueFields \subseteq checkpoint.fields
      [] OTHER                              -> FALSE

\* Arguments that are no JSON reach the distiller as a dict without fields.
Fields(answer) == IF answer.readable THEN answer.fields ELSE {"_raw"}

\* Minefields may be absent; checkpoints may not.
Minefields(answer) == IF "minefields" \in Fields(answer) THEN answer.minefields ELSE <<>>

Parsed(answer) ==
    /\ \A i \in 1..Len(answer.checkpoints) : Parses(answer.checkpoints[i])
    /\ \A i \in 1..Len(Minefields(answer)) : MineFields \subseteq Minefields(answer)[i].fields

\* distill: the spec, or the kind of error that leaves it.
Failure(trace, answer) ==
    CASE Successful(trace.steps) = <<>>                 -> "refused"
      [] answer.chat # NONE                             -> "llm_error"
      [] ~answer.called                                 -> "refused"
      [] "checkpoints" \notin Fields(answer)            -> "refused"
      [] ~Parsed(answer)                                -> "refused"
      [] "prompt" \notin Fields(answer)                 -> "key_error"
      [] OTHER                                          -> NONE

\* _build_provenance: models and families, the caller's entries on top.
Provenance(trace, distiller, overrides) ==
    LET role(name, model) == IF model = NONE THEN <<>> ELSE
            [r \in {name \o "_model", name \o "_family"} |-> IF r = name \o "_model" THEN model ELSE Family(model)]
        base == role("distiller", distiller) @@ role("explorer", trace.model) @@ role("goalgen", trace.goalgen)
    IN  overrides @@ base

DistillTrace(trace, manifest, answer, distiller, overrides) ==
    [source      |-> trace.id,
     dynamism    |-> DeriveDynamism(Servers(trace.steps), manifest),
     servers     |-> ServersUsed(trace.steps),
     complexity  |-> Complexity(trace.steps, manifest),
     checkpoints |-> answer.checkpoints,
     minefields  |-> Minefields(answer),
     provenance  |-> Provenance(trace, distiller, overrides)]
=============================================================================
