----------------------------- MODULE Evaluation -----------------------------
(***************************************************************************)
(* One candidate run and its evaluation (`dmcp eval`, dmcp/cli.py): the    *)
(* agent's calls are recorded one by one, the run ends with a final        *)
(* message, tier 1 scores the trace, and with --judge an LLM re-decides    *)
(* the failed tool_effect checkpoints one after the other                  *)
(* (dmcp/judge.py).  The agent and the judge's answers are arbitrary.      *)
(***************************************************************************)
EXTENDS Scoring

CONSTANTS
    Specs,      \* the task specs evaluated
    MaxSteps,   \* bound: steps of a trace
    NotAnInt    \* a candidate_step_id that int() does not read, or none

ASSUME SpecsAreSpecs == Specs \subseteq TaskSpec /\ MaxSteps \in Nat

VARIABLES
    phase,      \* "running", "ended", "scored", "judging", "judged"
    spec,
    steps,      \* trace.steps
    message,    \* trace.seed_metadata["exploration"]["final_message"]
    ev,         \* the EvaluationResult, or NoEv
    upgraded    \* `upgraded` of upgrade_with_judge

vars == <<phase, spec, steps, message, ev, upgraded>>

NoEv == [passed |-> FALSE]

\* The judge may name a step that the trace does not have.
Claims == 1..(MaxSteps + 1) \cup {NotAnInt}

CheckpointResult == [kind : {"tool_effect", "value_produced", "state_condition"},
                     passed : BOOLEAN, step : 0..(MaxSteps + 1), tier : {1, 2}]

Evaluations == [results : Seq(CheckpointResult), hits : SUBSET Nat,
                orderingOk : BOOLEAN, passed : BOOLEAN, sae : SUBSET Nat,
                errors : SUBSET ({"E1", "E3", "E4", "E5", "E6", "E7"} \X Nat)]

TypeOK == /\ phase \in {"running", "ended", "scored", "judging", "judged"}
          /\ spec \in Specs
          /\ steps \in Seq(TraceStep)
          /\ message \in Texts \cup {NoText}
          /\ IF phase \in {"running", "ended"} THEN ev = NoEv ELSE ev \in Evaluations
          /\ upgraded \in Seq(CheckpointResult)

Init == /\ phase = "running"
        /\ spec \in Specs
        /\ steps = <<>>
        /\ message = NoText
        /\ ev = NoEv
        /\ upgraded = <<>>

-----------------------------------------------------------------------------
Call(step) ==
    /\ phase = "running"
    /\ Len(steps) < MaxSteps
    /\ steps' = Append(steps, step)
    /\ UNCHANGED <<phase, spec, message, ev, upgraded>>

\* explore() returns and stash_exploration_in_trace keeps its final message.
EndRun(text) ==
    /\ phase = "running"
    /\ message' = text
    /\ phase' = "ended"
    /\ UNCHANGED <<spec, steps, ev, upgraded>>

Score ==
    /\ phase = "ended"
    /\ ev' = Evaluate(spec, steps, message)
    /\ phase' = "scored"
    /\ UNCHANGED <<spec, steps, message, upgraded>>

StartJudge ==
    /\ phase = "scored"
    /\ phase' = "judging"
    /\ UNCHANGED <<spec, steps, message, ev, upgraded>>

Pending == ev.results[Len(upgraded) + 1]
HasPending == Len(upgraded) < Len(ev.results)

\* Mutant: value_produced checkpoints are judged as well.
Judgeable_AnyKind(r) == ~r.passed

Judgeable(r) == ~r.passed /\ r.kind = "tool_effect"

Keep(r) == /\ upgraded' = Append(upgraded, r)
           /\ UNCHANGED <<phase, spec, steps, message, ev>>

\* Nothing to judge, or the judge gives no answer.
PassThrough ==
    /\ phase = "judging" /\ HasPending
    /\ Keep(Pending)

ClaimedStep(claim) == IF claim = NotAnInt THEN NoStep ELSE claim

JudgeYes(claim) ==
    /\ phase = "judging" /\ HasPending
    /\ Judgeable(Pending)
    /\ Keep([Pending EXCEPT !.passed = TRUE, !.tier = 2, !.step = ClaimedStep(claim)])

JudgeNo ==
    /\ phase = "judging" /\ HasPending
    /\ Judgeable(Pending)
    /\ Keep([Pending EXCEPT !.tier = 2])

\* Only the results and the verdict are replaced.
Rejudged ==
    [ev EXCEPT !.results = upgraded,
               !.passed = Verdict(upgraded, ev.hits, ev.orderingOk)]

EndJudge ==
    /\ phase = "judging" /\ ~HasPending
    /\ ev' = Rejudged
    /\ phase' = "judged"
    /\ UNCHANGED <<spec, steps, message, upgraded>>

Next == \/ \E step \in TraceStep : Call(step)
        \/ \E text \in Texts \cup {NoText} : EndRun(text)
        \/ Score
        \/ StartJudge
        \/ PassThrough
        \/ \E claim \in Claims : JudgeYes(claim)
        \/ JudgeNo
        \/ EndJudge

Spec == Init /\ [][Next]_vars

-----------------------------------------------------------------------------
(* Properties.                                                             *)

Scored == phase \in {"scored", "judging", "judged"}
Ids    == 1..Len(spec.checkpoints)
Now    == Evaluate(spec, steps, NoText)

\* Whatever the agent still does, a checkpoint satisfied by a call stays
\* satisfied by that call, an order that holds goes on holding, and a tripped
\* minefield stays tripped (evaluator.py:204-221, 321-335, 348-368).
FurtherCallsUndoNothing ==
    [][phase = "running" =>
         /\ \A i \in Ids : Now.results[i].passed =>
                             Now'.results[i] = Now.results[i]
         /\ Now.hits \subseteq Now'.hits
         /\ Now.orderingOk => Now'.orderingOk]_vars

\* The calls that tier 1 accepts as evidence for a checkpoint.
Evidence(cp) == CASE cp.kind = "tool_effect" -> EffectCalls(cp, steps)
                  [] cp.kind = "value_produced" -> ValueCalls(cp, steps)
                  [] OTHER -> {}

\* A passed run respects the spec's order with calls that are in the trace and
\* match, even if the judge names steps that are not (cli.py:2187-2191: the
\* verdict after the judge keeps tier 1's ordering_ok).
PassedOrderIsReal ==
    Scored /\ ev.passed =>
        \A oc \in spec.ordering :
            \E i \in Evidence(spec.checkpoints[oc[1]]),
               j \in Evidence(spec.checkpoints[oc[2]]) : i < j

\* A value is credited only to a run in which some call succeeded: "crediting
\* it would be a false positive" (evaluator.py:244-254).  The judge cannot
\* bypass that guard.
ValuesAreGrounded ==
    Scored => \A i \in 1..Len(ev.results) :
                ev.results[i].kind = "value_produced" /\ ev.results[i].passed
                  => Succeeded(steps) # {}

\* "Its single authority is to flip one specific failed tool_effect checkpoint
\* to passed" (judge.py:8-12): the judge never fails a run or a checkpoint that
\* tier 1 passed, and changes nothing else of any other kind.
JudgeOnlyFlipsEffects ==
    phase = "judged" =>
        LET tier1 == Evaluate(spec, steps, message) IN
        /\ tier1.passed => ev.passed
        /\ \A i \in Ids : ev.results[i] # tier1.results[i] =>
             /\ spec.checkpoints[i].kind = "tool_effect"
             /\ ~tier1.results[i].passed

Unobservable == \E i \in Ids : spec.checkpoints[i].kind = "state_condition"

\* Tier 1 explains every failure: a run fails exactly if an error is counted,
\* a minefield is hit, or a checkpoint cannot be observed
\* (evaluator.py:396-444, 554-556).
FailureIsExplained ==
    phase = "scored" =>
        (~ev.passed <=> ev.errors # {} \/ ev.hits # {} \/ Unobservable)

\* The three self-consistency checks nest: what `tool_absent` flags is flagged
\* by `gold_unsatisfied`, which "strictly subsumes" it (evaluator.py:617-618),
\* and by the gate; and the tier-1 verdict on a reference that passes the gate
\* depends only on its order, its minefields and the unobservable.
GatesNest ==
    phase = "scored" =>
        LET gate == ReferenceUnsatisfied(spec, steps, message) IN
        /\ ToolAbsent(spec, steps) \subseteq GoldUnsatisfied(spec, steps)
        /\ GoldUnsatisfied(spec, steps) \subseteq gate
        /\ ev.passed <=> /\ gate = {} /\ ~Unobservable
                         /\ ev.orderingOk /\ ev.hits = {}

\* The verdict means what the calls did, before and after the judge: a passed
\* run did its steps in the spec's order, a value was earned by a call that
\* succeeded, and what fails is explained by an error, a hit or the unobservable.
VerdictSound == TypeOK /\ PassedOrderIsReal /\ ValuesAreGrounded /\ FailureIsExplained

-----------------------------------------------------------------------------
(* The inductive invariant behind VerdictSound, JudgeOnlyFlipsEffects and  *)
(* GatesNest: whatever the judge has answered, the evaluation is tier 1's  *)
(* with some of its results replaced.                                      *)

Tier1 == Evaluate(spec, steps, message)

\* What the judge has been through is tier 1's, or was its to replace.
JudgedSoFar ==
    /\ Len(upgraded) <= Len(spec.checkpoints)
    /\ \A i \in 1..Len(upgraded) :
         \/ upgraded[i] = Tier1.results[i]
         \/ Judgeable(Tier1.results[i]) /\ upgraded[i].kind = "tool_effect"

IInv == /\ TypeOK
        /\ Len(steps) <= MaxSteps
        /\ phase \notin {"judging", "judged"} => upgraded = <<>>
        /\ phase \in {"scored", "judging"} => ev = Tier1
        /\ phase \in {"judging", "judged"} => JudgedSoFar
        /\ phase = "judged" =>
             /\ Len(upgraded) = Len(spec.checkpoints)
             /\ ev = [Tier1 EXCEPT !.results = upgraded,
                                   !.passed = Verdict(upgraded, Tier1.hits, Tier1.orderingOk)]
=============================================================================
