---------------------------- MODULE MCEvaluation ----------------------------
(***************************************************************************)
(* Model-checking instance of Evaluation: one tool name on two servers,    *)
(* arguments that match or do not, one text that is evidence, and five     *)
(* specs: an ordered cross-server task with a minefield, a task whose      *)
(* value is read in the final message, one whose value is read in a        *)
(* result, ordered, one with two unordered effects, and one with a         *)
(* state_condition.                                                        *)
(***************************************************************************)
EXTENDS Evaluation

CONSTANTS sA, sB, n, good, bad, t

ServerSet == {sA, sB}
NameSet   == {n}
ArgSet    == {good, bad}
TextSet   == {t}

A == <<sA, n>>
B == <<sB, n>>

Effect(refs, args) == [kind |-> "tool_effect", equivalence |-> refs,
                       mustSucceed |-> TRUE, args |-> args]
Attempt(refs)      == [kind |-> "tool_effect", equivalence |-> refs,
                       mustSucceed |-> FALSE, args |-> ArgSet]
Value(where)       == [kind |-> "value_produced", texts |-> {t}, scope |-> where]
Condition          == [kind |-> "state_condition"]
Mine(ref)          == [tools |-> {ref}, args |-> {bad}]

SpecSet ==
    {[checkpoints |-> <<Effect({A}, {good}), Effect({B}, ArgSet)>>,
      minefields |-> <<Mine(B)>>, ordering |-> {<<1, 2>>}],
     [checkpoints |-> <<Attempt({A}), Value("final_assistant_message")>>,
      minefields |-> <<[tools |-> {}, args |-> ArgSet]>>, ordering |-> {}],
     [checkpoints |-> <<Effect({A, B}, {good}), Value("any_tool_result")>>,
      minefields |-> <<>>, ordering |-> {<<1, 2>>}],
     [checkpoints |-> <<Effect({A}, {good}), Effect({B}, {good})>>,
      minefields |-> <<Mine(A)>>, ordering |-> {}],
     [checkpoints |-> <<Condition, Effect({B}, {good})>>,
      minefields |-> <<>>, ordering |-> {}]}
=============================================================================
