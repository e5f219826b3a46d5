------------------------------ MODULE MCReplay ------------------------------
(***************************************************************************)
(* Model-checking instance of Replay: one tool on two servers; arguments   *)
(* a1 and a2 are similar enough for tier 2, a3 is like neither; two texts, *)
(* so that two results of one call can differ; one spec, whose checkpoints *)
(* need particular arguments or a text.                                    *)
(***************************************************************************)
EXTENDS Replay

CONSTANTS sA, sB, n, a1, a2, a3, t, u

ServerSet == {sA, sB}
NameSet   == {n}
ArgSet    == {a1, a2, a3}
TextSet   == {t, u}

A == <<sA, n>>
B == <<sB, n>>

Likenesses == [p \in ArgSet \X ArgSet |->
                 CASE p[1] = p[2] -> 100
                   [] p[1] # p[2] /\ a3 \notin {p[1], p[2]} -> 80
                   [] OTHER -> 0]

Effect(refs, args) == [kind |-> "tool_effect", equivalence |-> refs,
                       mustSucceed |-> TRUE, args |-> args]
Value(text)        == [kind |-> "value_produced", texts |-> {text},
                       scope |-> "any_tool_result"]

SpecSet == {[checkpoints |-> <<Effect({A}, {a1}), Effect({A, B}, {a2, a3}), Value(u)>>,
             minefields |-> <<>>, ordering |-> {}]}
=============================================================================
