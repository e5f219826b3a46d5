----------------------------- MODULE MCGenerate -----------------------------
(***************************************************************************)
(* Model-checking instance of Generate: three goals, so that a run can     *)
(* skip one, lose one and write one, and three runs, so that the damage of *)
(* one kill meets a resumed run and the result of that run a third one.    *)
(***************************************************************************)
EXTENDS Generate

CONSTANTS g1, g2, g3

GoalSeq == <<g1, g2, g3>>
=============================================================================
