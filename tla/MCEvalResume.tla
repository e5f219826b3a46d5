---------------------------- MODULE MCEvalResume ----------------------------
(***************************************************************************)
(* Model-checking instance of EvalResume: four tasks, one of them without  *)
(* a reference trace, two repetitions, and three processes, so that the    *)
(* damage of one kill meets a resumed process and that one's a third.      *)
(***************************************************************************)
EXTENDS EvalResume

CONSTANTS t1, t2, t3, t4

TaskSeq       == <<t1, t2, t3, t4>>
ReferencedSet == {t1, t3, t4}
=============================================================================
