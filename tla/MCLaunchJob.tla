---------------------------- MODULE MCLaunchJob -----------------------------
(***************************************************************************)
(* Two launches of the same benchmark, one spec to select, two models.  A  *)
(* build makes at most two of two tasks, of which one is a long chain and  *)
(* one keeps its goal as its prompt, so that a selection leaves a task out *)
(* and finds the trace of one.  One row reaches its file in two parts, or  *)
(* only the first.                                                         *)
(***************************************************************************)
EXTENDS LaunchJob, TLC

CONSTANTS j1, j2, m1, m2, g1, g2

ModelSeq   == <<m1, m2>>
SomeDepths == <<"long_chain", "short_chain">>
SomeGoals  == <<g1, g2>>
SomePrompts == {1}
Symmetric  == Permutations(Jobs)
AnyRequest == {[dry_run |-> FALSE, run_benchmark |-> TRUE],
               [dry_run |-> FALSE, run_benchmark |-> FALSE],
               [dry_run |-> TRUE, run_benchmark |-> FALSE]}
=============================================================================
