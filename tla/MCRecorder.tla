----------------------------- MODULE MCRecorder -----------------------------
(***************************************************************************)
(* Model-checking instance of Recorder: two servers, so that one can boot, *)
(* fail or be stopped while the other runs, and two calls that overlap.    *)
(***************************************************************************)
EXTENDS Recorder

CONSTANTS s1, s2, c1, c2

ServerSet   == {s1, s2}
ServerOrder == <<s1, s2>>
CallSet     == {c1, c2}
CallSymmetry == Permutations(CallSet)
=============================================================================
