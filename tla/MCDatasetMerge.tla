--------------------------- MODULE MCDatasetMerge ---------------------------
(***************************************************************************)
(* Two runs of one contributor, the second with a larger corpus, and one   *)
(* of another who has a spec of the same task, one that its trace refutes  *)
(* and one that the validator rejected.                                    *)
(***************************************************************************)
EXTENDS DatasetMerge

CONSTANTS ann, bob, run1, run2, run3, t1, t2, t3, t4

ASpec(task, trace, valid, fits) == [task |-> task, trace |-> trace, valid |-> valid, fits |-> fits]

Sorted == <<ann, bob>>
Who    == run1 :> ann @@ run2 :> bob @@ run3 :> ann
Corpora == run1 :> <<ASpec(1, t1, TRUE, TRUE)>>
        @@ run2 :> <<ASpec(1, t2, TRUE, TRUE), ASpec(2, t2, TRUE, FALSE), ASpec(4, t2, FALSE, TRUE)>>
        @@ run3 :> <<ASpec(1, t3, TRUE, FALSE), ASpec(3, t3, TRUE, TRUE), ASpec(4, t4, TRUE, TRUE)>>
TraceSets == run1 :> {t1} @@ run2 :> {t2} @@ run3 :> {t3}
=============================================================================
