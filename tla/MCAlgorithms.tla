---------------------------- MODULE MCAlgorithms ----------------------------
(***************************************************************************)
(* All the cases of the pure parts in one next-state relation: a step      *)
(* takes one input of one part, and the invariants say what that part owes *)
(* its callers there.                                                      *)
(***************************************************************************)
EXTENDS MCServers, MCCorpus, MCReports

Next == \/ Try("refresh", RefreshInputs)
        \/ Try("verify", VerifyInputs)
        \/ Try("discovery", DiscoveryInputs)
        \/ Try("exploration", ExplorationInputs)
        \/ Try("distill", DistillInputs)
        \/ Try("corpus", CorpusInputs)
        \/ Try("pool", PoolInputs)
        \/ Try("goals", GoalInputs)
        \/ Try("planning", PlanningInputs)
        \/ Try("results", ResultInputs)
        \/ Try("outcomes", OutcomeInputs)
        \/ Try("agreement", AgreementInputs)
        \/ Try("subset", SubsetInputs)
        \/ Try("surface", SurfaceInputs)

Spec == Init /\ [][Next]_case
=============================================================================
