CONSTANTS
    ann = ann
    bob = bob
    run1 = run1
    run2 = run2
    run3 = run3
    t1 = t1
    t2 = t2
    t3 = t3
    t4 = t4
    Contributors <- Sorted
    Runs = {run1, run2}
    NameOf <- Who
    SpecsOf <- Corpora
    TracesOf <- TraceSets
    NONE = NONE

SPECIFICATION Spec

\* When all runs have ended nothing happens any more.
CHECK_DEADLOCK FALSE

INVARIANTS
    RunsConverge
