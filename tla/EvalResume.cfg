CONSTANTS
    t1 = t1
    t2 = t2
    t3 = t3
    t4 = t4
    Tasks <- TaskSeq
    Referenced <- ReferencedSet
    Repeat = 2
    MaxEvals = 3
    JUNK = JUNK
    EMPTY = EMPTY

SPECIFICATION EvalSpec

INVARIANTS
    RunsSound

PROPERTIES
    FinishedRunCompletes

\* After MaxEvals processes nothing happens any more.
CHECK_DEADLOCK FALSE
