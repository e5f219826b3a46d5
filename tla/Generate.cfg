CONSTANTS
    g1 = g1
    g2 = g2
    g3 = g3
    Goals <- GoalSeq
    MaxRuns = 3
    JUNK = JUNK
    EMPTY = EMPTY

SPECIFICATION Spec

INVARIANTS
    CorpusSound

PROPERTIES
    TerminatedRowsSurvive
    FinishedRunCovers

\* After MaxRuns processes nothing happens any more.
CHECK_DEADLOCK FALSE
