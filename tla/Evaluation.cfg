CONSTANTS
    sA = sA
    sB = sB
    n = n
    good = good
    bad = bad
    t = t
    Servers <- ServerSet
    Names <- NameSet
    Args <- ArgSet
    Texts <- TextSet
    NoText = NoText
    NotAnInt = NotAnInt
    Specs <- SpecSet
    MaxSteps = 3

SPECIFICATION Spec

INVARIANTS
    VerdictSound
    JudgeOnlyFlipsEffects
    GatesNest

PROPERTIES
    FurtherCallsUndoNothing

\* An evaluated run is over.
CHECK_DEADLOCK FALSE
