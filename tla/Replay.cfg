CONSTANTS
    sA = sA
    sB = sB
    n = n
    a1 = a1
    a2 = a2
    a3 = a3
    t = t
    u = u
    Servers <- ServerSet
    Names <- NameSet
    Args <- ArgSet
    Texts <- TextSet
    NoText = NoText
    Specs <- SpecSet
    MaxReference = 2
    MaxSteps = 2
    NotAnInt = NotAnInt
    Full = 100
    Similarity <- Likenesses
    Threshold = 75

SPECIFICATION ReplaySpec

INVARIANTS
    ReplayIsFaithful
    GatedEffectsAreReachable

\* The candidate stops calling.
CHECK_DEADLOCK FALSE
