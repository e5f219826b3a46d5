CONSTANTS
    s1 = s1
    s2 = s2
    c1 = c1
    c2 = c2
    Servers <- ServerSet
    Order <- ServerOrder
    Calls <- CallSet

SPECIFICATION Spec

INVARIANTS
    TraceIsFaithful
    BootIsAccounted
    LeftQuiet

SYMMETRY CallSymmetry

\* A recorder is used once: after it has been left nothing happens any more.
CHECK_DEADLOCK FALSE
