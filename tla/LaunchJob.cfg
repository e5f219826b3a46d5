CONSTANTS
    j1 = j1
    j2 = j2
    m1 = m1
    m2 = m2
    g1 = g1
    g2 = g2
    Jobs = {j1, j2}
    Models <- ModelSeq
    Target = 1
    GoalOf <- SomeGoals
    MaxBuild = 2
    MaxTasks = 2
    MaxCuts = 1
    Verbatim <- SomePrompts
    DepthOf <- SomeDepths
    Requests <- AnyRequest
    JUNK = JUNK
    EMPTY = EMPTY
    NONE = NONE

SPECIFICATION Spec

SYMMETRY Symmetric

\* When every job is done nothing happens any more.
CHECK_DEADLOCK FALSE

INVARIANTS
    OneRowPerTask

PROPERTIES
    TopUpsSuffice
    SelectionIsReported
