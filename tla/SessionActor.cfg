CONSTANTS
    Requests = {r1, r2, r3}
    NONE = NONE
    STOP = STOP

SPECIFICATION FairSpec

INVARIANTS
    ActorAccounted

PROPERTIES
    ServedInOrder
    EveryRequestResolved
    StopReturnsEventually
    PortSpec

\* The actor ends, and then nothing happens any more.
CHECK_DEADLOCK FALSE
