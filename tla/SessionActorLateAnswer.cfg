CONSTANTS
    Requests = {r1, r2, r3}
    NONE = NONE
    STOP = STOP

SPECIFICATION Spec

PROPERTY AnswerKeepsSession

\* The actor ends, and then nothing happens any more.
CHECK_DEADLOCK FALSE
