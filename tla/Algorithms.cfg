CONSTANTS
    NONE = NONE
    Kinds = {"refresh", "verify", "discovery", "exploration", "distill", "corpus", "pool", "goals",
             "planning", "results", "outcomes", "agreement", "subset", "surface"}

SPECIFICATION Spec

\* A case is tried in one step, and there the behaviour ends.
CHECK_DEADLOCK FALSE

INVARIANTS
    DecayIsAccounted
    ToolGraphIsEarned
    CrawlIsSafeToRun
    TurnsAreAnswered
    SpecReflectsTrace
    CorpusAddsUp
    PoolsAreExact
    GoalsFileIsValid
    LaunchablePlanIsSound
    OutcomesAreReported
