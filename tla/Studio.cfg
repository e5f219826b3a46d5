CONSTANTS
    good = good
    bad = bad
    download = download
    history = history
    quotes = quotes
    Tools = {download, history, quotes}
    Recorded <- RecordedSets
    LiveSets <- OtherSets
    Candidates <- TwoCandidates
    FixtureCalls = 1
    CandidateCalls = 1
    MaxCalls = 1
    MaxEpoch = 3
    NONE = NONE

SPECIFICATION Spec

INVARIANTS
    TraceIsShownWhole
    VerdictIsCurrent
    SpinsOnlyWhileStreaming

PROPERTIES
    DistillsTheLastTrace
    ExplorationsEnd
