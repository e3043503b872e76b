SPECIFICATION FairSpec
CONSTANTS
    Pids = {p1, p2, p3, p4}
    Count = 2
    Resume <- ThreeJobs
    Adopts = TRUE
    MaxSignals = 2
    MaxDeaths = 2
    NoPid = NoPid
    NoBox = NoBox
INVARIANTS
    TypeOK
    SandboxesUnshared
    OnlyTheUnenteredSurvive
    EachIsResumedOnce
PROPERTIES
    StopsEnd
    CrewIsKept
CHECK_DEADLOCK FALSE
