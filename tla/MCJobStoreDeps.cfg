SPECIFICATION FairSpec
CONSTANTS
    Jobs = {j1, j2}
    Queues = {q1}
    Procs = {p1}
    Workers = {p1}
    NameOf <- OwnNames
    Retries = {0}
    Limits = {1, 2}
    HistoryCount = 1
    GracePeriod = TRUE
    NoQueue = NoQueue
    NoWorker = NoWorker
    NoJob = NoJob
INVARIANTS
    TypeOK
    Placement
    DependenciesOK
PROPERTIES
    CompleteIsFinal
    
