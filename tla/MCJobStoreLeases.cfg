SPECIFICATION Spec
CONSTANTS
    Jobs = {j1}
    Queues = {q1, q2}
    Procs = {p1, p2}
    Workers = {p1, p2}
    NameOf <- OwnNames
    Retries = {0, 1}
    Limits = {1}
    HistoryCount = 1
    GracePeriod = TRUE
    NoQueue = NoQueue
    NoWorker = NoWorker
    NoJob = NoJob
INVARIANTS
    OwnersUpToDate
    
PROPERTIES
    
    LeaseIsKept
