SPECIFICATION FairSpec
CONSTANTS
    Workers = {w1}
    Kinds = {"serial", "main", "events"}
    Jobs = {j1, j2}
    MaxStarts = 2
    MaxFaults = 1
    MaxLosses = 2
    NoJob = NoJob
    Ack = Ack
INVARIANTS
    TypeOK
    StopsAfterOneJob
    
PROPERTIES
    
    LostRunsAreHalted
CHECK_DEADLOCK FALSE
