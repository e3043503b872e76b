SPECIFICATION Spec
CONSTANTS
    Jobs = {j1, j2, j3}
    Queues = {q1}
    Resources = {t1, t2}
    Lists = {{t1}, {t1, t2}}
    Maxima = {0, 1, 2}
    PutStates <- AtRest
    Limits = {2}
    Repeats = 1
    NoQueue = NoQueue
SYMMETRY JobSymmetry
INVARIANTS
    TypeOK
    
    
    
    
PROPERTIES
    AdmissionWithinMaximum
