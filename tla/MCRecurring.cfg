SPECIFICATION Spec
CONSTANTS
    Templates = {r1, r2}
    Queues = {q1, q2}
    Intervals = {1, 2}
    Offsets = {0, 1}
    Backlogs = {0, 1}
    Limits = {1, 3}
    MaxTime = 4
    MaxChildren = 3
    Absent = Absent
    Never = Never
SYMMETRY BothSymmetry
INVARIANTS
    TypeOK
    
    NumbersAreUsedOnce
PROPERTIES
    PollsAreBounded
