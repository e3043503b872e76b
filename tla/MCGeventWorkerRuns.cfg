SPECIFICATION Spec
CONSTANTS
    Jobs = {j1, j2}
    Greenlets = {g1, g2, g3}
    Sandboxes = {s1, s2}
    MaxMessages = 2
    Free = Free
    Elsewhere = Elsewhere
    Former = Former
    NoJob = NoJob
    NoGreenlet = NoGreenlet
    NoSandbox = NoSandbox
SYMMETRY AllSymmetry
INVARIANTS
    TypeOK
    SandboxesSuffice
    
CHECK_DEADLOCK FALSE
